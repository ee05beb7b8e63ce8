------------------------------- MODULE Startup -------------------------------
(***************************************************************************)
(* main() of sussybard.cpp around its loop: the command line, read one     *)
(* option at a time by CLIParser::parse (cli_parser.cpp) and the callbacks *)
(* main() registers; the devices it then opens one after the other,        *)
(* returning at the first that fails; and the destructors that run when it *)
(* returns, whether an init has failed or the loop has ended.              *)
(***************************************************************************)
EXTENDS Integers, Devices

CONSTANTS
  Words,       \* command-line arguments
  NumberOf,    \* the int std::stol makes of a word: a singleton, or {} if it
               \* throws or the value does not fit in an int
  Addresses,   \* words with a colon before their last part, the port
  MaxWords     \* bound: length of a command line

StringOptions == {"--midi-source", "--udp-source", "--udp-sink"}
OctaveOptions == {"--active-octaves", "--active-octaves-udp"}
IntOptions ==
  {"--midi-transpose", "--synth-transpose", "--base-key",
   "--synth-transpose-udp", "--base-key-udp"} \cup OctaveOptions
Options == StringOptions \cup IntOptions \cup {"--key-sink", "--help"}

NumOctaves == 3

ASSUME StartupConstants ==
  /\ NumberOf \in [Words -> SUBSET Int]
  /\ \A word \in Words : \A m, n \in NumberOf[word] : m = n
  /\ Addresses \subseteq Words
  /\ MaxWords \in Nat

VARIABLES
  platform,  \* what the program was built for: "linux" or "win32"
  line,      \* the command line
  argv,      \* what is left of it
  stage,     \* "parse"; what main() opens: "source", "keys", "sink", "bind"
             \* (the bind table), "backend"; "loop"; the destructors
             \* "~backend" .. "~source"; or how main() ended: "help", "failed"
             \* (both before any device), "returned", "exited"
  ended,     \* CLIParser::ended_state
  strings,   \* Arguments: client and udp_sink
  flags,     \* Arguments: those of key_sink and udp_source that are set
  ints,      \* Arguments: the numbers, by option
  opened,    \* devices that are open
  made,      \* calls that the current init has made
  handles    \* what the program has hold of

arguments == <<strings, flags, ints>>
devices == <<opened, made, handles>>
vars == <<platform, line, argv, stage, ended, arguments, devices>>

DeviceKinds == {"audio", "udp_sink", "key_sink", "udp_source", "midi_source"}
Device(kind, name) == [kind |-> kind, name |-> name]

DefaultInts ==
  [option \in IntOptions |->
     CASE option = "--synth-transpose" -> 12
       [] option = "--base-key" -> 36
       [] option = "--base-key-udp" -> 72
       [] option \in OctaveOptions -> 3
       [] OTHER -> 0]

-----------------------------------------------------------------------------
Init ==
  /\ platform \in {"linux", "win32"}
  /\ line \in UNION {[1 .. n -> Words] : n \in 0 .. MaxWords}
  /\ argv = line
  /\ stage = "parse" /\ ended = FALSE
  /\ strings = [client |-> Empty, udp_sink |-> Empty]
  /\ flags = {}
  /\ ints = DefaultInts
  /\ opened = {} /\ made = 0 /\ handles = {}

\* A plausible bug: the words after --help are read too.
ParsingPastHelp == stage = "parse" /\ argv # <<>>

Parsing == stage = "parse" /\ argv # <<>> /\ ~ended

\* next_string and next_int find something to take.
HasValue == Len(argv) >= 2

\* What a callback with a value leaves of argv.
AfterValue == argv' = Tail(Tail(argv))

\* --midi-source, --udp-source, --udp-sink
ReadString ==
  /\ Parsing /\ HasValue
  /\ Head(argv) \in StringOptions
  /\ strings' = IF Head(argv) = "--udp-sink" THEN [strings EXCEPT !.udp_sink = argv[2]]
                                             ELSE [strings EXCEPT !.client = argv[2]]
  /\ flags' = IF Head(argv) = "--udp-source" THEN flags \cup {"udp_source"} ELSE flags
  /\ AfterValue
  /\ UNCHANGED <<platform, line, stage, ended, ints, devices>>

ReadInt ==
  /\ Parsing /\ HasValue
  /\ Head(argv) \in IntOptions
  /\ \E n \in NumberOf[argv[2]] : ints' = [ints EXCEPT ![Head(argv)] = n]
  /\ AfterValue
  /\ UNCHANGED <<platform, line, stage, ended, strings, flags, devices>>

ReadKeySink ==
  /\ Parsing
  /\ Head(argv) = "--key-sink"
  /\ flags' = flags \cup {"key_sink"}
  /\ argv' = Tail(argv)
  /\ UNCHANGED <<platform, line, stage, ended, strings, ints, devices>>

\* CLIParser::end
ReadHelp ==
  /\ Parsing
  /\ Head(argv) = "--help"
  /\ ended' = TRUE
  /\ argv' = Tail(argv)
  /\ UNCHANGED <<platform, line, stage, arguments, devices>>

\* Something is thrown: an unknown argument (no default handler is set, so
\* that of a word without a dash is one too), or a value that is missing or,
\* for a number, is none.
InvalidArgument ==
  /\ Parsing
  /\ \/ Head(argv) \notin Options
     \/ Head(argv) \in StringOptions \cup IntOptions /\ ~HasValue
     \/ Head(argv) \in IntOptions /\ HasValue /\ NumberOf[argv[2]] = {}
  /\ stage' = "failed"
  /\ UNCHANGED <<platform, line, argv, ended, arguments, devices>>

\* A plausible bug: only too many octaves are clamped.
ClampAbove(n) == IF n > NumOctaves THEN NumOctaves ELSE n

ClampOctaves(n) == IF n > NumOctaves THEN NumOctaves ELSE IF n < 0 THEN 0 ELSE n

\* parse() has returned: the help was asked for, or the devices are opened.
ParseReturns ==
  /\ stage = "parse" /\ (argv = <<>> \/ ended)
  /\ stage' = IF ended THEN "help" ELSE "source"
  /\ ints' = IF ended THEN ints
             ELSE [option \in IntOptions |->
                     IF option \in OctaveOptions THEN ClampOctaves(ints[option])
                                                 ELSE ints[option]]
  /\ UNCHANGED <<platform, line, argv, ended, strings, flags, devices>>

-----------------------------------------------------------------------------
(* The devices, opened one after the other, a call at a time.                *)

Stages == <<"source", "keys", "sink", "bind", "backend", "loop">>
Following(here) == Stages[(CHOOSE n \in DOMAIN Stages : Stages[n] = here) + 1]

SourceKind == IF "udp_source" \in flags THEN "udp_source" ELSE "midi_source"

\* The calls of the stage main() is at: none, if the device is not wanted.
StageCalls ==
  CASE stage = "source" ->
         IF SourceKind = "udp_source" THEN UdpSourceCalls(strings.client, platform)
         ELSE IF platform = "win32" THEN WinmmCalls(strings.client)
         ELSE AlsaCalls(strings.client)
    [] stage = "keys" -> IF "key_sink" \in flags THEN KeySinkCalls(platform) ELSE <<>>
    [] stage = "sink" -> IF strings.udp_sink = Empty THEN <<>>
                         ELSE UdpSinkCalls(strings.udp_sink \in Addresses, platform)
    [] stage = "bind" -> IF "key_sink" \in flags THEN BindCalls(platform) ELSE <<>>
    [] stage = "backend" -> BackendCalls(platform)

\* The device that is open at the end of the stage.
StageDevices ==
  CASE stage = "source" -> {Device(SourceKind, strings.client)}
    [] stage = "keys" /\ "key_sink" \in flags -> {Device("key_sink", Empty)}
    [] stage = "sink" /\ strings.udp_sink # Empty -> {Device("udp_sink", strings.udp_sink)}
    [] stage = "backend" -> {Device("audio", Empty)}
    [] OTHER -> {}

Opening == stage \in {"source", "keys", "sink", "bind", "backend"}
NextCall == StageCalls[made + 1]

\* The next call of the init is granted.
CallGranted ==
  /\ Opening /\ made < Len(StageCalls)
  /\ NextCall.possible
  /\ handles' = (handles \cup NextCall.takes) \ NextCall.gives
  /\ made' = made + 1
  /\ UNCHANGED <<platform, line, argv, stage, ended, arguments, opened>>

\* It is refused: main() returns, unless the process has ended at once.
CallRefused ==
  /\ Opening /\ made < Len(StageCalls)
  /\ \/ NextCall.refusal = "fails" /\ stage' = "~backend"
     \/ NextCall.refusal = "exits" /\ stage' = "exited"
  /\ made' = 0
  /\ UNCHANGED <<platform, line, argv, ended, arguments, opened, handles>>

\* The init has returned true.  (The result of AudioBackend::start is not
\* looked at.)
InitReturns ==
  /\ Opening /\ made = Len(StageCalls)
  /\ opened' = opened \cup StageDevices
  /\ stage' = Following(stage)
  /\ made' = 0
  /\ UNCHANGED <<platform, line, argv, ended, arguments, handles>>

\* main()'s loop ends and it returns.
LoopEnds ==
  /\ stage = "loop" /\ stage' = "~backend"
  /\ UNCHANGED <<platform, line, argv, ended, arguments, opened, handles, made>>

\* A destructor, in the reverse order of the declarations: it finds whatever
\* its init has taken hold of.
Destroy(here, device, kinds, next) ==
  /\ stage = here /\ stage' = next
  /\ handles' = handles \ ReleasedBy(device)
  /\ opened' = {d \in opened : d.kind \notin kinds}
  /\ UNCHANGED <<platform, line, argv, ended, arguments, made>>

Unwind ==
  \/ Destroy("~backend", "backend", {"audio"}, "~sink")
  \/ Destroy("~sink", "sink", {"udp_sink"}, "~keys")
  \/ Destroy("~keys", "keys", {"key_sink"}, "~source")
  \/ Destroy("~source", "source", {"udp_source", "midi_source"}, "returned")

Ended == stage \in {"help", "failed", "returned", "exited"} /\ UNCHANGED vars

Next ==
  \/ ReadString \/ ReadInt \/ ReadKeySink \/ ReadHelp
  \/ InvalidArgument
  \/ ParseReturns
  \/ CallGranted \/ CallRefused \/ InitReturns
  \/ LoopEnds \/ Unwind
  \/ Ended

Spec == Init /\ [][Next]_vars

-----------------------------------------------------------------------------
(* What a command line means, said of all of it at once.                     *)

TakesValue(word) == word \in StringOptions \cup IntOptions

\* The words read as options rather than as values.
OptionsAt ==
  CHOOSE starts \in SUBSET DOMAIN line :
    \A i \in DOMAIN line :
      i \in starts <=> \/ i = 1
                       \/ i - 1 \in starts /\ ~TakesValue(line[i - 1])
                       \/ i - 2 \in starts /\ TakesValue(line[i - 2])

\* Nothing after the first --help counts.
OptionsRead == {i \in OptionsAt : \A j \in OptionsAt : line[j] = "--help" => i <= j}

WellFormed(i) ==
  /\ line[i] \in Options
  /\ TakesValue(line[i]) => i < Len(line)
  /\ line[i] \in IntOptions => NumberOf[line[i + 1]] # {}

Occurrences(options) == {i \in OptionsRead : line[i] \in options}

\* The last of these options, if there is any, and its value.
LastOccurrence(options) ==
  {i \in Occurrences(options) : \A k \in Occurrences(options) : k <= i}
LastValue(options) == {line[i + 1] : i \in LastOccurrence(options)}

\* The value of an option, its default without one; octaves are the nearest
\* number the instrument has.
Distance(m, n) == IF m < n THEN n - m ELSE m - n
IsValueOf(n, option) ==
  LET given == IF Occurrences({option}) = {} THEN {DefaultInts[option]}
               ELSE UNION {NumberOf[word] : word \in LastValue({option})}
  IN  IF option \in OctaveOptions
      THEN /\ n \in 0 .. NumOctaves
           /\ \A m \in 0 .. NumOctaves, g \in given : Distance(n, g) <= Distance(m, g)
      ELSE n \in given

\* The handles of an open device.
HandlesUsed(kind, on) ==
  CASE kind = "audio" -> IF on = "linux" THEN {"mainloop", "context", "stream"}
                         ELSE {"audio_event", "com", "enumerator", "endpoint", "client",
                               "format", "render_client"}
    [] kind = "udp_sink" ->
         {"sink_socket"} \cup (IF on = "linux" THEN {} ELSE {"winsock_sink"})
    [] kind = "key_sink" -> IF on = "linux" THEN {"connection", "key_symbols"} ELSE {}
    [] kind = "udp_source" ->
         {"source_socket"} \cup (IF on = "linux" THEN {} ELSE {"winsock_source"})
    [] kind = "midi_source" -> {IF on = "linux" THEN "sequencer" ELSE "midi_input"}

\* The help text: --midi-source names a MIDI device and --udp-source a port.
SourceOptions == {"--midi-source", "--udp-source"}
KindNamedBy(option) == IF option = "--udp-source" THEN "udp_source" ELSE "midi_source"

DevicesAsked ==
  {Device(KindNamedBy(line[i]), line[i + 1]) : i \in LastOccurrence(SourceOptions)}
  \cup {Device("key_sink", Empty) : i \in Occurrences({"--key-sink"})}
  \cup {Device("udp_sink", name) : name \in LastValue({"--udp-sink"}) \ {Empty}}
  \cup {Device("audio", Empty)}

\* A MIDI device is named after a UDP port was.
UdpThenMidi ==
  /\ Occurrences({"--udp-source"}) # {}
  /\ \A i \in LastOccurrence(SourceOptions) : line[i] = "--midi-source"

Others(opens) == {d \in opens : d.kind \notin {"udp_source", "midi_source"}}

\* Types of the state; main() goes on with octaves the instrument has.
TypeOK ==
  /\ line \in Seq(Words) /\ argv \in Seq(Words)
  /\ platform \in {"linux", "win32"}
  /\ stage \in {"parse", "source", "keys", "sink", "bind", "backend", "loop", "~backend",
                "~sink", "~keys", "~source", "help", "failed", "returned", "exited"}
  /\ ended \in BOOLEAN
  /\ strings \in [client : Words \cup {Empty}, udp_sink : Words \cup {Empty}]
  /\ flags \subseteq {"key_sink", "udp_source"}
  /\ ints \in [IntOptions -> Int]
  /\ stage \notin {"parse", "failed", "help"} =>
       \A option \in OctaveOptions : ints[option] \in 0 .. NumOctaves
  /\ made \in 0 .. 12
  /\ opened \subseteq [kind : DeviceKinds, name : Words \cup {Empty}]
  /\ handles \subseteq {"addresses"} \cup NeverReleased
                 \cup (UNION {ReleasedBy(d) : d \in {"backend", "sink", "keys", "source"}})

\* A command line is read as its grammar says whatever its order: it fails if
\* an option that is read is malformed, else asks for help if --help is read,
\* else the last value of each option holds.
ReadsTheCommandLine ==
  stage # "parse" =>
    IF \E i \in OptionsRead : ~WellFormed(i) THEN stage = "failed"
    ELSE IF Occurrences({"--help"}) # {} THEN stage = "help"
    ELSE /\ stage \notin {"help", "failed"}
         /\ \A option \in IntOptions : IsValueOf(ints[option], option)

\* main() enters its loop with exactly the devices the command line asks for
\* (but for its source if a MIDI device is named after a UDP port), and with
\* hold of what they use and of nothing else.  When it returns, from wherever
\* it does, no device is open and nothing an init had taken before it failed
\* is kept, but on Windows the references of WSAStartup and CoInitialize,
\* which nothing gives back (sussybard.cpp:164-192 with the inits and the
\* destructors).
HoldsWhatItUses ==
  /\ stage = "loop" =>
       /\ Others(opened) = Others(DevicesAsked)
       /\ opened = DevicesAsked \/ UdpThenMidi
       /\ handles = UNION {HandlesUsed(d.kind, platform) : d \in opened}
  /\ stage \in {"help", "failed"} => opened = {} /\ handles = {}
  /\ stage = "returned" =>
       /\ opened = {}
       /\ handles \subseteq IF platform = "linux" THEN {} ELSE NeverReleased
=============================================================================
