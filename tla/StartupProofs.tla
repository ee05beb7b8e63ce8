----------------------------- MODULE StartupProofs -----------------------------
(***************************************************************************)
(* Proofs about Startup, for every command line of any words and any       *)
(* length, both platforms and every call of every init granted or refused: *)
(* the types, what the parser reads, and what main() has hold of.          *)
(***************************************************************************)
EXTENDS Startup, SequenceTheorems, WellFoundedInduction, TLAPS

-----------------------------------------------------------------------------
(* Which words are options.  A set of numbers that is not empty has a least  *)
(* one: this takes the place of induction over the words.                    *)

LEMMA LeastNumber ==
  ASSUME NEW S \in SUBSET Nat, S # {}
  PROVE  \E x \in S : \A y \in S : x <= y
<1> DEFINE R == {ss \in Nat \X Nat : ss[1] < ss[2]}
<1>1. IsWellFoundedOn(R, Nat)
  BY NatLessThanWellFounded DEF OpToRel
<1> HIDE DEF R
<1>2. PICK x \in S : \A y \in S : <<y, x>> \notin R
  BY <1>1, WFMin
<1>3. \A y \in S : ~(y < x)
  BY <1>2 DEF R
<1> QED
  BY <1>3

\* S holds the words, up to the n-th, that are read as options, if those in V
\* take a value.
StartsOptions(S, V, n) ==
  \A i \in 1 .. n :
    i \in S <=> \/ i = 1
                \/ i - 1 \in S /\ i - 1 \notin V
                \/ i - 2 \in S /\ i - 2 \in V

LEMMA OptionsExist ==
  ASSUME NEW V, NEW n \in Nat
  PROVE  \E S \in SUBSET (1 .. n) : StartsOptions(S, V, n)
<1> DEFINE Bad == {m \in Nat : ~\E S \in SUBSET (1 .. m) : StartsOptions(S, V, m)}
<1>1. SUFFICES ASSUME Bad # {} PROVE FALSE
  OBVIOUS
<1>2. PICK m \in Bad : \A k \in Bad : m <= k
  <2>1. Bad \in SUBSET Nat
    OBVIOUS
  <2> HIDE DEF Bad
  <2> QED
    BY <1>1, <2>1, LeastNumber
<1>3. CASE m = 0
  <2>1. {} \in SUBSET (1 .. m) /\ StartsOptions({}, V, m)
    BY <1>3 DEF StartsOptions
  <2> QED
    BY <2>1
<1>4. CASE m > 0
  <2>1. m - 1 \in Nat /\ m - 1 \notin Bad
    BY <1>2, <1>4
  <2>2. PICK S \in SUBSET (1 .. m - 1) : StartsOptions(S, V, m - 1)
    BY <2>1
  <2> DEFINE isOption == \/ m = 1
                         \/ m - 1 \in S /\ m - 1 \notin V
                         \/ m - 2 \in S /\ m - 2 \in V
             T == S \cup {i \in {m} : isOption}
  <2>3. T \in SUBSET (1 .. m)
    <3>1. m \in 1 .. m /\ \A i \in 1 .. m - 1 : i \in 1 .. m
      BY <1>4
    <3> QED
      BY <3>1
  <2>4. \A i \in Int : i < m => (i \in T <=> i \in S)
    OBVIOUS
  <2>5. m \in T <=> isOption
    <3>1. m \notin S
      OBVIOUS
    <3> QED
      BY <3>1
  <2>6. \A i \in 1 .. m : i \in 1 .. m - 1 \/ i = m
    OBVIOUS
  <2>7. isOption <=> \/ m = 1
                     \/ m - 1 \in T /\ m - 1 \notin V
                     \/ m - 2 \in T /\ m - 2 \in V
    BY <2>4
  <2> HIDE DEF T, isOption
  <2>8. StartsOptions(T, V, m)
    BY <2>2, <2>4, <2>5, <2>6, <2>7 DEF StartsOptions
  <2> QED
    BY <2>3, <2>8
<1> QED
  BY <1>2, <1>3, <1>4

\* The word after an option that takes a value is no option.
LEMMA ValueIsNoOption ==
  ASSUME NEW V, NEW n \in Nat, NEW S \in SUBSET (1 .. n), StartsOptions(S, V, n)
  PROVE  \A i \in S : i \in V => i + 1 \notin S
<1> DEFINE Bad == {i \in S : i \in V /\ i + 1 \in S}
<1>1. SUFFICES ASSUME Bad # {} PROVE FALSE
  OBVIOUS
<1>2. PICK x \in Bad : \A y \in Bad : x <= y
  <2>1. Bad \in SUBSET Nat
    <3>1. \A i \in S : i \in Nat
      OBVIOUS
    <3> QED
      BY <3>1
  <2> HIDE DEF Bad
  <2> QED
    BY <1>1, <2>1, LeastNumber
<1>3. x \in 1 .. n /\ x + 1 \in 1 .. n /\ (x + 1) - 1 = x /\ (x + 1) - 2 = x - 1
  OBVIOUS
<1>4. x - 1 \in S /\ x - 1 \in V
  BY <1>3 DEF StartsOptions
<1>5. x - 1 \in Bad
  BY <1>2, <1>3, <1>4
<1> QED
  BY <1>2, <1>3, <1>5

LEMMA OptionsAtIs ==
  ASSUME line \in Seq(Words)
  PROVE  /\ Len(line) \in Nat
         /\ OptionsAt \in SUBSET (1 .. Len(line))
         /\ \A i \in 1 .. Len(line) :
              i \in OptionsAt <=> \/ i = 1
                                  \/ i - 1 \in OptionsAt /\ ~TakesValue(line[i - 1])
                                  \/ i - 2 \in OptionsAt /\ TakesValue(line[i - 2])
         /\ \A i \in OptionsAt : TakesValue(line[i]) => i + 1 \notin OptionsAt
<1> DEFINE V == {i \in 1 .. Len(line) : TakesValue(line[i])}
<1>1. Len(line) \in Nat /\ DOMAIN line = 1 .. Len(line)
  BY LenProperties
<1>2. \E S \in SUBSET (1 .. Len(line)) : StartsOptions(S, V, Len(line))
  BY <1>1, OptionsExist
<1>3. \A S \in SUBSET (1 .. Len(line)), i \in 1 .. Len(line) : i \in S =>
         (i \in V <=> TakesValue(line[i]))
  OBVIOUS
<1>4. \A S \in SUBSET (1 .. Len(line)) :
        StartsOptions(S, V, Len(line)) <=>
        \A i \in 1 .. Len(line) :
          i \in S <=> \/ i = 1
                      \/ i - 1 \in S /\ ~TakesValue(line[i - 1])
                      \/ i - 2 \in S /\ TakesValue(line[i - 2])
  BY DEF StartsOptions
<1> HIDE DEF V
<1>5. OptionsAt \in SUBSET (1 .. Len(line)) /\ StartsOptions(OptionsAt, V, Len(line))
  <2>1. \E S \in SUBSET DOMAIN line :
          \A i \in DOMAIN line :
            i \in S <=> \/ i = 1
                        \/ i - 1 \in S /\ ~TakesValue(line[i - 1])
                        \/ i - 2 \in S /\ TakesValue(line[i - 2])
    <3>1. PICK S \in SUBSET (1 .. Len(line)) : StartsOptions(S, V, Len(line))
      BY <1>2
    <3>2. \A i \in 1 .. Len(line) :
            i \in S <=> \/ i = 1
                        \/ i - 1 \in S /\ ~TakesValue(line[i - 1])
                        \/ i - 2 \in S /\ TakesValue(line[i - 2])
      BY <1>4, <3>1
    <3> QED
      BY <1>1, <3>2
  <2>2. /\ OptionsAt \in SUBSET DOMAIN line
        /\ \A i \in DOMAIN line :
             i \in OptionsAt <=> \/ i = 1
                                 \/ i - 1 \in OptionsAt /\ ~TakesValue(line[i - 1])
                                 \/ i - 2 \in OptionsAt /\ TakesValue(line[i - 2])
    BY <2>1 DEF OptionsAt
  <2> QED
    BY <1>1, <1>4, <2>2
<1>6. \A i \in OptionsAt : i \in V => i + 1 \notin OptionsAt
  BY <1>1, <1>5, ValueIsNoOption
<1> QED
  BY <1>1, <1>3, <1>4, <1>5, <1>6

-----------------------------------------------------------------------------
(* The inductive invariant.  Of the parser it says what the words that have  *)
(* been taken mean: the grammar, which speaks of the whole line, restricted  *)
(* to them.  Of the devices, what the calls granted so far have left.        *)

\* Words taken, and the options among them.
Taken == Len(line) - Len(argv)
Done == {i \in OptionsAt : i <= Taken}

\* i is the last of these options in D.
IsLast(i, options, D) ==
  i \in D /\ line[i] \in options /\ \A k \in D : line[k] \in options => k <= i

\* text is the value of the last of these options, Empty without one.
TextGiven(text, options, D) ==
  IF \A i \in D : line[i] \notin options THEN text = Empty
  ELSE \E i \in D : IsLast(i, options, D) /\ text = line[i + 1]

NumberGiven(n, option, D) ==
  IF \A i \in D : line[i] # option THEN n = DefaultInts[option]
  ELSE \E i \in D : IsLast(i, {option}, D) /\ n \in NumberOf[line[i + 1]]

Reading ==
  /\ Len(argv) <= Len(line)
  /\ \A i \in 1 .. Len(argv) : argv[i] = line[Taken + i]
  /\ \A i \in Done : WellFormed(i)
  /\ IF ended THEN \E h \in Done : /\ line[h] = "--help"
                                   /\ \A i \in Done : i <= h /\ (line[i] = "--help" => i = h)
     ELSE /\ \A i \in Done : line[i] # "--help"
          /\ argv # <<>> => Taken + 1 \in OptionsAt

ClientOptions == {"--midi-source", "--udp-source"}

Arguments ==
  /\ "udp_source" \in flags <=> \E i \in Done : line[i] = "--udp-source"
  /\ "key_sink" \in flags <=> \E i \in Done : line[i] = "--key-sink"
  /\ TextGiven(strings.client, ClientOptions, Done)
  /\ TextGiven(strings.udp_sink, {"--udp-sink"}, Done)
  /\ stage = "parse" => \A option \in IntOptions : NumberGiven(ints[option], option, Done)

\* How parse() has ended.
Parsed ==
  /\ stage = "failed" => \E i \in OptionsRead : ~WellFormed(i)
  /\ stage \notin {"parse", "failed"} => (argv = <<>> \/ ended) /\ (ended <=> stage = "help")
  /\ stage \notin {"parse", "failed", "help"} =>
       \A option \in IntOptions : IsValueOf(ints[option], option)

PulseHandles == {"mainloop", "context", "stream"}
WasapiHandles == {"audio_event", "com", "enumerator", "endpoint", "client", "format",
                  "render_client"}

\* The Winsock reference of a device.
Reference(on, reference) == IF on = "win32" THEN {reference} ELSE {}

\* What a stage has taken hold of at its end, and what those before it have.
StageHandles(at) ==
  CASE at = "source" -> IF SourceKind = "udp_source"
                        THEN {"source_socket"} \cup Reference(platform, "winsock_source")
                        ELSE IF platform = "win32" THEN {"midi_input"} ELSE {"sequencer"}
    [] at = "keys" -> IF "key_sink" \in flags /\ platform = "linux"
                      THEN {"connection", "key_symbols"} ELSE {}
    [] at = "sink" -> IF strings.udp_sink = Empty THEN {}
                      ELSE {"sink_socket"} \cup Reference(platform, "winsock_sink")
    [] at = "bind" -> {}
    [] at = "backend" -> IF platform = "win32" THEN WasapiHandles ELSE PulseHandles

Before(at) == CASE at = "source" -> {}
                [] at = "keys" -> {"source"}
                [] at = "sink" -> {"source", "keys"}
                [] at = "bind" -> {"source", "keys", "sink"}
                [] at = "backend" -> {"source", "keys", "sink", "bind"}
                [] at = "loop" -> {"source", "keys", "sink", "bind", "backend"}

HandlesBefore(at) == UNION {StageHandles(s) : s \in Before(at)}

\* The device of a stage.
DevicesOf(at) ==
  CASE at = "source" -> {Device(SourceKind, strings.client)}
    [] at = "keys" -> IF "key_sink" \in flags THEN {Device("key_sink", Empty)} ELSE {}
    [] at = "sink" -> IF strings.udp_sink = Empty THEN {} ELSE {Device("udp_sink", strings.udp_sink)}
    [] at = "bind" -> {}
    [] at = "backend" -> {Device("audio", Empty)}

DevicesBefore(at) == UNION {DevicesOf(s) : s \in Before(at)}

\* At the stage main() is at.
StageTakes == StageHandles(stage)
HandlesSoFar == HandlesBefore(stage)
DevicesSoFar == DevicesBefore(stage)

Handles == {"mainloop", "context", "stream", "audio_event", "enumerator", "endpoint",
            "client", "format", "render_client", "com", "winsock_sink", "winsock_source",
            "sink_socket", "key_symbols", "connection", "sequencer", "midi_input",
            "source_socket", "addresses"}

\* What is left of the first n calls.
Granted(calls, n) ==
  {h \in Handles : \E i \in 1 .. n : h \in calls[i].takes
                                     /\ \A j \in i .. n : h \notin calls[j].gives}

\* A stage of the destructors has been passed.
Passed(at) ==
  CASE at = "~backend" -> {}
    [] at = "~sink" -> {"backend"}
    [] at = "~keys" -> {"backend", "sink"}
    [] at = "~source" -> {"backend", "sink", "keys"}
    [] at = "returned" -> {"backend", "sink", "keys", "source"}

KindsOf(device) ==
  CASE device = "backend" -> {"audio"}
    [] device = "sink" -> {"udp_sink"}
    [] device = "keys" -> {"key_sink"}
    [] device = "source" -> {"udp_source", "midi_source"}

Resources ==
  /\ stage \in {"parse", "failed", "help"} => handles = {} /\ opened = {}
  /\ ~Opening => made = 0
  /\ Opening => /\ made \in 0 .. Len(StageCalls)
                /\ opened = DevicesSoFar
                /\ handles = HandlesSoFar \cup Granted(StageCalls, made)
                /\ \A i \in 1 .. made : StageCalls[i].possible
  /\ stage \in {"keys", "sink", "bind", "backend", "loop"} => strings.client # Empty
  /\ stage = "loop" => opened = DevicesSoFar /\ handles = HandlesSoFar
  /\ stage \in {"~backend", "~sink", "~keys", "~source", "returned"} =>
       /\ "addresses" \notin handles
       /\ \A device \in Passed(stage) : /\ handles \cap ReleasedBy(device) = {}
                                        /\ \A d \in opened : d.kind \notin KindsOf(device)

StartupInv == TypeOK /\ Reading /\ Arguments /\ Parsed /\ Resources

-----------------------------------------------------------------------------
(* The parser.                                                               *)

LEMMA LineUnchanged ==
  ASSUME line' = line
  PROVE  /\ OptionsAt' = OptionsAt /\ OptionsRead' = OptionsRead
         /\ \A i : WellFormed(i)' <=> WellFormed(i)
<1>1. OptionsAt' = OptionsAt
  BY DEF OptionsAt, TakesValue
<1>2. OptionsRead' = OptionsRead
  BY <1>1 DEF OptionsRead
<1>3. \A i : WellFormed(i)' <=> WellFormed(i)
  BY DEF WellFormed, TakesValue
<1> QED
  BY <1>1, <1>2, <1>3

LEMMA TailsOfArgv ==
  ASSUME argv \in Seq(Words), argv # <<>>
  PROVE  /\ Len(argv) \in Nat \ {0} /\ Head(argv) = argv[1] /\ Head(argv) \in Words
         /\ Tail(argv) \in Seq(Words) /\ Len(Tail(argv)) = Len(argv) - 1
         /\ \A j \in 1 .. Len(argv) - 1 : Tail(argv)[j] = argv[j + 1]
         /\ HasValue => /\ argv[2] \in Words
                        /\ Tail(Tail(argv)) \in Seq(Words)
                        /\ Len(Tail(Tail(argv))) = Len(argv) - 2
                        /\ \A j \in 1 .. Len(argv) - 2 : Tail(Tail(argv))[j] = argv[j + 2]
<1>1. Len(argv) \in Nat \ {0}
  BY EmptySeq
<1>2. /\ Head(argv) \in Words /\ Head(argv) = argv[1]
      /\ Tail(argv) \in Seq(Words) /\ Len(Tail(argv)) = Len(argv) - 1
      /\ \A j \in 1 .. Len(argv) - 1 : Tail(argv)[j] = argv[j + 1]
  <2>1. /\ Head(argv) \in Words /\ Tail(argv) \in Seq(Words)
        /\ Len(Tail(argv)) = Len(argv) - 1
        /\ \A j \in 1 .. Len(Tail(argv)) : Tail(argv)[j] = argv[j + 1]
    BY HeadTailProperties
  <2> QED
    BY <2>1
<1>3. ASSUME HasValue
      PROVE  /\ argv[2] \in Words
             /\ Tail(Tail(argv)) \in Seq(Words)
             /\ Len(Tail(Tail(argv))) = Len(argv) - 2
             /\ \A j \in 1 .. Len(argv) - 2 : Tail(Tail(argv))[j] = argv[j + 2]
  <2>1. 2 \in 1 .. Len(argv) /\ Len(Tail(argv)) # 0
    BY <1>1, <1>2, <1>3 DEF HasValue
  <2>2. argv[2] \in Words
    BY <2>1, ElementOfSeq
  <2>3. Tail(argv) # <<>>
    BY <2>1, EmptySeq
  <2>4. /\ Tail(Tail(argv)) \in Seq(Words)
        /\ Len(Tail(Tail(argv))) = Len(Tail(argv)) - 1
        /\ \A j \in 1 .. Len(Tail(Tail(argv))) : Tail(Tail(argv))[j] = Tail(argv)[j + 1]
    BY <1>2, <2>3, HeadTailProperties
  <2>5. Len(Tail(Tail(argv))) = Len(argv) - 2
    BY <1>1, <1>2, <2>4
  <2>6. ASSUME NEW j \in 1 .. Len(argv) - 2 PROVE Tail(Tail(argv))[j] = argv[j + 2]
    <3>1. j + 1 \in 1 .. Len(argv) - 1 /\ (j + 1) + 1 = j + 2
      BY <1>1
    <3> QED
      BY <1>2, <2>4, <2>5, <3>1
  <2> QED
    BY <2>2, <2>4, <2>5, <2>6
<1> QED
  BY <1>1, <1>2, <1>3

\* While it parses, the next word is an option, after those that were read.
LEMMA NextOption ==
  ASSUME TypeOK, Reading, Parsing
  PROVE  /\ Taken \in Nat /\ Len(line) \in Nat /\ Len(argv) \in Nat \ {0}
         /\ Taken + Len(argv) = Len(line)
         /\ Taken + 1 \in OptionsAt /\ Taken + 1 \in 1 .. Len(line)
         /\ line[Taken + 1] = Head(argv)
         /\ \A j \in Done : j \in 1 .. Taken
         /\ HasValue <=> Taken + 1 < Len(line)
         /\ HasValue => line[(Taken + 1) + 1] = argv[2]
<1>1. line \in Seq(Words) /\ argv \in Seq(Words) /\ argv # <<>> /\ ~ended
  BY DEF TypeOK, Parsing
<1>2. /\ Len(line) \in Nat /\ Len(argv) \in Nat \ {0} /\ Head(argv) = argv[1]
      /\ OptionsAt \in SUBSET (1 .. Len(line))
  BY <1>1, OptionsAtIs, TailsOfArgv
<1>3. /\ Len(argv) <= Len(line) /\ Taken + 1 \in OptionsAt
      /\ \A i \in 1 .. Len(argv) : argv[i] = line[Taken + i]
  BY <1>1 DEF Reading
<1>4. Taken \in Nat /\ Taken + Len(argv) = Len(line)
  BY <1>2, <1>3 DEF Taken
<1>5. line[Taken + 1] = Head(argv)
  BY <1>2, <1>3
<1>6. \A j \in Done : j \in 1 .. Taken
  BY <1>2, <1>4 DEF Done
<1>7. HasValue <=> Taken + 1 < Len(line)
  BY <1>2, <1>4 DEF HasValue
<1>8. HasValue => line[(Taken + 1) + 1] = argv[2]
  BY <1>2, <1>3, <1>4 DEF HasValue
<1> QED
  BY <1>2, <1>3, <1>4, <1>5, <1>6, <1>7, <1>8

\* Taking an option, with its value if it has one, reads that option.
LEMMA TakeOption ==
  ASSUME TypeOK, Reading, Parsing, line' = line, NEW k \in {1, 2},
         k = 2 <=> TakesValue(Head(argv)), k <= Len(argv),
         Len(argv') = Len(argv) - k, argv' \in Seq(Words),
         \A j \in 1 .. Len(argv) - k : argv'[j] = argv[j + k],
         WellFormed(Taken + 1)
  PROVE  /\ Done' = Done \cup {Taken + 1}
         /\ Len(argv') <= Len(line')
         /\ \A j \in 1 .. Len(argv') : argv'[j] = line'[Taken' + j]
         /\ \A j \in Done' : WellFormed(j)'
         /\ argv' # <<>> => Taken' + 1 \in OptionsAt'
<1> DEFINE i == Taken + 1
<1>1. /\ Taken \in Nat /\ Len(line) \in Nat /\ Len(argv) \in Nat \ {0}
      /\ Taken + Len(argv) = Len(line)
      /\ i \in OptionsAt /\ i \in 1 .. Len(line) /\ line[i] = Head(argv)
      /\ \A j \in Done : j \in 1 .. Taken
  BY NextOption
<1>2. Taken' = Taken + k /\ Taken' \in Nat
  BY <1>1 DEF Taken
<1>3. OptionsAt' = OptionsAt /\ \A j : WellFormed(j)' <=> WellFormed(j)
  BY LineUnchanged
<1>4. /\ \A j \in OptionsAt : j \in 1 .. Len(line)
      /\ TakesValue(line[i]) => i + 1 \notin OptionsAt
      /\ \A j \in 1 .. Len(line) :
           j \in OptionsAt <=> \/ j = 1
                               \/ j - 1 \in OptionsAt /\ ~TakesValue(line[j - 1])
                               \/ j - 2 \in OptionsAt /\ TakesValue(line[j - 2])
  BY <1>1, OptionsAtIs DEF TypeOK
<1>5. Done' = Done \cup {i}
  <2>1. \A j \in OptionsAt : j <= Taken + k <=> j <= Taken \/ j = i
    <3>1. CASE k = 1
      BY <1>1, <1>4, <3>1
    <3>2. CASE k = 2
      BY <1>1, <1>4, <3>2
    <3> QED
      BY <3>1, <3>2
  <2>2. Done' = {j \in OptionsAt : j <= Taken + k}
    BY <1>2, <1>3 DEF Done
  <2> QED
    BY <1>1, <2>1, <2>2 DEF Done
<1>6. Len(argv') <= Len(line')
  BY <1>1
<1>7. ASSUME NEW j \in 1 .. Len(argv') PROVE argv'[j] = line'[Taken' + j]
  <2>1. /\ j \in 1 .. Len(argv) - k /\ j + k \in 1 .. Len(argv)
        /\ Taken + (j + k) = Taken' + j
    <3>1. j \in 1 .. Len(argv) - k /\ k \in Nat
      OBVIOUS
    <3> QED
      BY <1>1, <1>2, <3>1
  <2>2. argv[j + k] = line[Taken + (j + k)]
    BY <2>1 DEF Reading
  <2> QED
    BY <2>1, <2>2
<1>8. \A j \in Done' : WellFormed(j)'
  BY <1>3, <1>5 DEF Reading
<1>9. ASSUME argv' # <<>> PROVE Taken' + 1 \in OptionsAt
  <2>1. Len(argv') \in Nat \ {0}
    BY <1>9, EmptySeq
  <2>2. Taken' + 1 \in 1 .. Len(line)
    BY <1>1, <1>2, <2>1
  <2>3. CASE k = 1
    <3>1. (Taken' + 1) - 1 = i
      BY <1>1, <1>2, <2>3
    <3> QED
      BY <1>1, <1>4, <2>2, <2>3, <3>1
  <2>4. CASE k = 2
    <3>1. (Taken' + 1) - 2 = i
      BY <1>1, <1>2, <2>4
    <3> QED
      BY <1>1, <1>4, <2>2, <2>4, <3>1
  <2> QED
    BY <2>3, <2>4
<1> QED
  BY <1>3, <1>5, <1>6, <1>7, <1>8, <1>9

\* What has been given stands when an option of another name is read, and
\* the value of an option that is read is given.
LEMMA GivenStays ==
  ASSUME NEW D \in SUBSET Nat, NEW i \in Nat, \A j \in D : j < i, NEW value,
         NEW options
  PROVE  /\ line[i] \notin options => /\ \A j : IsLast(j, options, D) => IsLast(j, options, D \cup {i})
                                      /\ TextGiven(value, options, D)
                                           => TextGiven(value, options, D \cup {i})
         /\ line[i] \in options => IsLast(i, options, D \cup {i})
         /\ line[i] \in options /\ value = line[i + 1] => TextGiven(value, options, D \cup {i})
<1>1. ASSUME line[i] \notin options, NEW j, IsLast(j, options, D)
      PROVE  IsLast(j, options, D \cup {i})
  BY <1>1 DEF IsLast
<1>2. line[i] \notin options /\ TextGiven(value, options, D)
        => TextGiven(value, options, D \cup {i})
  BY <1>1 DEF TextGiven
<1>3. line[i] \in options => IsLast(i, options, D \cup {i})
  BY DEF IsLast
<1>4. line[i] \in options /\ value = line[i + 1] => TextGiven(value, options, D \cup {i})
  BY <1>3 DEF TextGiven
<1> QED
  BY <1>1, <1>2, <1>3, <1>4

LEMMA NumberStays ==
  ASSUME NEW D \in SUBSET Nat, NEW i \in Nat, \A j \in D : j < i, NEW n, NEW option
  PROVE  /\ line[i] # option /\ NumberGiven(n, option, D) => NumberGiven(n, option, D \cup {i})
         /\ line[i] = option /\ n \in NumberOf[line[i + 1]] => NumberGiven(n, option, D \cup {i})
<1>1. ASSUME line[i] # option, NumberGiven(n, option, D)
      PROVE  NumberGiven(n, option, D \cup {i})
  <2>1. line[i] \notin {option}
    BY <1>1
  <2>2. \A j : IsLast(j, {option}, D) => IsLast(j, {option}, D \cup {i})
    BY <2>1, GivenStays
  <2> QED
    BY <1>1, <2>2 DEF NumberGiven
<1>2. ASSUME line[i] = option, n \in NumberOf[line[i + 1]]
      PROVE  NumberGiven(n, option, D \cup {i})
  <2>1. line[i] \in {option}
    BY <1>2
  <2>2. IsLast(i, {option}, D \cup {i})
    BY <2>1, GivenStays
  <2> QED
    BY <1>2, <2>2 DEF NumberGiven
<1> QED
  BY <1>1, <1>2

\* Words are strings here: no option is the name of another.
LEMMA OptionNames ==
  /\ \A option \in StringOptions : /\ option \notin IntOptions /\ TakesValue(option)
                                   /\ option \notin {"--key-sink", "--help"}
  /\ \A option \in IntOptions : /\ option \notin StringOptions /\ TakesValue(option)
                                /\ option \notin {"--key-sink", "--help"}
  /\ \A option \in {"--key-sink", "--help"} :
       option \notin StringOptions /\ option \notin IntOptions /\ ~TakesValue(option)
BY DEF StringOptions, IntOptions, OctaveOptions, TakesValue

\* While main() parses no device is open.
LEMMA NoDevices ==
  ASSUME Resources, stage = "parse", stage' \in {"parse", "failed", "help"}, UNCHANGED devices
  PROVE  Resources'
BY DEF Resources, Opening, devices

LEMMA ArgumentsNext ==
  ASSUME line' = line,
         "udp_source" \in flags' <=> \E j \in Done' : line'[j] = "--udp-source",
         "key_sink" \in flags' <=> \E j \in Done' : line'[j] = "--key-sink",
         TextGiven(strings'.client, ClientOptions, Done'),
         TextGiven(strings'.udp_sink, {"--udp-sink"}, Done'),
         \A option \in IntOptions : NumberGiven(ints'[option], option, Done')
  PROVE  Arguments'
<1>1. /\ TextGiven(strings.client, ClientOptions, Done)'
      /\ TextGiven(strings.udp_sink, {"--udp-sink"}, Done)'
  BY DEF TextGiven, IsLast, ClientOptions
<1>2. (\A option \in IntOptions : NumberGiven(ints[option], option, Done))'
  <2> SUFFICES ASSUME NEW option \in IntOptions
               PROVE  NumberGiven(ints[option], option, Done)'
    OBVIOUS
  <2>1. NumberGiven(ints'[option], option, Done')
    OBVIOUS
  <2> QED
    BY <2>1 DEF NumberGiven, IsLast
<1> QED
  BY <1>1, <1>2 DEF Arguments

\* Only the value of an option that was read is new.
LEMMA ReadStringInv ==
  ASSUME StartupInv, ReadString
  PROVE  StartupInv'
<1> DEFINE i == Taken + 1
<1>1. /\ TypeOK /\ Reading /\ Arguments /\ Resources
      /\ Parsing /\ HasValue /\ Head(argv) \in StringOptions /\ argv' = Tail(Tail(argv))
      /\ stage = "parse"
      /\ UNCHANGED <<platform, line, stage, ended, ints, devices>>
  BY DEF StartupInv, ReadString, AfterValue, Parsing
<1>2. /\ i \in Nat /\ line[i] = Head(argv) /\ line[i + 1] = argv[2] /\ i < Len(line)
      /\ Len(argv) \in Nat /\ \A j \in Done : j \in Nat /\ j < i
  BY <1>1, NextOption
<1>3. /\ TakesValue(Head(argv)) /\ Head(argv) \notin IntOptions
      /\ Head(argv) # "--key-sink" /\ Head(argv) # "--help"
  BY <1>1, OptionNames
<1>4. WellFormed(i)
  BY <1>1, <1>2, <1>3 DEF WellFormed, Options
<1>5. /\ argv \in Seq(Words) /\ argv # <<>> /\ argv[2] \in Words /\ argv' \in Seq(Words)
      /\ Len(argv') = Len(argv) - 2 /\ 2 <= Len(argv)
      /\ \A j \in 1 .. Len(argv) - 2 : argv'[j] = argv[j + 2]
  BY <1>1, TailsOfArgv DEF TypeOK, Parsing, HasValue
<1>6. /\ Done' = Done \cup {i} /\ Len(argv') <= Len(line')
      /\ \A j \in 1 .. Len(argv') : argv'[j] = line'[Taken' + j]
      /\ \A j \in Done' : WellFormed(j)'
      /\ argv' # <<>> => Taken' + 1 \in OptionsAt'
  BY <1>1, <1>3, <1>4, <1>5, TakeOption
<1>7. Reading'
  <2>1. ~ended /\ \A j \in Done : line[j] # "--help"
    BY <1>1 DEF Reading, Parsing
  <2>2. \A j \in Done' : line'[j] # "--help"
    BY <1>1, <1>2, <1>3, <1>6, <2>1
  <2> QED
    BY <1>1, <1>6, <2>1, <2>2 DEF Reading
<1>8. Arguments'
  <2>1. TextGiven(strings'.client, ClientOptions, Done \cup {i})
    <3>1. CASE line[i] = "--udp-sink"
      <4>1. strings'.client = strings.client /\ line[i] \notin ClientOptions
        BY <1>1, <1>2, <3>1 DEF ReadString, TypeOK, ClientOptions
      <4> QED
        BY <1>1, <1>2, <4>1, GivenStays DEF Arguments
    <3>2. CASE line[i] # "--udp-sink"
      <4>1. strings'.client = line[i + 1] /\ line[i] \in ClientOptions
        BY <1>1, <1>2, <3>2 DEF ReadString, TypeOK, ClientOptions, StringOptions
      <4> QED
        BY <1>2, <4>1, GivenStays
    <3> QED
      BY <3>1, <3>2
  <2>2. TextGiven(strings'.udp_sink, {"--udp-sink"}, Done \cup {i})
    <3>1. CASE line[i] = "--udp-sink"
      <4>1. strings'.udp_sink = line[i + 1] /\ line[i] \in {"--udp-sink"}
        BY <1>1, <1>2, <3>1 DEF ReadString, TypeOK
      <4> QED
        BY <1>2, <4>1, GivenStays
    <3>2. CASE line[i] # "--udp-sink"
      <4>1. strings'.udp_sink = strings.udp_sink /\ line[i] \notin {"--udp-sink"}
        BY <1>1, <1>2, <3>2 DEF ReadString, TypeOK
      <4> QED
        BY <1>1, <1>2, <4>1, GivenStays DEF Arguments
    <3> QED
      BY <3>1, <3>2
  <2>3. \A option \in IntOptions : NumberGiven(ints[option], option, Done \cup {i})
    BY <1>1, <1>2, <1>3, NumberStays DEF Arguments
  <2>4. /\ "udp_source" \in flags' <=> \E j \in Done' : line'[j] = "--udp-source"
        /\ "key_sink" \in flags' <=> \E j \in Done' : line'[j] = "--key-sink"
    BY <1>1, <1>2, <1>3, <1>6 DEF ReadString, Arguments
  <2> QED
    BY <1>1, <1>6, <2>1, <2>2, <2>3, <2>4, ArgumentsNext
<1>9. TypeOK'
  BY <1>1, <1>5 DEF ReadString, TypeOK, devices
<1>10. Parsed' /\ Resources'
  BY <1>1, NoDevices DEF Parsed
<1> QED
  BY <1>7, <1>8, <1>9, <1>10 DEF StartupInv

LEMMA ReadIntInv ==
  ASSUME StartupInv, ReadInt
  PROVE  StartupInv'
<1> DEFINE i == Taken + 1
<1>1. /\ TypeOK /\ Reading /\ Arguments /\ Resources
      /\ Parsing /\ HasValue /\ Head(argv) \in IntOptions /\ argv' = Tail(Tail(argv))
      /\ stage = "parse"
      /\ UNCHANGED <<platform, line, stage, ended, strings, flags, devices>>
  BY DEF StartupInv, ReadInt, AfterValue, Parsing
<1>2. /\ i \in Nat /\ line[i] = Head(argv) /\ line[i + 1] = argv[2] /\ i < Len(line)
      /\ Len(argv) \in Nat /\ \A j \in Done : j \in Nat /\ j < i
  BY <1>1, NextOption
<1>3. /\ TakesValue(Head(argv)) /\ Head(argv) \notin StringOptions
      /\ Head(argv) # "--key-sink" /\ Head(argv) # "--help"
  BY <1>1, OptionNames
<1>4. PICK n \in NumberOf[argv[2]] : ints' = [ints EXCEPT ![Head(argv)] = n]
  BY DEF ReadInt
<1>5. WellFormed(i)
  BY <1>1, <1>2, <1>3, <1>4 DEF WellFormed, Options
<1>6. /\ argv \in Seq(Words) /\ argv # <<>> /\ argv[2] \in Words /\ argv' \in Seq(Words)
      /\ Len(argv') = Len(argv) - 2 /\ 2 <= Len(argv)
      /\ \A j \in 1 .. Len(argv) - 2 : argv'[j] = argv[j + 2]
  BY <1>1, TailsOfArgv DEF TypeOK, Parsing, HasValue
<1>7. /\ Done' = Done \cup {i} /\ Len(argv') <= Len(line')
      /\ \A j \in 1 .. Len(argv') : argv'[j] = line'[Taken' + j]
      /\ \A j \in Done' : WellFormed(j)'
      /\ argv' # <<>> => Taken' + 1 \in OptionsAt'
  BY <1>1, <1>3, <1>5, <1>6, TakeOption
<1>8. Reading'
  <2>1. ~ended /\ \A j \in Done : line[j] # "--help"
    BY <1>1 DEF Reading, Parsing
  <2>2. \A j \in Done' : line'[j] # "--help"
    BY <1>1, <1>2, <1>3, <1>7, <2>1
  <2> QED
    BY <1>1, <1>7, <2>1, <2>2 DEF Reading
<1>9. ints \in [IntOptions -> Int] /\ n \in Int
  BY <1>1, <1>4, <1>6, StartupConstants DEF TypeOK
<1>10. Arguments'
  <2>1. /\ line[i] \notin ClientOptions /\ line[i] \notin {"--udp-sink"}
        /\ line[i] # "--udp-source"
    BY <1>2, <1>3 DEF ClientOptions, StringOptions
  <2>2. /\ TextGiven(strings.client, ClientOptions, Done \cup {i})
        /\ TextGiven(strings.udp_sink, {"--udp-sink"}, Done \cup {i})
    BY <1>1, <1>2, <2>1, GivenStays DEF Arguments
  <2>3. ASSUME NEW option \in IntOptions
        PROVE  NumberGiven(ints'[option], option, Done \cup {i})
    <3>1. CASE option = line[i]
      <4>1. ints'[option] = n
        BY <1>2, <1>4, <1>9, <3>1
      <4> QED
        BY <1>2, <1>4, <3>1, <4>1, NumberStays
    <3>2. CASE option # line[i]
      <4>1. ints'[option] = ints[option]
        BY <1>2, <1>4, <1>9, <3>2
      <4> QED
        BY <1>1, <1>2, <3>2, <4>1, NumberStays DEF Arguments
    <3> QED
      BY <3>1, <3>2
  <2>4. /\ "udp_source" \in flags' <=> \E j \in Done' : line'[j] = "--udp-source"
        /\ "key_sink" \in flags' <=> \E j \in Done' : line'[j] = "--key-sink"
    BY <1>1, <1>2, <1>3, <1>7, <2>1 DEF Arguments
  <2> QED
    BY <1>1, <1>7, <2>2, <2>3, <2>4, ArgumentsNext
<1>11. TypeOK'
  BY <1>1, <1>4, <1>6, <1>9 DEF TypeOK, devices
<1>12. Parsed' /\ Resources'
  BY <1>1, NoDevices DEF Parsed
<1> QED
  BY <1>8, <1>10, <1>11, <1>12 DEF StartupInv

\* An option without a value leaves what was given of the others.
LEMMA OthersStay ==
  ASSUME TypeOK, Reading, Arguments, Parsing, stage = "parse",
         Head(argv) \in {"--key-sink", "--help"}
  PROVE  /\ TextGiven(strings.client, ClientOptions, Done \cup {Taken + 1})
         /\ TextGiven(strings.udp_sink, {"--udp-sink"}, Done \cup {Taken + 1})
         /\ \A option \in IntOptions : NumberGiven(ints[option], option, Done \cup {Taken + 1})
<1> DEFINE i == Taken + 1
<1>1. i \in Nat /\ line[i] = Head(argv) /\ \A j \in Done : j \in Nat /\ j < i
  BY NextOption
<1>2. /\ line[i] \notin ClientOptions /\ line[i] \notin {"--udp-sink"}
      /\ line[i] \notin IntOptions
  BY <1>1, OptionNames DEF ClientOptions
<1> QED
  BY <1>1, <1>2, GivenStays, NumberStays DEF Arguments

LEMMA ReadKeySinkInv ==
  ASSUME StartupInv, ReadKeySink
  PROVE  StartupInv'
<1> DEFINE i == Taken + 1
<1>1. /\ TypeOK /\ Reading /\ Arguments /\ Resources
      /\ Parsing /\ Head(argv) = "--key-sink" /\ argv' = Tail(argv)
      /\ flags' = flags \cup {"key_sink"} /\ stage = "parse"
      /\ UNCHANGED <<platform, line, stage, ended, strings, ints, devices>>
  BY DEF StartupInv, ReadKeySink, Parsing
<1>2. /\ i \in Nat /\ line[i] = Head(argv)
      /\ Len(argv) \in Nat \ {0} /\ \A j \in Done : j \in Nat /\ j < i
  BY <1>1, NextOption
<1>3. ~TakesValue(Head(argv)) /\ Head(argv) \notin IntOptions
  BY <1>1, OptionNames
<1>4. WellFormed(i)
  BY <1>1, <1>2, <1>3 DEF WellFormed, Options
<1>5. /\ argv \in Seq(Words) /\ argv # <<>> /\ argv' \in Seq(Words)
      /\ Len(argv') = Len(argv) - 1 /\ 1 <= Len(argv)
      /\ \A j \in 1 .. Len(argv) - 1 : argv'[j] = argv[j + 1]
  <2>1. argv \in Seq(Words) /\ argv # <<>>
    BY <1>1 DEF TypeOK, Parsing
  <2>2. /\ Tail(argv) \in Seq(Words) /\ Len(Tail(argv)) = Len(argv) - 1
        /\ \A j \in 1 .. Len(argv) - 1 : Tail(argv)[j] = argv[j + 1]
    BY <2>1, TailsOfArgv
  <2> QED
    BY <1>1, <1>2, <2>1, <2>2
<1>6. /\ Done' = Done \cup {i} /\ Len(argv') <= Len(line')
      /\ \A j \in 1 .. Len(argv') : argv'[j] = line'[Taken' + j]
      /\ \A j \in Done' : WellFormed(j)'
      /\ argv' # <<>> => Taken' + 1 \in OptionsAt'
  <2>1. 1 \in {1, 2} /\ (1 = 2 <=> TakesValue(Head(argv)))
    BY <1>3
  <2> QED
    BY <1>1, <1>4, <1>5, <2>1, TakeOption
<1>7. Reading'
  <2>1. ~ended /\ \A j \in Done : line[j] # "--help"
    BY <1>1 DEF Reading, Parsing
  <2>2. \A j \in Done' : line'[j] # "--help"
    BY <1>1, <1>2, <1>6, <2>1
  <2> QED
    BY <1>1, <1>6, <2>1, <2>2 DEF Reading
<1>8. Arguments'
  <2>1. /\ TextGiven(strings.client, ClientOptions, Done')
        /\ TextGiven(strings.udp_sink, {"--udp-sink"}, Done')
        /\ \A option \in IntOptions : NumberGiven(ints[option], option, Done')
    BY <1>1, <1>6, OthersStay
  <2>2. "udp_source" \in flags' <=> \E j \in Done' : line'[j] = "--udp-source"
    BY <1>1, <1>2, <1>6 DEF Arguments
  <2>3. "key_sink" \in flags' <=> \E j \in Done' : line'[j] = "--key-sink"
    BY <1>1, <1>2, <1>6
  <2> QED
    BY <1>1, <2>1, <2>2, <2>3, ArgumentsNext
<1>9. TypeOK'
  BY <1>1, <1>5 DEF TypeOK, devices
<1>10. Parsed' /\ Resources'
  BY <1>1, NoDevices DEF Parsed
<1> QED
  BY <1>7, <1>8, <1>9, <1>10 DEF StartupInv

LEMMA ReadHelpInv ==
  ASSUME StartupInv, ReadHelp
  PROVE  StartupInv'
<1> DEFINE i == Taken + 1
<1>1. /\ TypeOK /\ Reading /\ Arguments /\ Resources
      /\ Parsing /\ Head(argv) = "--help" /\ argv' = Tail(argv)
      /\ ended' = TRUE /\ stage = "parse"
      /\ UNCHANGED <<platform, line, stage, strings, flags, ints, devices>>
  BY DEF StartupInv, ReadHelp, Parsing, arguments
<1>2. /\ i \in Nat /\ line[i] = Head(argv)
      /\ Len(argv) \in Nat \ {0} /\ \A j \in Done : j \in Nat /\ j < i
  BY <1>1, NextOption
<1>3. ~TakesValue(Head(argv)) /\ Head(argv) \notin IntOptions
  BY <1>1, OptionNames
<1>4. WellFormed(i)
  BY <1>1, <1>2, <1>3 DEF WellFormed, Options
<1>5. /\ argv \in Seq(Words) /\ argv # <<>> /\ argv' \in Seq(Words)
      /\ Len(argv') = Len(argv) - 1 /\ 1 <= Len(argv)
      /\ \A j \in 1 .. Len(argv) - 1 : argv'[j] = argv[j + 1]
  <2>1. argv \in Seq(Words) /\ argv # <<>>
    BY <1>1 DEF TypeOK, Parsing
  <2>2. /\ Tail(argv) \in Seq(Words) /\ Len(Tail(argv)) = Len(argv) - 1
        /\ \A j \in 1 .. Len(argv) - 1 : Tail(argv)[j] = argv[j + 1]
    BY <2>1, TailsOfArgv
  <2> QED
    BY <1>1, <1>2, <2>1, <2>2
<1>6. /\ Done' = Done \cup {i} /\ Len(argv') <= Len(line')
      /\ \A j \in 1 .. Len(argv') : argv'[j] = line'[Taken' + j]
      /\ \A j \in Done' : WellFormed(j)'
  <2>1. 1 \in {1, 2} /\ (1 = 2 <=> TakesValue(Head(argv)))
    BY <1>3
  <2> QED
    BY <1>1, <1>4, <1>5, <2>1, TakeOption
<1>7. Reading'
  <2>1. \A j \in Done : line[j] # "--help"
    BY <1>1 DEF Reading, Parsing
  <2>2. /\ i \in Done' /\ line'[i] = "--help"
        /\ \A j \in Done' : j <= i /\ (line'[j] = "--help" => j = i)
    BY <1>1, <1>2, <1>6, <2>1
  <2> QED
    BY <1>1, <1>6, <2>2 DEF Reading
<1>8. Arguments'
  <2>1. /\ TextGiven(strings.client, ClientOptions, Done')
        /\ TextGiven(strings.udp_sink, {"--udp-sink"}, Done')
        /\ \A option \in IntOptions : NumberGiven(ints[option], option, Done')
    BY <1>1, <1>6, OthersStay
  <2>2. /\ "udp_source" \in flags' <=> \E j \in Done' : line'[j] = "--udp-source"
        /\ "key_sink" \in flags' <=> \E j \in Done' : line'[j] = "--key-sink"
    BY <1>1, <1>2, <1>6 DEF Arguments
  <2> QED
    BY <1>1, <2>1, <2>2, ArgumentsNext
<1>9. TypeOK'
  BY <1>1, <1>5 DEF TypeOK, devices
<1>10. Parsed' /\ Resources'
  BY <1>1, NoDevices DEF Parsed
<1> QED
  BY <1>7, <1>8, <1>9, <1>10 DEF StartupInv

\* After the parser, what it has read stands.
LEMMA ReadStands ==
  ASSUME Reading, Arguments, stage' # "parse", UNCHANGED <<line, argv, ended, strings, flags>>
  PROVE  Reading' /\ Arguments'
<1>1. /\ Taken' = Taken /\ OptionsAt' = OptionsAt
      /\ \A i : WellFormed(i)' <=> WellFormed(i)
  BY LineUnchanged DEF Taken
<1>2. Done' = Done
  BY <1>1 DEF Done
<1>3. Reading'
  BY <1>1, <1>2 DEF Reading
<1>4. /\ TextGiven(strings.client, ClientOptions, Done)'
      /\ TextGiven(strings.udp_sink, {"--udp-sink"}, Done)'
  BY <1>2 DEF Arguments, TextGiven, IsLast, ClientOptions
<1> QED
  BY <1>2, <1>3, <1>4 DEF Arguments

\* A malformed option that would be the next to be read is one that is read.
LEMMA InvalidArgumentInv ==
  ASSUME StartupInv, InvalidArgument
  PROVE  StartupInv'
<1> DEFINE i == Taken + 1
<1>1. /\ TypeOK /\ Reading /\ Arguments /\ Resources /\ Parsing /\ stage = "parse"
      /\ stage' = "failed"
      /\ UNCHANGED <<platform, line, argv, ended, strings, flags, ints, devices>>
  BY DEF StartupInv, InvalidArgument, Parsing, arguments
<1>2. /\ i \in OptionsAt /\ i \in 1 .. Len(line) /\ line[i] = Head(argv)
      /\ HasValue <=> i < Len(line)
      /\ HasValue => line[i + 1] = argv[2]
      /\ Taken \in Nat /\ \A j \in OptionsAt : j \in Nat
  <2>1. \A j \in OptionsAt : j \in Nat
    <3>1. OptionsAt \in SUBSET (1 .. Len(line)) /\ Len(line) \in Nat
      BY <1>1, OptionsAtIs DEF TypeOK
    <3> QED
      BY <3>1
  <2> QED
    BY <1>1, <2>1, NextOption
<1>3. ~WellFormed(i)
  BY <1>2 DEF InvalidArgument, WellFormed, TakesValue
<1>4. i \in OptionsRead
  <2>1. \A j \in Done : line[j] # "--help"
    BY <1>1 DEF Reading, Parsing
  <2>2. \A j \in OptionsAt : line[j] = "--help" => i <= j
    BY <1>2, <2>1 DEF Done
  <2> QED
    BY <1>2, <2>2 DEF OptionsRead
<1>5. Parsed'
  <2>1. OptionsRead' = OptionsRead /\ \A j : WellFormed(j)' <=> WellFormed(j)
    BY <1>1, LineUnchanged
  <2> QED
    BY <1>1, <1>3, <1>4, <2>1 DEF Parsed
<1>6. TypeOK'
  BY <1>1 DEF TypeOK, devices
<1>7. Reading' /\ Arguments' /\ Resources'
  BY <1>1, ReadStands, NoDevices
<1> QED
  BY <1>5, <1>6, <1>7 DEF StartupInv

LEMMA ClampedIsNearest ==
  ASSUME NEW g \in Int
  PROVE  /\ ClampOctaves(g) \in 0 .. NumOctaves
         /\ \A m \in 0 .. NumOctaves : Distance(ClampOctaves(g), g) <= Distance(m, g)
BY DEF ClampOctaves, NumOctaves, Distance

\* Once the parser has ended, the options it has read are those that count.
LEMMA DoneIsRead ==
  ASSUME TypeOK, Reading, argv = <<>> \/ ended
  PROVE  OptionsRead = Done
<1>1. OptionsAt \in SUBSET (1 .. Len(line)) /\ Len(line) \in Nat /\ Len(argv) \in Nat
  BY OptionsAtIs, LenProperties DEF TypeOK
<1>2. \A i \in OptionsAt : i \in Nat
  BY <1>1
<1>3. CASE ended
  <2>1. PICK h \in Done : /\ line[h] = "--help"
                          /\ \A i \in Done : i <= h /\ (line[i] = "--help" => i = h)
    BY <1>3 DEF Reading
  <2>2. h \in OptionsAt /\ h \in Nat /\ h <= Taken /\ Taken \in Int
    BY <1>1, <1>2, <2>1 DEF Done, Taken
  <2>3. ASSUME NEW i \in OptionsRead PROVE i \in Done
    BY <1>2, <2>1, <2>2, <2>3 DEF OptionsRead, Done
  <2>4. ASSUME NEW i \in Done PROVE i \in OptionsRead
    <3>1. i \in OptionsAt /\ i <= Taken /\ i \in Nat /\ i <= h
      BY <1>2, <2>1 DEF Done
    <3>2. ASSUME NEW j \in OptionsAt, line[j] = "--help" PROVE i <= j
      <4>1. CASE j <= Taken
        BY <2>1, <3>1, <3>2, <4>1 DEF Done
      <4>2. CASE ~(j <= Taken)
        BY <1>2, <2>2, <3>1, <4>2
      <4> QED
        BY <4>1, <4>2
    <3> QED
      BY <3>1, <3>2 DEF OptionsRead
  <2> QED
    BY <2>3, <2>4
<1>4. CASE ~ended
  <2>1. Taken = Len(line)
    BY <1>1, <1>4, EmptySeq DEF Taken
  <2>2. Done = OptionsAt
    <3>1. \A i \in OptionsAt : i <= Taken
      BY <1>1, <2>1
    <3> QED
      BY <3>1 DEF Done
  <2>3. \A i \in OptionsAt : line[i] # "--help"
    BY <1>4, <2>2 DEF Reading
  <2> QED
    BY <2>2, <2>3 DEF OptionsRead
<1> QED
  BY <1>3, <1>4

LEMMA LastValueIs ==
  ASSUME NEW options, OptionsRead \in SUBSET Nat
  PROVE  /\ \A i : IsLast(i, options, OptionsRead) =>
                     LastOccurrence(options) = {i} /\ LastValue(options) = {line[i + 1]}
         /\ (\A i \in OptionsRead : line[i] \notin options) =>
              Occurrences(options) = {} /\ LastValue(options) = {}
<1>1. ASSUME NEW i, IsLast(i, options, OptionsRead)
      PROVE  LastOccurrence(options) = {i} /\ LastValue(options) = {line[i + 1]}
  <2>1. i \in Occurrences(options) /\ \A k \in Occurrences(options) : k <= i
    BY <1>1 DEF IsLast, Occurrences
  <2>2. \A j \in Occurrences(options) : j \in Nat
    BY DEF Occurrences
  <2>3. LastOccurrence(options) = {i}
    BY <2>1, <2>2 DEF LastOccurrence
  <2> QED
    BY <2>3 DEF LastValue
<1>2. ASSUME \A i \in OptionsRead : line[i] \notin options
      PROVE  Occurrences(options) = {} /\ LastValue(options) = {}
  <2>1. Occurrences(options) = {}
    BY <1>2 DEF Occurrences
  <2> QED
    BY <2>1 DEF LastValue, LastOccurrence
<1> QED
  BY <1>1, <1>2

-----------------------------------------------------------------------------
(* The calls of the inits.                                                   *)

Calls == [takes : SUBSET Handles, gives : SUBSET {"addresses"}, possible : BOOLEAN,
          refusal : {"fails", "exits", "never"}]

\* freeaddrinfo and xcb_key_symbols_alloc.
FreeAddresses == Call({}, {"addresses"}, TRUE, "never")
GetSymbols == Call({"key_symbols"}, {}, TRUE, "never")
GetEvent == Call({"audio_event"}, {}, TRUE, "never")

\* The calls of an init take what its device uses and leave that, and none is
\* refused while the program has hold of addresses.
LeavesOnly(calls, result) ==
  /\ calls \in Seq(Calls) /\ Len(calls) <= 12
  /\ Granted(calls, Len(calls)) = result
  /\ \A n \in 1 .. Len(calls) : calls[n].takes \subseteq result \cup {"addresses"}
  /\ \A n \in 1 .. Len(calls) :
       calls[n].refusal # "never" => "addresses" \notin Granted(calls, n - 1)

LEMMA CallTypes ==
  /\ Try \in Calls
  /\ \A p \in BOOLEAN : Require(p) \in Calls
  /\ \A h \in Handles : Take(h) \in Calls
  /\ FreeAddresses \in Calls /\ GetSymbols \in Calls /\ GetEvent \in Calls
  /\ Call({}, {}, TRUE, "exits") \in Calls
  /\ \A p \in BOOLEAN : Call({}, {}, p, "fails") \in Calls
BY DEF Calls, Call, Try, Require, Take, FreeAddresses, GetSymbols, GetEvent, Handles

LEMMA CallFields ==
  /\ Try.takes = {} /\ Try.gives = {} /\ Try.possible /\ Try.refusal = "fails"
  /\ \A p : Require(p).takes = {} /\ Require(p).gives = {} /\ Require(p).possible = p
  /\ \A h : Take(h).takes = {h} /\ Take(h).gives = {} /\ Take(h).refusal = "fails"
  /\ \A t, g, p, r : /\ Call(t, g, p, r).takes = t /\ Call(t, g, p, r).gives = g
                     /\ Call(t, g, p, r).possible = p /\ Call(t, g, p, r).refusal = r
  /\ FreeAddresses.takes = {} /\ FreeAddresses.gives = {"addresses"}
  /\ FreeAddresses.refusal = "never"
  /\ GetSymbols.takes = {"key_symbols"} /\ GetSymbols.gives = {}
  /\ GetEvent.takes = {"audio_event"} /\ GetEvent.gives = {}
BY DEF Call, Try, Require, Take, FreeAddresses, GetSymbols, GetEvent

LEMMA NoCalls == LeavesOnly(<<>>, {})
<1>1. <<>> \in Seq(Calls) /\ Len(<<>>) = 0
  BY EmptySeq
<1> QED
  BY <1>1 DEF LeavesOnly, Granted

LEMMA FourCalls ==
  ASSUME NEW a \in Calls, NEW b \in Calls, NEW c \in Calls, NEW d \in Calls,
         NEW calls, calls = <<a, b, c, d>>
  PROVE  /\ calls \in Seq(Calls) /\ Len(calls) = 4
         /\ calls[1] = a /\ calls[2] = b /\ calls[3] = c /\ calls[4] = d
OBVIOUS

LEMMA ThreeCalls ==
  ASSUME NEW a \in Calls, NEW b \in Calls, NEW c \in Calls, NEW calls, calls = <<a, b, c>>
  PROVE  /\ calls \in Seq(Calls) /\ Len(calls) = 3
         /\ calls[1] = a /\ calls[2] = b /\ calls[3] = c
OBVIOUS

\* What the calls of UDPSink::init and MIDISourceUDP::init are, with the socket
\* API in between on Windows: so many calls come before that for a socket.
UpToApi(on) == IF on = "win32" THEN 2 ELSE 1
WithApi(call, on, r, others) == <<call>> \o SocketApi(on, r) \o others

LEMMA SocketCalls ==
  ASSUME NEW a \in Calls, NEW t \in Seq(Calls), NEW on, NEW r \in Handles
  PROVE  /\ WithApi(a, on, r, t) \in Seq(Calls)
         /\ Len(WithApi(a, on, r, t)) = UpToApi(on) + Len(t)
         /\ WithApi(a, on, r, t)[1] = a
         /\ UpToApi(on) = 2 => WithApi(a, on, r, t)[2] = Take(r)
         /\ \A i \in 1 .. Len(t) : WithApi(a, on, r, t)[UpToApi(on) + i] = t[i]
<1> DEFINE calls == WithApi(a, on, r, t)
           m == UpToApi(on)
           s == <<a>> \o SocketApi(on, r)
<1>1. /\ SocketApi(on, r) \in Seq(Calls) /\ Len(SocketApi(on, r)) = m - 1
      /\ m = 2 => SocketApi(on, r)[1] = Take(r)
  BY CallTypes DEF SocketApi, UpToApi
<1>2. <<a>> \in Seq(Calls) /\ Len(<<a>>) = 1 /\ <<a>>[1] = a
  OBVIOUS
<1> HIDE DEF m
<1>3. /\ s \in Seq(Calls) /\ Len(s) = m /\ s[1] = a /\ (m = 2 => s[2] = Take(r))
  <2>1. /\ s \in Seq(Calls) /\ Len(s) = 1 + (m - 1)
        /\ \A i \in 1 .. 1 + (m - 1) : s[i] = IF i <= 1 THEN <<a>>[i] ELSE SocketApi(on, r)[i - 1]
    BY <1>1, <1>2, ConcatProperties
  <2>2. m \in 1 .. 2
    BY DEF m, UpToApi
  <2> QED
    BY <1>1, <1>2, <2>1, <2>2
<1>4. calls = s \o t
  BY DEF WithApi
<1> HIDE DEF s, calls
<1>5. /\ calls \in Seq(Calls) /\ Len(calls) = m + Len(t)
      /\ \A i \in 1 .. m + Len(t) : calls[i] = IF i <= m THEN s[i] ELSE t[i - m]
  <2>1. s \in Seq(Calls) /\ Len(s) = m
    BY <1>3
  <2>2. /\ s \o t \in Seq(Calls) /\ Len(s \o t) = Len(s) + Len(t)
        /\ \A i \in 1 .. Len(s) + Len(t) :
             (s \o t)[i] = IF i <= Len(s) THEN s[i] ELSE t[i - Len(s)]
    BY <2>1, ConcatProperties
  <2> QED
    BY <1>4, <2>1, <2>2
<1>6. Len(t) \in Nat /\ m \in 1 .. 2
  BY LenProperties DEF m, UpToApi
<1>7. ASSUME NEW i \in 1 .. Len(t) PROVE calls[m + i] = t[i]
  <2>1. m + i \in 1 .. m + Len(t) /\ ~(m + i <= m) /\ (m + i) - m = i
    BY <1>6
  <2> QED
    BY <1>5, <2>1
<1>8. calls[1] = a /\ (m = 2 => calls[2] = Take(r))
  <2>1. 1 \in 1 .. m + Len(t) /\ 1 <= m /\ (m = 2 => 2 \in 1 .. m + Len(t) /\ 2 <= m)
    BY <1>6
  <2> QED
    BY <1>3, <1>5, <2>1
<1> QED
  BY <1>5, <1>7, <1>8 DEF calls, m

\* An init that gives nothing back leaves what its calls take.
LEMMA NoneGiven ==
  ASSUME NEW calls \in Seq(Calls), Len(calls) <= 12,
         NEW result, "addresses" \notin result,
         \A i \in 1 .. Len(calls) : calls[i].takes \subseteq result /\ calls[i].gives = {},
         \A h \in result : \E i \in 1 .. Len(calls) : h \in calls[i].takes
  PROVE  LeavesOnly(calls, result)
<1>1. Len(calls) \in Nat
  BY LenProperties
<1>2. \A i \in 1 .. Len(calls) : calls[i].takes \subseteq Handles
  <2>1. \A i \in 1 .. Len(calls) : calls[i] \in Calls
    BY ElementOfSeq
  <2> QED
    BY <2>1 DEF Calls
<1>3. \A n \in 0 .. Len(calls) : Granted(calls, n) \subseteq result
  <2>1. \A n \in 0 .. Len(calls) : \A i \in 1 .. n : i \in 1 .. Len(calls)
    BY <1>1
  <2> QED
    BY <2>1 DEF Granted
<1>4. result \subseteq Granted(calls, Len(calls))
  <2> SUFFICES ASSUME NEW h \in result PROVE h \in Granted(calls, Len(calls))
    OBVIOUS
  <2>1. PICK i \in 1 .. Len(calls) : h \in calls[i].takes
    OBVIOUS
  <2>2. \A k \in i .. Len(calls) : k \in 1 .. Len(calls)
    BY <1>1
  <2> QED
    BY <1>2, <2>1, <2>2 DEF Granted
<1>5. \A n \in 1 .. Len(calls) : n - 1 \in 0 .. Len(calls)
  BY <1>1
<1>6. Len(calls) \in 0 .. Len(calls)
  BY <1>1
<1>7. Granted(calls, Len(calls)) = result
  BY <1>3, <1>4, <1>6
<1>8. \A n \in 1 .. Len(calls) : "addresses" \notin Granted(calls, n - 1)
  BY <1>3, <1>5
<1> QED
  BY <1>7, <1>8 DEF LeavesOnly

LEMMA AlsaLeaves ==
  ASSUME NEW client
  PROVE  /\ LeavesOnly(AlsaCalls(client), {"sequencer"})
         /\ (\A i \in 1 .. Len(AlsaCalls(client)) : AlsaCalls(client)[i].possible) => client # Empty
<1> DEFINE p == client # Empty
           calls == AlsaCalls(client)
<1>1. p \in BOOLEAN
  OBVIOUS
<1>2. calls = <<Take("sequencer"), Try, Call({}, {}, p, "fails"), Try>>
  BY DEF AlsaCalls
<1>3. Take("sequencer") \in Calls /\ Try \in Calls /\ Call({}, {}, p, "fails") \in Calls
  BY <1>1, CallTypes DEF Handles
<1> HIDE DEF p, calls
<1>4. /\ calls \in Seq(Calls) /\ Len(calls) = 4
      /\ calls[1] = Take("sequencer") /\ calls[2] = Try /\ calls[4] = Try
      /\ calls[3] = Call({}, {}, p, "fails")
  BY <1>2, <1>3, FourCalls
<1>5. /\ \A i \in 1 .. 4 : /\ calls[i].takes = (IF i = 1 THEN {"sequencer"} ELSE {})
                           /\ calls[i].gives = {}
      /\ calls[3].possible = p
  <2>1. \A i \in 1 .. 4 : i = 1 \/ i = 2 \/ i = 3 \/ i = 4
    OBVIOUS
  <2> QED
    BY <1>4, <2>1, CallFields
<1>7. LeavesOnly(calls, {"sequencer"})
  <2>1. Len(calls) <= 12 /\ calls \in Seq(Calls) /\ 1 \in 1 .. Len(calls)
    BY <1>4
  <2>2. \A i \in 1 .. Len(calls) : calls[i].takes \subseteq {"sequencer"} /\ calls[i].gives = {}
    BY <1>4, <1>5
  <2>3. "sequencer" \in calls[1].takes
    BY <1>5
  <2>4. \A g \in {"sequencer"} : \E i \in 1 .. Len(calls) : g \in calls[i].takes
    BY <2>1, <2>3
  <2> QED
    BY <2>1, <2>2, <2>4, NoneGiven
<1>8. (\A i \in 1 .. 4 : calls[i].possible) => p
  BY <1>5
<1> QED
  BY <1>4, <1>7, <1>8 DEF p, calls

LEMMA WinmmLeaves ==
  ASSUME NEW client
  PROVE  /\ LeavesOnly(WinmmCalls(client), {"midi_input"})
         /\ (\A i \in 1 .. Len(WinmmCalls(client)) : WinmmCalls(client)[i].possible) => client # Empty
<1> DEFINE p == client # Empty
           calls == WinmmCalls(client)
<1>1. p \in BOOLEAN
  OBVIOUS
<1>2. calls = <<Require(p), Try, Try, Take("midi_input")>>
  BY DEF WinmmCalls
<1>3. Take("midi_input") \in Calls /\ Try \in Calls /\ Require(p) \in Calls
  BY <1>1, CallTypes DEF Handles
<1> HIDE DEF p, calls
<1>4. /\ calls \in Seq(Calls) /\ Len(calls) = 4
      /\ calls[1] = Require(p) /\ calls[2] = Try /\ calls[3] = Try
      /\ calls[4] = Take("midi_input")
  BY <1>2, <1>3, FourCalls
<1>5. /\ \A i \in 1 .. 4 : /\ calls[i].takes = (IF i = 4 THEN {"midi_input"} ELSE {})
                           /\ calls[i].gives = {}
      /\ calls[1].possible = p
  <2>1. \A i \in 1 .. 4 : i = 1 \/ i = 2 \/ i = 3 \/ i = 4
    OBVIOUS
  <2> QED
    BY <1>4, <2>1, CallFields
<1>7. LeavesOnly(calls, {"midi_input"})
  <2>1. Len(calls) <= 12 /\ calls \in Seq(Calls) /\ 4 \in 1 .. Len(calls)
    BY <1>4
  <2>2. \A i \in 1 .. Len(calls) : calls[i].takes \subseteq {"midi_input"} /\ calls[i].gives = {}
    BY <1>4, <1>5
  <2>3. "midi_input" \in calls[4].takes
    BY <1>5
  <2>4. \A g \in {"midi_input"} : \E i \in 1 .. Len(calls) : g \in calls[i].takes
    BY <2>1, <2>3
  <2> QED
    BY <2>1, <2>2, <2>4, NoneGiven
<1>8. (\A i \in 1 .. 4 : calls[i].possible) => p
  BY <1>5
<1> QED
  BY <1>4, <1>7, <1>8 DEF p, calls

LEMMA UdpSourceLeaves ==
  ASSUME NEW client, NEW on
  PROVE  /\ LeavesOnly(UdpSourceCalls(client, on),
                       {"source_socket"} \cup Reference(on, "winsock_source"))
         /\ (\A i \in 1 .. Len(UdpSourceCalls(client, on)) : UdpSourceCalls(client, on)[i].possible)
              => client # Empty
<1> DEFINE p == client # Empty
           calls == UdpSourceCalls(client, on)
           t == <<Take("source_socket"), Try, Try>>
           m == UpToApi(on)
           result == {"source_socket"} \cup Reference(on, "winsock_source")
<1>1. /\ p \in BOOLEAN /\ m \in 1 .. 2 /\ m = UpToApi(on)
      /\ result = {"source_socket"} \cup (IF m = 2 THEN {"winsock_source"} ELSE {})
  BY DEF UpToApi, Reference
<1>2. calls = WithApi(Require(p), on, "winsock_source", t)
  BY DEF UdpSourceCalls, WithApi
<1>3. /\ Take("source_socket") \in Calls /\ Try \in Calls /\ Require(p) \in Calls
      /\ "winsock_source" \in Handles
  BY <1>1, CallTypes DEF Handles
<1>4. t \in Seq(Calls) /\ Len(t) = 3 /\ t[1] = Take("source_socket") /\ t[2] = Try /\ t[3] = Try
  BY <1>3, ThreeCalls
<1> HIDE DEF p, calls, t, m, result
<1>5. /\ calls \in Seq(Calls) /\ Len(calls) = m + 3
      /\ calls[1] = Require(p) /\ (m = 2 => calls[2] = Take("winsock_source"))
      /\ \A i \in 1 .. 3 : calls[m + i] = t[i]
  <2>1. t \in Seq(Calls) /\ Require(p) \in Calls
    BY <1>3, <1>4
  <2>2. /\ calls \in Seq(Calls) /\ Len(calls) = m + Len(t)
        /\ calls[1] = Require(p) /\ (m = 2 => calls[2] = Take("winsock_source"))
        /\ \A i \in 1 .. Len(t) : calls[m + i] = t[i]
    <3>1. /\ WithApi(Require(p), on, "winsock_source", t) \in Seq(Calls)
          /\ Len(WithApi(Require(p), on, "winsock_source", t)) = UpToApi(on) + Len(t)
          /\ WithApi(Require(p), on, "winsock_source", t)[1] = Require(p)
          /\ UpToApi(on) = 2 => WithApi(Require(p), on, "winsock_source", t)[2] = Take("winsock_source")
      BY <1>3, <2>1, SocketCalls
    <3>2. \A i \in 1 .. Len(t) : WithApi(Require(p), on, "winsock_source", t)[UpToApi(on) + i] = t[i]
      BY <1>3, <2>1, SocketCalls
    <3> QED
      BY <1>1, <1>2, <3>1, <3>2
  <2> QED
    BY <1>4, <2>2
<1>6. /\ \A i \in 1 .. m + 3 : calls[i].takes \subseteq result /\ calls[i].gives = {}
      /\ calls[1].possible = p
      /\ calls[m + 1].takes = {"source_socket"} /\ (m = 2 => calls[2].takes = {"winsock_source"})
  <2>1. \A i \in 1 .. m + 3 : i = 1 \/ (i = 2 /\ m = 2) \/ i = m + 1 \/ i = m + 2 \/ i = m + 3
    BY <1>1
  <2>2. /\ calls[m + 1] = Take("source_socket") /\ calls[m + 2] = Try /\ calls[m + 3] = Try
    BY <1>4, <1>5
  <2>3. /\ Require(p).takes = {} /\ Require(p).gives = {} /\ Require(p).possible = p
        /\ Try.takes = {} /\ Try.gives = {}
        /\ Take("source_socket").takes = {"source_socket"} /\ Take("source_socket").gives = {}
        /\ Take("winsock_source").takes = {"winsock_source"} /\ Take("winsock_source").gives = {}
    BY CallFields
  <2>4. ASSUME NEW i \in 1 .. m + 3 PROVE calls[i].takes \subseteq result /\ calls[i].gives = {}
    <3>1. CASE i = 1
      BY <1>5, <2>3, <3>1
    <3>2. CASE i = 2 /\ m = 2
      BY <1>1, <1>5, <2>3, <3>2
    <3>3. CASE i = m + 1
      BY <1>1, <2>2, <2>3, <3>3
    <3>4. CASE i = m + 2 \/ i = m + 3
      BY <2>2, <2>3, <3>4
    <3> QED
      BY <2>1, <3>1, <3>2, <3>3, <3>4
  <2> QED
    BY <1>5, <2>2, <2>3, <2>4
<1>7. m + 1 \in 1 .. m + 3 /\ m + 3 <= 12 /\ 1 \in 1 .. m + 3 /\ 2 \in 1 .. m + 3
  BY <1>1
<1>8. LeavesOnly(calls, result)
  <2>1. Len(calls) <= 12 /\ calls \in Seq(Calls)
    BY <1>5, <1>7
  <2>2. \A i \in 1 .. Len(calls) : calls[i].takes \subseteq result /\ calls[i].gives = {}
    BY <1>5, <1>6
  <2>3. \A h \in result : \E i \in 1 .. Len(calls) : h \in calls[i].takes
    BY <1>1, <1>5, <1>6, <1>7
  <2>4. "addresses" \notin result
    BY <1>1
  <2> QED
    BY <2>1, <2>2, <2>3, <2>4, NoneGiven
<1>9. (\A i \in 1 .. m + 3 : calls[i].possible) => p
  BY <1>6, <1>7
<1> QED
  BY <1>5, <1>8, <1>9 DEF p, calls, result

LEMMA KeySinkLeaves ==
  LeavesOnly(KeySinkCalls("linux"), {"connection", "key_symbols"})
<1> DEFINE calls == KeySinkCalls("linux")
<1>1. calls = <<Take("connection"), Try, GetSymbols>>
  BY DEF KeySinkCalls, GetSymbols
<1>2. Take("connection") \in Calls /\ Try \in Calls /\ GetSymbols \in Calls
  BY CallTypes DEF Handles
<1> HIDE DEF calls
<1>3. /\ calls \in Seq(Calls) /\ Len(calls) = 3
      /\ calls[1] = Take("connection") /\ calls[2] = Try
      /\ calls[3] = GetSymbols
  BY <1>1, <1>2, ThreeCalls
<1>4. \A i \in 1 .. 3 : /\ calls[i].takes = (IF i = 1 THEN {"connection"}
                                             ELSE IF i = 3 THEN {"key_symbols"} ELSE {})
                        /\ calls[i].gives = {}
  <2>1. \A i \in 1 .. 3 : i = 1 \/ i = 2 \/ i = 3
    OBVIOUS
  <2>2. /\ Take("connection").takes = {"connection"} /\ Take("connection").gives = {}
        /\ Try.takes = {} /\ Try.gives = {}
        /\ GetSymbols.takes = {"key_symbols"} /\ GetSymbols.gives = {}
    BY CallFields
  <2> QED
    BY <1>3, <2>1, <2>2
<1>5. LeavesOnly(calls, {"connection", "key_symbols"})
  <2>1. Len(calls) <= 12 /\ calls \in Seq(Calls) /\ 1 \in 1 .. Len(calls) /\ 3 \in 1 .. Len(calls)
    BY <1>3
  <2>2. \A i \in 1 .. Len(calls) : /\ calls[i].takes \subseteq {"connection", "key_symbols"}
                                  /\ calls[i].gives = {}
    BY <1>3, <1>4
  <2>3. "connection" \in calls[1].takes /\ "key_symbols" \in calls[3].takes
    BY <1>4
  <2>4. \A h \in {"connection", "key_symbols"} : \E i \in 1 .. Len(calls) : h \in calls[i].takes
    BY <2>1, <2>3
  <2> QED
    BY <2>1, <2>2, <2>4, NoneGiven
<1> QED
  BY <1>5 DEF calls

\* The addresses are given back by the call that comes after the one that has
\* taken them, and that call cannot be refused.
LEMMA UdpSinkLeaves ==
  ASSUME NEW p \in BOOLEAN, NEW on
  PROVE  LeavesOnly(UdpSinkCalls(p, on), {"sink_socket"} \cup Reference(on, "winsock_sink"))
<1> DEFINE calls == UdpSinkCalls(p, on)
           t == <<Take("addresses"), FreeAddresses, Try,
                  Take("sink_socket")>>
           m == UpToApi(on)
           result == {"sink_socket"} \cup Reference(on, "winsock_sink")
<1>1. /\ m \in 1 .. 2 /\ m = UpToApi(on)
      /\ result = {"sink_socket"} \cup (IF m = 2 THEN {"winsock_sink"} ELSE {})
  BY DEF UpToApi, Reference
<1>2. calls = WithApi(Require(p), on, "winsock_sink", t)
  BY DEF UdpSinkCalls, FreeAddresses, WithApi
<1>3. /\ Take("addresses") \in Calls /\ Take("sink_socket") \in Calls /\ Try \in Calls
      /\ Require(p) \in Calls /\ FreeAddresses \in Calls /\ "winsock_sink" \in Handles
  BY CallTypes DEF Handles
<1>4. /\ t \in Seq(Calls) /\ Len(t) = 4 /\ t[1] = Take("addresses") /\ t[3] = Try
      /\ t[2] = FreeAddresses /\ t[4] = Take("sink_socket")
  BY <1>3, FourCalls
<1> HIDE DEF calls, t, m, result
<1>5. /\ calls \in Seq(Calls) /\ Len(calls) = m + 4
      /\ calls[1] = Require(p) /\ (m = 2 => calls[2] = Take("winsock_sink"))
      /\ \A i \in 1 .. 4 : calls[m + i] = t[i]
  <2>1. t \in Seq(Calls) /\ Require(p) \in Calls
    BY <1>3, <1>4
  <2>2. /\ calls \in Seq(Calls) /\ Len(calls) = m + Len(t)
        /\ calls[1] = Require(p) /\ (m = 2 => calls[2] = Take("winsock_sink"))
        /\ \A i \in 1 .. Len(t) : calls[m + i] = t[i]
    <3>1. /\ WithApi(Require(p), on, "winsock_sink", t) \in Seq(Calls)
          /\ Len(WithApi(Require(p), on, "winsock_sink", t)) = UpToApi(on) + Len(t)
          /\ WithApi(Require(p), on, "winsock_sink", t)[1] = Require(p)
          /\ UpToApi(on) = 2 => WithApi(Require(p), on, "winsock_sink", t)[2] = Take("winsock_sink")
      BY <1>3, <2>1, SocketCalls
    <3>2. \A i \in 1 .. Len(t) : WithApi(Require(p), on, "winsock_sink", t)[UpToApi(on) + i] = t[i]
      BY <1>3, <2>1, SocketCalls
    <3> QED
      BY <1>1, <1>2, <3>1, <3>2
  <2> QED
    BY <1>4, <2>2
<1>6. /\ \A i \in 1 .. m + 4 : /\ calls[i].takes = (IF i = m + 1 THEN {"addresses"}
                                                  ELSE IF i = m + 4 THEN {"sink_socket"}
                                                  ELSE IF i = 2 THEN {"winsock_sink"} ELSE {})
                               /\ calls[i].gives = (IF i = m + 2 THEN {"addresses"} ELSE {})
      /\ calls[m + 2].refusal = "never"
  <2>1. \A i \in 1 .. m + 4 : i = 1 \/ (i = 2 /\ m = 2) \/ i = m + 1 \/ i = m + 2 \/ i = m + 3 \/ i = m + 4
    BY <1>1
  <2>2. /\ calls[m + 1] = Take("addresses") /\ calls[m + 3] = Try
        /\ calls[m + 2] = FreeAddresses
        /\ calls[m + 4] = Take("sink_socket")
    BY <1>4, <1>5
  <2>3. /\ 1 \notin {m + 1, m + 2, m + 4} /\ (m = 2 => 2 \notin {m + 1, m + 2, m + 4})
        /\ 2 \notin {m + 2, m + 3, m + 4}
        /\ m + 2 # m + 1 /\ m + 2 # m + 4 /\ m + 1 # m + 2 /\ m + 1 # m + 4
        /\ m + 3 \notin {m + 1, m + 2, m + 4} /\ m + 4 # m + 1 /\ m + 4 # m + 2
    BY <1>1
  <2>4. /\ Require(p).takes = {} /\ Require(p).gives = {}
        /\ Try.takes = {} /\ Try.gives = {}
        /\ Take("addresses").takes = {"addresses"} /\ Take("addresses").gives = {}
        /\ Take("sink_socket").takes = {"sink_socket"} /\ Take("sink_socket").gives = {}
        /\ Take("winsock_sink").takes = {"winsock_sink"} /\ Take("winsock_sink").gives = {}
        /\ FreeAddresses.takes = {} /\ FreeAddresses.gives = {"addresses"}
        /\ FreeAddresses.refusal = "never"
    BY CallFields
  <2>5. ASSUME NEW i \in 1 .. m + 4
        PROVE  /\ calls[i].takes = (IF i = m + 1 THEN {"addresses"}
                                    ELSE IF i = m + 4 THEN {"sink_socket"}
                                    ELSE IF i = 2 THEN {"winsock_sink"} ELSE {})
               /\ calls[i].gives = (IF i = m + 2 THEN {"addresses"} ELSE {})
    <3>1. CASE i = 1
      BY <1>5, <2>3, <2>4, <3>1
    <3>2. CASE i = 2 /\ m = 2
      BY <1>5, <2>3, <2>4, <3>2
    <3>3. CASE i = m + 1
      BY <2>2, <2>3, <2>4, <3>3
    <3>4. CASE i = m + 2
      BY <2>2, <2>3, <2>4, <3>4
    <3>5. CASE i = m + 3
      BY <2>2, <2>3, <2>4, <3>5
    <3>6. CASE i = m + 4
      BY <2>2, <2>3, <2>4, <3>6
    <3> QED
      BY <2>1, <3>1, <3>2, <3>3, <3>4, <3>5, <3>6
  <2> QED
    BY <2>2, <2>4, <2>5
<1>7. ASSUME NEW n \in 0 .. m + 4, "addresses" \in Granted(calls, n)
      PROVE  n = m + 1
  <2>1. PICK i \in 1 .. n : /\ "addresses" \in calls[i].takes
                            /\ \A j \in i .. n : "addresses" \notin calls[j].gives
    BY <1>7 DEF Granted
  <2>2. i = m + 1
    <3>1. i \in 1 .. m + 4
      BY <1>1
    <3> QED
      BY <1>6, <2>1, <3>1
  <2>3. m + 2 \notin i .. n
    <3>1. m + 2 \in 1 .. m + 4
      BY <1>1
    <3> QED
      BY <1>6, <2>1, <3>1
  <2> QED
    BY <1>1, <2>2, <2>3
<1>8. /\ Granted(calls, m + 4) = result
      /\ \A i \in 1 .. m + 4 : calls[i].takes \subseteq result \cup {"addresses"}
  <2>1. "addresses" \notin Granted(calls, m + 4)
    BY <1>1, <1>7
  <2>2. \A i \in 1 .. m + 4 : calls[i].takes \subseteq result \cup {"addresses"}
    <3>1. \A i \in 1 .. m + 4 : i = 2 => m = 2 \/ i = m + 1
      BY <1>1
    <3> QED
      BY <1>1, <1>6, <3>1
  <2>3. \A h \in Granted(calls, m + 4) : h \in result \cup {"addresses"}
    BY <2>2 DEF Granted
  <2>4. "sink_socket" \in Granted(calls, m + 4)
    <3>1. /\ m + 4 \in 1 .. m + 4 /\ m + 4 # m + 1
          /\ \A j \in (m + 4) .. (m + 4) : j \in 1 .. m + 4 /\ j # m + 2
      BY <1>1
    <3>2. /\ "sink_socket" \in calls[m + 4].takes
          /\ \A j \in (m + 4) .. (m + 4) : "sink_socket" \notin calls[j].gives
      BY <1>6, <3>1
    <3> QED
      BY <3>1, <3>2 DEF Granted, Handles
  <2>5. ASSUME m = 2 PROVE "winsock_sink" \in Granted(calls, m + 4)
    <3>1. 2 \in 1 .. m + 4 /\ 2 # m + 1 /\ 2 # m + 4 /\ \A j \in 2 .. m + 4 : j \in 1 .. m + 4
      BY <2>5
    <3>2. /\ "winsock_sink" \in calls[2].takes
          /\ \A j \in 2 .. m + 4 : "winsock_sink" \notin calls[j].gives
      BY <1>6, <3>1
    <3> QED
      BY <3>1, <3>2 DEF Granted, Handles
  <2> QED
    BY <1>1, <2>1, <2>2, <2>3, <2>4, <2>5
<1>9. ASSUME NEW n \in 1 .. m + 4, calls[n].refusal # "never"
      PROVE  "addresses" \notin Granted(calls, n - 1)
  <2>1. n - 1 \in 0 .. m + 4 /\ n # m + 2
    BY <1>1, <1>6, <1>9
  <2>2. n - 1 # m + 1
    BY <1>1, <2>1
  <2> QED
    BY <1>7, <2>1, <2>2
<1>10. Len(calls) = m + 4 /\ m + 4 <= 12 /\ calls \in Seq(Calls)
  BY <1>1, <1>5
<1>11. LeavesOnly(calls, result)
  BY <1>8, <1>9, <1>10 DEF LeavesOnly
<1> QED
  BY <1>11 DEF calls, result

\* Each character is looked up.
LookUp == Call({}, {}, TRUE, "exits")

LEMMA LookUpLeaves == LeavesOnly(<<LookUp>>, {})
<1>1. LookUp \in Calls
  BY CallTypes DEF LookUp
<1>2. LookUp.gives = {} /\ LookUp.takes = {}
  BY DEF LookUp, Call
<1> HIDE DEF LookUp
<1> DEFINE calls == <<LookUp>>
<1>3. calls \in Seq(Calls) /\ Len(calls) = 1 /\ calls[1] = LookUp
  BY <1>1
<1> HIDE DEF calls
<1>4. \A i \in 1 .. Len(calls) : calls[i].takes \subseteq {} /\ calls[i].gives = {}
  BY <1>2, <1>3
<1>5. Len(calls) <= 12
  BY <1>3
<1>6. LeavesOnly(calls, {})
  BY <1>3, <1>4, <1>5, NoneGiven
<1> QED
  BY <1>6 DEF calls

\* The inits of the two backends.
LEMMA PulseLeaves == LeavesOnly(PulseCalls, PulseHandles)
<1> DEFINE calls == PulseCalls
<1>1. /\ Take("mainloop") \in Calls /\ Take("context") \in Calls /\ Take("stream") \in Calls
      /\ Try \in Calls
  BY CallTypes DEF Handles
<1>2. /\ calls \in Seq(Calls) /\ Len(calls) = 8
      /\ calls[1] = Take("mainloop") /\ calls[2] = Take("context") /\ calls[6] = Take("stream")
      /\ \A i \in {3, 4, 5, 7, 8} : calls[i] = Try
  BY <1>1 DEF PulseCalls
<1> HIDE DEF calls
<1>3. /\ Try.takes = {} /\ Try.gives = {}
      /\ \A h : Take(h).takes = {h} /\ Take(h).gives = {}
  BY CallFields
<1>4. /\ calls[1].takes = {"mainloop"} /\ calls[2].takes = {"context"}
      /\ calls[6].takes = {"stream"}
      /\ \A i \in {1, 2, 6} : calls[i].gives = {}
      /\ \A i \in {3, 4, 5, 7, 8} : calls[i].takes = {} /\ calls[i].gives = {}
  BY <1>2, <1>3
<1>5. \A i \in 1 .. 8 : calls[i].takes \subseteq PulseHandles /\ calls[i].gives = {}
  <2>1. \A i \in 1 .. 8 : i \in {1, 2, 6} \/ i \in {3, 4, 5, 7, 8}
    OBVIOUS
  <2> QED
    BY <1>4, <2>1 DEF PulseHandles
<1>6. \A h \in PulseHandles : \E i \in 1 .. 8 : h \in calls[i].takes
  <2>1. 1 \in 1 .. 8 /\ 2 \in 1 .. 8 /\ 6 \in 1 .. 8
    OBVIOUS
  <2> QED
    BY <1>4, <2>1 DEF PulseHandles
<1>7. LeavesOnly(calls, PulseHandles)
  <2>1. "addresses" \notin PulseHandles
    BY DEF PulseHandles
  <2>2. Len(calls) <= 12
    BY <1>2
  <2> QED
    BY <1>2, <1>5, <1>6, <2>1, <2>2, NoneGiven
<1> QED
  BY <1>7 DEF calls

LEMMA WasapiLeaves == LeavesOnly(WasapiCalls, WasapiHandles)
<1> DEFINE calls == WasapiCalls
<1>1. /\ GetEvent \in Calls /\ Take("com") \in Calls /\ Take("enumerator") \in Calls
      /\ Take("endpoint") \in Calls /\ Take("client") \in Calls /\ Take("format") \in Calls
      /\ Take("render_client") \in Calls /\ Try \in Calls
  BY CallTypes DEF Handles
<1>2. /\ calls \in Seq(Calls) /\ Len(calls) = 12
      /\ calls[1] = GetEvent /\ calls[2] = Take("com") /\ calls[3] = Take("enumerator")
      /\ calls[4] = Take("endpoint") /\ calls[5] = Take("client") /\ calls[6] = Take("format")
      /\ calls[12] = Take("render_client")
      /\ \A i \in 7 .. 11 : calls[i] = Try
  <2>1. calls = <<GetEvent, Take("com"), Take("enumerator"), Take("endpoint"), Take("client"),
                  Take("format"), Try, Try, Try, Try, Try, Take("render_client")>>
    BY DEF WasapiCalls, GetEvent
  <2> QED
    BY <1>1, <2>1
<1> HIDE DEF calls
<1>3. /\ Try.takes = {} /\ Try.gives = {}
      /\ \A h : Take(h).takes = {h} /\ Take(h).gives = {}
      /\ GetEvent.takes = {"audio_event"} /\ GetEvent.gives = {}
  BY CallFields
<1>4. /\ calls[1].takes = {"audio_event"} /\ calls[2].takes = {"com"}
      /\ calls[3].takes = {"enumerator"} /\ calls[4].takes = {"endpoint"}
      /\ calls[5].takes = {"client"} /\ calls[6].takes = {"format"}
      /\ calls[12].takes = {"render_client"}
      /\ \A i \in {1, 2, 3, 4, 5, 6, 12} : calls[i].gives = {}
      /\ \A i \in 7 .. 11 : calls[i].takes = {} /\ calls[i].gives = {}
  BY <1>2, <1>3
<1>5. \A i \in 1 .. 12 : calls[i].takes \subseteq WasapiHandles /\ calls[i].gives = {}
  <2>1. \A i \in 1 .. 12 : i \in {1, 2, 3, 4, 5, 6, 12} \/ i \in 7 .. 11
    OBVIOUS
  <2> QED
    BY <1>4, <2>1 DEF WasapiHandles
<1>6. \A h \in WasapiHandles : \E i \in 1 .. 12 : h \in calls[i].takes
  <2>1. \A i \in {1, 2, 3, 4, 5, 6, 12} : i \in 1 .. 12
    OBVIOUS
  <2> QED
    BY <1>4, <2>1 DEF WasapiHandles
<1>7. LeavesOnly(calls, WasapiHandles)
  <2>1. "addresses" \notin WasapiHandles
    BY DEF WasapiHandles
  <2>2. Len(calls) <= 12
    BY <1>2
  <2> QED
    BY <1>2, <1>5, <1>6, <2>1, <2>2, NoneGiven
<1> QED
  BY <1>7 DEF calls

-----------------------------------------------------------------------------
(* The stages of main().                                                     *)

Openings == {"source", "keys", "sink", "bind", "backend"}
Unwindings == {"~backend", "~sink", "~keys", "~source", "returned"}

LEMMA StageCallsAre ==
  TypeOK /\ Opening =>
    /\ LeavesOnly(StageCalls, StageTakes)
    /\ stage = "source" /\ (\A i \in 1 .. Len(StageCalls) : StageCalls[i].possible)
         => strings.client # Empty
<1> SUFFICES ASSUME TypeOK, Opening
             PROVE  /\ LeavesOnly(StageCalls, StageTakes)
                    /\ stage = "source" /\ (\A i \in 1 .. Len(StageCalls) : StageCalls[i].possible)
                         => strings.client # Empty
  OBVIOUS
<1>1. platform \in {"linux", "win32"} /\ SourceKind \in {"udp_source", "midi_source"}
  BY DEF TypeOK, SourceKind
<1>2. CASE stage = "source"
  <2>1. CASE SourceKind = "udp_source"
    <3>1. StageCalls = UdpSourceCalls(strings.client, platform)
      BY <1>2, <2>1 DEF StageCalls
    <3>2. StageTakes = {"source_socket"} \cup Reference(platform, "winsock_source")
      BY <1>2, <2>1 DEF StageTakes, StageHandles
    <3> QED
      BY <3>1, <3>2, UdpSourceLeaves
  <2>2. CASE SourceKind # "udp_source" /\ platform = "win32"
    <3>1. StageCalls = WinmmCalls(strings.client)
      BY <1>2, <2>2 DEF StageCalls
    <3>2. StageTakes = {"midi_input"}
      BY <1>2, <2>2 DEF StageTakes, StageHandles
    <3> QED
      BY <3>1, <3>2, WinmmLeaves
  <2>3. CASE SourceKind # "udp_source" /\ platform # "win32"
    <3>1. StageCalls = AlsaCalls(strings.client)
      BY <1>2, <2>3 DEF StageCalls
    <3>2. StageTakes = {"sequencer"}
      BY <1>2, <2>3 DEF StageTakes, StageHandles
    <3> QED
      BY <3>1, <3>2, AlsaLeaves
  <2> QED
    BY <2>1, <2>2, <2>3
<1>3. CASE stage = "keys"
  <2>1. CASE "key_sink" \in flags /\ platform = "linux"
    <3>1. StageCalls = KeySinkCalls("linux")
      BY <1>3, <2>1 DEF StageCalls
    <3>2. StageTakes = {"connection", "key_symbols"}
      BY <1>3, <2>1 DEF StageTakes, StageHandles
    <3> QED
      BY <1>3, <3>1, <3>2, KeySinkLeaves
  <2>2. CASE ~("key_sink" \in flags /\ platform = "linux")
    <3>1. StageCalls = <<>>
      BY <1>1, <1>3, <2>2 DEF StageCalls, KeySinkCalls
    <3>2. StageTakes = {}
      BY <1>3, <2>2 DEF StageTakes, StageHandles
    <3> QED
      BY <1>3, <3>1, <3>2, NoCalls
  <2> QED
    BY <2>1, <2>2
<1>4. CASE stage = "sink"
  <2>1. CASE strings.udp_sink = Empty
    <3>1. StageCalls = <<>>
      BY <1>4, <2>1 DEF StageCalls
    <3>2. StageTakes = {}
      BY <1>4, <2>1 DEF StageTakes, StageHandles
    <3> QED
      BY <1>4, <3>1, <3>2, NoCalls
  <2>2. CASE strings.udp_sink # Empty
    <3>1. StageCalls = UdpSinkCalls(strings.udp_sink \in Addresses, platform)
      BY <1>4, <2>2 DEF StageCalls
    <3>2. StageTakes = {"sink_socket"} \cup Reference(platform, "winsock_sink")
      BY <1>4, <2>2 DEF StageTakes, StageHandles
    <3> DEFINE p == strings.udp_sink \in Addresses
    <3>3. p \in BOOLEAN /\ StageCalls = UdpSinkCalls(p, platform)
      BY <3>1
    <3> HIDE DEF p
    <3>4. LeavesOnly(UdpSinkCalls(p, platform),
                     {"sink_socket"} \cup Reference(platform, "winsock_sink"))
      BY <3>3, UdpSinkLeaves
    <3> QED
      BY <1>4, <3>2, <3>3, <3>4
  <2> QED
    BY <2>1, <2>2
<1>5. CASE stage = "bind"
  <2>1. StageTakes = {}
    BY <1>5 DEF StageTakes, StageHandles
  <2>2. StageCalls = <<>> \/ StageCalls = <<LookUp>>
    BY <1>5 DEF StageCalls, BindCalls, LookUp
  <2> QED
    BY <1>5, <2>1, <2>2, NoCalls, LookUpLeaves
<1>6. CASE stage = "backend"
  <2>1. /\ StageTakes = (IF platform = "win32" THEN WasapiHandles ELSE PulseHandles)
        /\ StageCalls = (IF platform = "win32" THEN WasapiCalls ELSE PulseCalls)
    BY <1>6 DEF StageTakes, StageHandles, StageCalls, BackendCalls
  <2> QED
    BY <1>6, <2>1, PulseLeaves, WasapiLeaves
<1> QED
  BY <1>2, <1>3, <1>4, <1>5, <1>6 DEF Opening

LEMMA StageCallsWillBe ==
  TypeOK' /\ Opening' => LeavesOnly(StageCalls, StageTakes)'
BY StageCallsAre, PTL

LEMMA StageHandlesAre ==
  ASSUME NEW at \in Openings
  PROVE  StageHandles(at) \subseteq Handles \ {"addresses"}
BY DEF StageHandles, Handles, Openings, Reference, PulseHandles, WasapiHandles

LEMMA BeforeLoop ==
  ASSUME NEW at \in Openings \cup {"loop"}
  PROVE  /\ Before(at) \subseteq Openings
         /\ HandlesBefore(at) \subseteq Handles \ {"addresses"}
<1>1. Before(at) \subseteq Openings
  BY DEF Before, Openings
<1> QED
  BY <1>1, StageHandlesAre DEF HandlesBefore

\* A stage comes before the one that follows, and so do those before it.
LEMMA FollowingIs ==
  ASSUME NEW at \in Openings
  PROVE  /\ Following(at) \in (Openings \cup {"loop"}) \ {"source"}
         /\ Before(Following(at)) = Before(at) \cup {at}
<1>1. /\ DOMAIN Stages = 1 .. 6
      /\ Stages[1] = "source" /\ Stages[2] = "keys" /\ Stages[3] = "sink"
      /\ Stages[4] = "bind" /\ Stages[5] = "backend" /\ Stages[6] = "loop"
  BY DEF Stages
<1>2. ASSUME NEW n \in 1 .. 5 PROVE Following(Stages[n]) = Stages[n + 1]
  <2>1. \A k \in DOMAIN Stages : Stages[k] = Stages[n] <=> k = n
    <3>1. \A k \in 1 .. 6 : k = 1 \/ k = 2 \/ k = 3 \/ k = 4 \/ k = 5 \/ k = 6
      OBVIOUS
    <3> QED
      BY <1>1, <3>1
  <2>2. n \in DOMAIN Stages
    BY <1>1
  <2> DEFINE k == CHOOSE k \in DOMAIN Stages : Stages[k] = Stages[n]
  <2>3. k = n
    BY <2>1, <2>2
  <2> QED
    BY <2>3 DEF Following
<1>3. /\ Following("source") = "keys" /\ Following("keys") = "sink"
      /\ Following("sink") = "bind" /\ Following("bind") = "backend"
      /\ Following("backend") = "loop"
  <2>1. /\ Following(Stages[1]) = Stages[1 + 1] /\ Following(Stages[2]) = Stages[2 + 1]
        /\ Following(Stages[3]) = Stages[3 + 1] /\ Following(Stages[4]) = Stages[4 + 1]
        /\ Following(Stages[5]) = Stages[5 + 1]
    BY <1>2
  <2> QED
    BY <1>1, <2>1
<1> QED
  BY <1>3 DEF Openings, Before

\* One more call is granted.
LEMMA GrantedNext ==
  ASSUME NEW calls \in Seq(Calls), NEW n \in Nat, n < Len(calls)
  PROVE  /\ calls[n + 1] \in Calls
         /\ Granted(calls, n + 1) = (Granted(calls, n) \cup calls[n + 1].takes)
                                      \ calls[n + 1].gives
<1>1. calls[n + 1] \in Calls
  <2>1. n + 1 \in 1 .. Len(calls)
    BY LenProperties
  <2> QED
    BY <2>1, ElementOfSeq
<1>2. calls[n + 1].takes \subseteq Handles
  BY <1>1 DEF Calls
<1>3. ASSUME NEW h \in Handles
      PROVE  h \in Granted(calls, n + 1) <=>
               (h \in Granted(calls, n) \/ h \in calls[n + 1].takes)
                 /\ h \notin calls[n + 1].gives
  <2>1. \A i \in 1 .. n + 1 : i \in 1 .. n \/ i = n + 1
    OBVIOUS
  <2>2. \A i \in 1 .. n : i \in 1 .. n + 1 /\ n + 1 \in i .. n + 1
    OBVIOUS
  <2>3. \A i \in 1 .. n, j \in Int : j \in i .. n + 1 <=> j \in i .. n \/ j = n + 1
    OBVIOUS
  <2>4. n + 1 \in 1 .. n + 1 /\ \A j \in (n + 1) .. (n + 1) : j = n + 1
    OBVIOUS
  <2>5. n + 1 \in (n + 1) .. (n + 1)
    OBVIOUS
  <2>6. h \in Granted(calls, n + 1) =>
               (h \in Granted(calls, n) \/ h \in calls[n + 1].takes)
                 /\ h \notin calls[n + 1].gives
    <3> SUFFICES ASSUME h \in Granted(calls, n + 1)
                 PROVE  (h \in Granted(calls, n) \/ h \in calls[n + 1].takes)
                          /\ h \notin calls[n + 1].gives
      OBVIOUS
    <3>1. PICK i \in 1 .. n + 1 : /\ h \in calls[i].takes
                                  /\ \A j \in i .. n + 1 : h \notin calls[j].gives
      BY DEF Granted
    <3>2. CASE i = n + 1
      BY <2>5, <3>1, <3>2
    <3>3. CASE i \in 1 .. n
      BY <2>2, <2>3, <3>1, <3>3 DEF Granted
    <3> QED
      BY <2>1, <3>2, <3>3
  <2>7. ASSUME h \in calls[n + 1].takes, h \notin calls[n + 1].gives
        PROVE  h \in Granted(calls, n + 1)
    BY <2>4, <2>7 DEF Granted
  <2>8. ASSUME h \in Granted(calls, n), h \notin calls[n + 1].gives
        PROVE  h \in Granted(calls, n + 1)
    <3>1. PICK i \in 1 .. n : /\ h \in calls[i].takes
                              /\ \A j \in i .. n : h \notin calls[j].gives
      BY <2>8 DEF Granted
    <3>2. \A j \in i .. n + 1 : h \notin calls[j].gives
      BY <2>3, <2>8, <3>1
    <3> QED
      BY <2>2, <3>1, <3>2 DEF Granted
  <2> QED
    BY <2>6, <2>7, <2>8
<1>4. Granted(calls, n) \subseteq Handles /\ Granted(calls, n + 1) \subseteq Handles
  BY DEF Granted
<1> QED
  BY <1>1, <1>2, <1>3, <1>4

\* An init that has made no call yet.
LEMMA InitBegins ==
  ASSUME TypeOK', Opening', made' = 0,
         opened' = DevicesSoFar', handles' = HandlesSoFar',
         stage' # "source" => strings'.client # Empty
  PROVE  Resources'
<1>1. stage' \in Openings
  BY DEF Opening, Openings
<1>2. Len(StageCalls') \in Nat /\ 0 \in 0 .. Len(StageCalls')
  <2>1. LeavesOnly(StageCalls, StageTakes)'
    BY StageCallsWillBe
  <2>2. StageCalls' \in Seq(Calls)
    BY <2>1 DEF LeavesOnly, Calls
  <2>3. Len(StageCalls') \in Nat
    BY <2>2, LenProperties
  <2> QED
    BY <2>3
<1>3. Granted(StageCalls, made)' = {}
  BY DEF Granted
<1>4. \A i \in 1 .. made' : StageCalls'[i].possible
  OBVIOUS
<1> QED
  BY <1>1, <1>2, <1>3, <1>4 DEF Resources, Openings

-----------------------------------------------------------------------------
(* What parse() returns.                                                     *)

\* The number an option has been given, or its default, is the only one.
LEMMA GivenIsOne ==
  ASSUME TypeOK, \A i \in OptionsRead : WellFormed(i), NEW option \in IntOptions, NEW n,
         NumberGiven(n, option, OptionsRead)
  PROVE  {n} = IF Occurrences({option}) = {} THEN {DefaultInts[option]}
               ELSE UNION {NumberOf[word] : word \in LastValue({option})}
<1>1. /\ OptionsRead \in SUBSET Nat
      /\ \A i \in OptionsRead : i \in 1 .. Len(line) /\ Len(line) \in Nat
  <2>1. OptionsAt \in SUBSET (1 .. Len(line)) /\ Len(line) \in Nat
    BY OptionsAtIs DEF TypeOK
  <2>2. \A i \in OptionsRead : i \in 1 .. Len(line)
    BY <2>1 DEF OptionsRead
  <2> QED
    BY <2>1, <2>2
<1>2. CASE \A i \in OptionsRead : line[i] # option
  <2>1. \A i \in OptionsRead : line[i] \notin {option}
    BY <1>2
  <2>2. Occurrences({option}) = {}
    BY <1>1, <2>1, LastValueIs
  <2>3. n = DefaultInts[option]
    BY <1>2 DEF NumberGiven
  <2> QED
    BY <2>2, <2>3
<1>3. CASE ~\A i \in OptionsRead : line[i] # option
  <2>1. PICK i \in OptionsRead : IsLast(i, {option}, OptionsRead) /\ n \in NumberOf[line[i + 1]]
    BY <1>3 DEF NumberGiven
  <2>2. LastValue({option}) = {line[i + 1]} /\ Occurrences({option}) # {}
    <3>1. LastValue({option}) = {line[i + 1]}
      BY <1>1, <2>1, LastValueIs
    <3>2. i \in Occurrences({option})
      BY <2>1 DEF IsLast, Occurrences
    <3> QED
      BY <3>1, <3>2
  <2>3. line[i + 1] \in Words
    <3>1. line[i] = option /\ TakesValue(line[i])
      BY <2>1, OptionNames DEF IsLast
    <3>2. i < Len(line) /\ i \in 1 .. Len(line) /\ Len(line) \in Nat
      BY <1>1, <3>1 DEF WellFormed
    <3>3. i + 1 \in 1 .. Len(line)
      BY <3>2
    <3>4. line \in Seq(Words)
      BY DEF TypeOK
    <3> QED
      BY <3>3, <3>4, ElementOfSeq
  <2>4. NumberOf[line[i + 1]] = {n}
    BY <2>1, <2>3, StartupConstants
  <2>5. UNION {NumberOf[word] : word \in {line[i + 1]}} = NumberOf[line[i + 1]]
    OBVIOUS
  <2> QED
    BY <2>2, <2>4, <2>5
<1> QED
  BY <1>2, <1>3

LEMMA ParseReturnsInv ==
  ASSUME StartupInv, ParseReturns
  PROVE  StartupInv'
<1>1. /\ TypeOK /\ Reading /\ Arguments /\ Resources
      /\ stage = "parse" /\ (argv = <<>> \/ ended)
      /\ stage' = (IF ended THEN "help" ELSE "source")
      /\ UNCHANGED <<platform, line, argv, ended, strings, flags, devices>>
  BY DEF StartupInv, ParseReturns
<1>2. OptionsRead = Done /\ \A i \in OptionsRead : WellFormed(i)
  BY <1>1, DoneIsRead DEF Reading
<1>3. ints \in [IntOptions -> Int]
  BY <1>1 DEF TypeOK
<1>4. /\ ints' \in [IntOptions -> Int]
      /\ ~ended => \A option \in IntOptions :
           ints'[option] = IF option \in OctaveOptions THEN ClampOctaves(ints[option])
                                                       ELSE ints[option]
  <2>1. \A option \in IntOptions : ints[option] \in Int
    BY <1>3
  <2>2. \A n \in Int : ClampOctaves(n) \in Int
    BY DEF ClampOctaves, NumOctaves
  <2> QED
    BY <1>3, <2>1, <2>2 DEF ParseReturns
<1>5. ~ended => \A option \in OctaveOptions : ints'[option] \in 0 .. NumOctaves
  <2>1. \A option \in OctaveOptions : option \in IntOptions
    BY DEF IntOptions
  <2>2. \A option \in OctaveOptions : ints[option] \in Int
    BY <1>3, <2>1
  <2>3. ~ended => \A option \in OctaveOptions : ints'[option] = ClampOctaves(ints[option])
    BY <1>4, <2>1
  <2> QED
    BY <2>2, <2>3, ClampedIsNearest
<1>6. ASSUME ~ended, NEW option \in IntOptions PROVE IsValueOf(ints'[option], option)
  <2> DEFINE given == IF Occurrences({option}) = {} THEN {DefaultInts[option]}
                      ELSE UNION {NumberOf[word] : word \in LastValue({option})}
             g == ints[option]
  <2>1. g \in Int /\ given = {g}
    <3>1. NumberGiven(ints[option], option, OptionsRead)
      BY <1>1, <1>2 DEF Arguments
    <3>2. given = {ints[option]}
      BY <1>1, <1>2, <3>1, GivenIsOne
    <3> QED
      BY <1>3, <3>2
  <2>2. IsValueOf(ints'[option], option) <=>
          IF option \in OctaveOptions
          THEN /\ ints'[option] \in 0 .. NumOctaves
               /\ \A m \in 0 .. NumOctaves, h \in given :
                    Distance(ints'[option], h) <= Distance(m, h)
          ELSE ints'[option] \in given
    BY DEF IsValueOf
  <2> HIDE DEF given, g
  <2>3. CASE option \in OctaveOptions
    <3>1. ints'[option] = ClampOctaves(g)
      BY <1>4, <1>6, <2>3 DEF g
    <3>2. /\ ClampOctaves(g) \in 0 .. NumOctaves
          /\ \A m \in 0 .. NumOctaves : Distance(ClampOctaves(g), g) <= Distance(m, g)
      BY <2>1, ClampedIsNearest
    <3> QED
      BY <2>1, <2>2, <2>3, <3>1, <3>2
  <2>4. CASE option \notin OctaveOptions
    BY <1>4, <1>6, <2>1, <2>2, <2>4 DEF g
  <2> QED
    BY <2>3, <2>4
<1>7. TypeOK'
  BY <1>1, <1>4, <1>5 DEF TypeOK, devices
<1>8. Reading' /\ Arguments'
  BY <1>1, ReadStands
<1>9. Parsed'
  <2>1. ~ended => \A option \in IntOptions : IsValueOf(ints[option], option)'
    <3>1. OptionsRead' = OptionsRead
      BY <1>1, LineUnchanged
    <3>2. \A option, n : IsValueOf(n, option)' <=> IsValueOf(n, option)
      BY <1>1, <3>1 DEF IsValueOf, LastValue, LastOccurrence, Occurrences
    <3> QED
      BY <1>6, <3>2
  <2> QED
    BY <1>1, <2>1 DEF Parsed
<1>10. Resources'
  <2>1. handles' = {} /\ opened' = {} /\ made' = 0
    BY <1>1 DEF Resources, Opening, devices
  <2>2. CASE ended
    BY <1>1, <2>1, <2>2 DEF Resources, Opening
  <2>3. CASE ~ended
    <3>1. stage' = "source"
      BY <1>1, <2>3
    <3> QED
      BY <1>7, <2>1, <3>1, InitBegins DEF Opening, DevicesSoFar, HandlesSoFar,
           DevicesBefore, HandlesBefore, Before
  <2> QED
    BY <2>2, <2>3
<1> QED
  BY <1>7, <1>8, <1>9, <1>10 DEF StartupInv

-----------------------------------------------------------------------------
(* The devices are opened, and released.                                     *)

\* What the parser has read stands until main() ends.
LEMMA ParsedStands ==
  ASSUME Reading, Arguments, Parsed,
         stage \notin {"parse", "failed", "help"}, stage' \notin {"parse", "failed", "help"},
         UNCHANGED <<line, argv, ended, arguments>>
  PROVE  Reading' /\ Arguments' /\ Parsed'
<1>1. UNCHANGED <<line, argv, ended, strings, flags, ints>> /\ stage' # "parse"
  BY DEF arguments
<1>2. Reading' /\ Arguments'
  BY <1>1, ReadStands
<1>3. /\ ~ended /\ argv = <<>>
      /\ \A option \in IntOptions : IsValueOf(ints[option], option)
  BY DEF Parsed
<1>4. \A option \in IntOptions : IsValueOf(ints[option], option)'
  <2>1. OptionsRead' = OptionsRead
    BY <1>1, LineUnchanged
  <2>2. \A option, n : IsValueOf(n, option)' <=> IsValueOf(n, option)
    BY <1>1, <2>1 DEF IsValueOf, LastValue, LastOccurrence, Occurrences
  <2> QED
    BY <1>1, <1>3, <2>2
<1> QED
  BY <1>1, <1>2, <1>3, <1>4 DEF Parsed

LEMMA HandlesAre ==
  {"addresses"} \cup NeverReleased
    \cup (UNION {ReleasedBy(d) : d \in {"backend", "sink", "keys", "source"}}) = Handles
<1>1. /\ ReleasedBy("backend") = {"mainloop", "context", "stream", "audio_event", "enumerator",
                                  "endpoint", "client", "format", "render_client"}
      /\ ReleasedBy("sink") = {"sink_socket"}
      /\ ReleasedBy("keys") = {"key_symbols", "connection"}
      /\ ReleasedBy("source") = {"sequencer", "midi_input", "source_socket"}
  BY DEF ReleasedBy
<1>2. UNION {ReleasedBy(d) : d \in {"backend", "sink", "keys", "source"}}
        = ReleasedBy("backend") \cup ReleasedBy("sink") \cup ReleasedBy("keys")
            \cup ReleasedBy("source")
  OBVIOUS
<1>3. {"mainloop", "context", "stream", "audio_event", "enumerator", "endpoint", "client",
       "format", "render_client"} \cup {"sink_socket"} \cup {"key_symbols", "connection"}
        \cup {"sequencer", "midi_input", "source_socket"} \cup {"addresses"} \cup NeverReleased
        = Handles
  BY DEF Handles, NeverReleased
<1> QED
  BY <1>1, <1>2, <1>3

\* What the stage takes stays the same while it lasts.
LEMMA StageStays ==
  ASSUME UNCHANGED <<platform, stage, strings, flags>>
  PROVE  UNCHANGED <<StageCalls, HandlesSoFar, DevicesSoFar, Opening>>
<1>1. SourceKind' = SourceKind
  BY DEF SourceKind
<1>2. StageCalls' = StageCalls /\ Opening' = Opening
  BY <1>1 DEF StageCalls, Opening
<1>3. HandlesSoFar' = HandlesSoFar
  BY <1>1 DEF HandlesSoFar, HandlesBefore, Before, StageHandles
<1>4. DevicesSoFar' = DevicesSoFar
  BY <1>1 DEF DevicesSoFar, DevicesBefore, Before, DevicesOf
<1> QED
  BY <1>2, <1>3, <1>4

LEMMA CallGrantedInv ==
  ASSUME StartupInv, CallGranted
  PROVE  StartupInv'
<1>1. /\ TypeOK /\ Reading /\ Arguments /\ Parsed /\ Resources /\ Opening
      /\ made < Len(StageCalls) /\ NextCall.possible
      /\ handles' = (handles \cup NextCall.takes) \ NextCall.gives
      /\ made' = made + 1
      /\ UNCHANGED <<platform, line, argv, stage, ended, arguments, opened>>
  BY DEF StartupInv, CallGranted
<1>2. UNCHANGED <<StageCalls, HandlesSoFar, DevicesSoFar, Opening>>
  BY <1>1, StageStays DEF arguments
<1>3. /\ stage \in Openings /\ made \in 0 .. Len(StageCalls)
      /\ opened = DevicesSoFar
      /\ handles = HandlesSoFar \cup Granted(StageCalls, made)
      /\ \A i \in 1 .. made : StageCalls[i].possible
  BY <1>1 DEF Resources, Opening, Openings
<1>4. /\ StageCalls \in Seq(Calls) /\ Len(StageCalls) <= 12
      /\ Len(StageCalls) \in Nat /\ made \in Nat
  <2>1. StageCalls \in Seq(Calls) /\ Len(StageCalls) <= 12
    BY <1>1, StageCallsAre DEF LeavesOnly
  <2>2. Len(StageCalls) \in Nat
    BY <2>1, LenProperties
  <2> QED
    BY <1>3, <2>1, <2>2
<1>5. /\ NextCall \in Calls
      /\ Granted(StageCalls, made + 1) = (Granted(StageCalls, made) \cup NextCall.takes)
                                           \ NextCall.gives
  BY <1>1, <1>4, GrantedNext DEF NextCall
<1>6. handles' = HandlesSoFar \cup Granted(StageCalls, made + 1)
  <2>1. "addresses" \notin HandlesSoFar /\ HandlesSoFar \subseteq Handles
    BY <1>3, BeforeLoop DEF HandlesSoFar
  <2>2. NextCall.gives \subseteq {"addresses"}
    BY <1>5 DEF Calls
  <2>3. handles' = (HandlesSoFar \cup Granted(StageCalls, made) \cup NextCall.takes) \ NextCall.gives
    BY <1>1, <1>3
  <2> QED
    BY <1>5, <2>1, <2>2, <2>3
<1>7. TypeOK'
  <2>1. handles \subseteq Handles /\ NextCall.takes \subseteq Handles
    BY <1>1, <1>5, HandlesAre DEF TypeOK, Calls
  <2>2. handles' \subseteq Handles
    BY <1>1, <2>1
  <2>3. made' \in 0 .. 12
    BY <1>1, <1>4
  <2> QED
    BY <1>1, <2>2, <2>3, HandlesAre DEF TypeOK, arguments
<1>8. Reading' /\ Arguments' /\ Parsed'
  BY <1>1, <1>3, ParsedStands DEF Openings
<1>9. Resources'
  <2>1. \A i \in 1 .. made' : StageCalls'[i].possible
    <3>1. \A i \in 1 .. made + 1 : i \in 1 .. made \/ i = made + 1
      BY <1>4
    <3>2. StageCalls[made + 1].possible
      BY <1>1 DEF NextCall
    <3>3. \A i \in 1 .. made + 1 : StageCalls[i].possible
      BY <1>3, <3>1, <3>2
    <3> QED
      BY <1>1, <1>2, <3>3
  <2>2. made' \in 0 .. Len(StageCalls')
    BY <1>1, <1>2, <1>4
  <2>3. /\ opened' = DevicesSoFar'
        /\ handles' = HandlesSoFar' \cup Granted(StageCalls', made')
    BY <1>1, <1>2, <1>3, <1>6
  <2>4. stage' \in Openings /\ stage' = stage /\ Opening' /\ strings' = strings
    BY <1>1, <1>2, <1>3 DEF arguments
  <2>5. stage \in {"keys", "sink", "bind", "backend", "loop"} => strings.client # Empty
    BY <1>1 DEF Resources
  <2> QED
    BY <2>1, <2>2, <2>3, <2>4, <2>5 DEF Resources, Openings
<1> QED
  BY <1>7, <1>8, <1>9 DEF StartupInv

\* No call that may be refused comes while main() has hold of addresses.
LEMMA CallRefusedInv ==
  ASSUME StartupInv, CallRefused
  PROVE  StartupInv'
<1>1. /\ TypeOK /\ Reading /\ Arguments /\ Parsed /\ Resources /\ Opening
      /\ made < Len(StageCalls) /\ NextCall.refusal # "never"
      /\ stage' \in {"~backend", "exited"}
      /\ made' = 0
      /\ UNCHANGED <<platform, line, argv, ended, arguments, opened, handles>>
  BY DEF StartupInv, CallRefused
<1>2. /\ stage \in Openings /\ made \in 0 .. Len(StageCalls)
      /\ handles = HandlesSoFar \cup Granted(StageCalls, made)
  BY <1>1 DEF Resources, Opening, Openings
<1>3. "addresses" \notin handles
  <2>1. "addresses" \notin HandlesSoFar
    BY <1>2, BeforeLoop DEF HandlesSoFar
  <2>2. /\ StageCalls \in Seq(Calls)
        /\ \A n \in 1 .. Len(StageCalls) :
             StageCalls[n].refusal # "never" => "addresses" \notin Granted(StageCalls, n - 1)
    BY <1>1, StageCallsAre DEF LeavesOnly
  <2>3. Len(StageCalls) \in Nat
    BY <2>2, LenProperties
  <2>4. made + 1 \in 1 .. Len(StageCalls) /\ (made + 1) - 1 = made
    BY <1>1, <1>2, <2>3
  <2>5. "addresses" \notin Granted(StageCalls, made)
    BY <1>1, <2>2, <2>4 DEF NextCall
  <2> QED
    BY <1>2, <2>1, <2>5
<1>4. TypeOK'
  BY <1>1 DEF TypeOK, Opening, arguments
<1>5. Reading' /\ Arguments' /\ Parsed'
  BY <1>1, <1>2, ParsedStands DEF Openings
<1>6. Resources'
  BY <1>1, <1>3 DEF Resources, Opening, Passed
<1> QED
  BY <1>4, <1>5, <1>6 DEF StartupInv

\* The next stage finds what this one and those before it have left.
LEMMA NextStage ==
  ASSUME stage \in Openings, stage' = Following(stage), UNCHANGED <<platform, strings, flags>>
  PROVE  /\ HandlesSoFar' = HandlesSoFar \cup StageTakes
         /\ DevicesSoFar' = DevicesSoFar \cup StageDevices
<1>1. SourceKind' = SourceKind
  BY DEF SourceKind
<1>2. Before(stage') = Before(stage) \cup {stage} /\ Before(stage) \subseteq Openings
  BY FollowingIs, BeforeLoop
<1>3. HandlesSoFar' = HandlesSoFar \cup StageTakes
  <2>1. HandlesSoFar' = UNION {StageHandles(s) : s \in Before(stage')}
    BY <1>1 DEF HandlesSoFar, HandlesBefore, StageHandles
  <2>2. HandlesSoFar = UNION {StageHandles(s) : s \in Before(stage)}
    BY DEF HandlesSoFar, HandlesBefore
  <2> QED
    BY <1>2, <2>1, <2>2 DEF StageTakes
<1>4. DevicesSoFar' = DevicesSoFar \cup StageDevices
  <2>1. DevicesSoFar' = UNION {DevicesOf(s) : s \in Before(stage')}
    BY <1>1 DEF DevicesSoFar, DevicesBefore, DevicesOf
  <2>2. DevicesSoFar = UNION {DevicesOf(s) : s \in Before(stage)}
    BY DEF DevicesSoFar, DevicesBefore
  <2>3. StageDevices = DevicesOf(stage)
    BY DEF StageDevices, DevicesOf, Openings
  <2> QED
    BY <1>2, <2>1, <2>2, <2>3
<1> QED
  BY <1>3, <1>4

LEMMA InitReturnsInv ==
  ASSUME StartupInv, InitReturns
  PROVE  StartupInv'
<1>1. /\ TypeOK /\ Reading /\ Arguments /\ Parsed /\ Resources /\ Opening
      /\ made = Len(StageCalls)
      /\ opened' = opened \cup StageDevices
      /\ stage' = Following(stage) /\ made' = 0
      /\ UNCHANGED <<platform, line, argv, ended, arguments, handles>>
  BY DEF StartupInv, InitReturns
<1>2. /\ stage \in Openings /\ opened = DevicesSoFar
      /\ handles = HandlesSoFar \cup Granted(StageCalls, Len(StageCalls))
      /\ \A i \in 1 .. Len(StageCalls) : StageCalls[i].possible
  BY <1>1 DEF Resources, Opening, Openings
<1>3. stage' \in (Openings \cup {"loop"}) \ {"source"}
  BY <1>1, <1>2, FollowingIs
<1>4. opened' = DevicesSoFar' /\ handles' = HandlesSoFar'
  <2>1. Granted(StageCalls, Len(StageCalls)) = StageTakes
    BY <1>1, StageCallsAre DEF LeavesOnly
  <2>2. /\ HandlesSoFar' = HandlesSoFar \cup StageTakes
        /\ DevicesSoFar' = DevicesSoFar \cup StageDevices
    BY <1>1, <1>2, NextStage DEF arguments
  <2> QED
    BY <1>1, <1>2, <2>1, <2>2
<1>5. strings'.client # Empty
  <2>1. CASE stage = "source"
    BY <1>1, <1>2, <2>1, StageCallsAre DEF arguments
  <2>2. CASE stage # "source"
    BY <1>1, <1>2, <2>2 DEF Resources, Openings, arguments
  <2> QED
    BY <2>1, <2>2
<1>6. TypeOK'
  <2>1. StageDevices \subseteq [kind : DeviceKinds, name : Words \cup {Empty}]
    <3>1. strings \in [client : Words \cup {Empty}, udp_sink : Words \cup {Empty}]
      BY <1>1 DEF TypeOK
    <3> QED
      BY <1>2, <3>1 DEF StageDevices, Device, DeviceKinds, SourceKind, Openings
  <2>2. \A option \in OctaveOptions : ints[option] \in 0 .. NumOctaves
    BY <1>1, <1>2 DEF TypeOK, Openings
  <2> QED
    BY <1>1, <1>3, <2>1, <2>2 DEF TypeOK, Openings, arguments
<1>7. Reading' /\ Arguments' /\ Parsed'
  BY <1>1, <1>2, <1>3, ParsedStands DEF Openings
<1>8. Resources'
  <2>1. CASE stage' = "loop"
    BY <1>1, <1>4, <1>5, <2>1 DEF Resources, Opening
  <2>2. CASE stage' \in Openings
    <3>1. Opening'
      BY <2>2 DEF Opening, Openings
    <3> QED
      BY <1>1, <1>4, <1>5, <1>6, <3>1, InitBegins
  <2> QED
    BY <1>3, <2>1, <2>2
<1> QED
  BY <1>6, <1>7, <1>8 DEF StartupInv

LEMMA LoopEndsInv ==
  ASSUME StartupInv, LoopEnds
  PROVE  StartupInv'
<1>1. /\ TypeOK /\ Reading /\ Arguments /\ Parsed /\ Resources
      /\ stage = "loop" /\ stage' = "~backend"
      /\ UNCHANGED <<platform, line, argv, ended, arguments, opened, handles, made>>
  BY DEF StartupInv, LoopEnds
<1>2. "addresses" \notin handles
  <2>1. handles = HandlesSoFar
    BY <1>1 DEF Resources
  <2> QED
    BY <1>1, <2>1, BeforeLoop DEF HandlesSoFar
<1>3. TypeOK'
  BY <1>1 DEF TypeOK, arguments
<1>4. Reading' /\ Arguments' /\ Parsed'
  BY <1>1, ParsedStands
<1>5. Resources'
  BY <1>1, <1>2 DEF Resources, Opening, Passed
<1> QED
  BY <1>3, <1>4, <1>5 DEF StartupInv

\* A destructor releases what is its own and touches nothing else.
LEMMA DestroyInv ==
  ASSUME StartupInv, NEW here \in Unwindings, NEW device, NEW next \in Unwindings,
         Destroy(here, device, KindsOf(device), next),
         Passed(next) = Passed(here) \cup {device}
  PROVE  StartupInv'
<1>1. /\ TypeOK /\ Reading /\ Arguments /\ Parsed /\ Resources
      /\ stage = here /\ stage' = next
      /\ handles' = handles \ ReleasedBy(device)
      /\ opened' = {d \in opened : d.kind \notin KindsOf(device)}
      /\ UNCHANGED <<platform, line, argv, ended, arguments, made>>
  BY DEF StartupInv, Destroy
<1>2. TypeOK'
  BY <1>1 DEF TypeOK, arguments, Unwindings
<1>3. Reading' /\ Arguments' /\ Parsed'
  BY <1>1, ParsedStands DEF Unwindings
<1>4. Resources'
  <2>1. /\ "addresses" \notin handles /\ made = 0
        /\ \A d \in Passed(here) : /\ handles \cap ReleasedBy(d) = {}
                                   /\ \A o \in opened : o.kind \notin KindsOf(d)
    BY <1>1 DEF Resources, Unwindings, Opening
  <2>2. /\ "addresses" \notin handles'
        /\ \A d \in Passed(next) : /\ handles' \cap ReleasedBy(d) = {}
                                   /\ \A o \in opened' : o.kind \notin KindsOf(d)
    BY <1>1, <2>1
  <2>3. stage' \in Unwindings /\ made' = 0
    BY <1>1, <2>1
  <2> QED
    BY <1>1, <2>2, <2>3 DEF Resources, Unwindings, Opening
<1> QED
  BY <1>2, <1>3, <1>4 DEF StartupInv

LEMMA UnwindInv ==
  ASSUME StartupInv, Unwind
  PROVE  StartupInv'
<1>1. CASE Destroy("~backend", "backend", {"audio"}, "~sink")
  <2>1. KindsOf("backend") = {"audio"} /\ Passed("~sink") = Passed("~backend") \cup {"backend"}
    BY DEF KindsOf, Passed
  <2> QED
    BY <1>1, <2>1, DestroyInv DEF Unwindings
<1>2. CASE Destroy("~sink", "sink", {"udp_sink"}, "~keys")
  <2>1. KindsOf("sink") = {"udp_sink"} /\ Passed("~keys") = Passed("~sink") \cup {"sink"}
    BY DEF KindsOf, Passed
  <2> QED
    BY <1>2, <2>1, DestroyInv DEF Unwindings
<1>3. CASE Destroy("~keys", "keys", {"key_sink"}, "~source")
  <2>1. KindsOf("keys") = {"key_sink"} /\ Passed("~source") = Passed("~keys") \cup {"keys"}
    BY DEF KindsOf, Passed
  <2> QED
    BY <1>3, <2>1, DestroyInv DEF Unwindings
<1>4. CASE Destroy("~source", "source", {"udp_source", "midi_source"}, "returned")
  <2>1. /\ KindsOf("source") = {"udp_source", "midi_source"}
        /\ Passed("returned") = Passed("~source") \cup {"source"}
    BY DEF KindsOf, Passed
  <2> QED
    BY <1>4, <2>1, DestroyInv DEF Unwindings
<1> QED
  BY <1>1, <1>2, <1>3, <1>4 DEF Unwind

LEMMA InitInv ==
  ASSUME Init
  PROVE  StartupInv
<1>1. /\ line \in Seq(Words) /\ argv = line /\ Len(line) \in Nat
  <2>1. PICK n \in 0 .. MaxWords : line \in [1 .. n -> Words]
    BY DEF Init
  <2>2. line \in Seq(Words)
    BY <2>1, StartupConstants
  <2> QED
    BY <2>2, LenProperties DEF Init
<1>2. /\ stage = "parse" /\ ended = FALSE
      /\ strings = [client |-> Empty, udp_sink |-> Empty]
      /\ flags = {} /\ ints = DefaultInts /\ opened = {} /\ made = 0 /\ handles = {}
      /\ platform \in {"linux", "win32"}
  BY DEF Init
<1>3. TypeOK
  <2>1. DefaultInts \in [IntOptions -> Int]
    BY DEF DefaultInts
  <2>2. strings \in [client : Words \cup {Empty}, udp_sink : Words \cup {Empty}]
    BY <1>2
  <2>3. argv \in Seq(Words) /\ line \in Seq(Words)
    BY <1>1
  <2>4. ended \in BOOLEAN
    BY <1>2
  <2>5. made \in 0 .. 12
    BY <1>2
  <2> QED
    BY <1>2, <2>1, <2>2, <2>3, <2>4, <2>5 DEF TypeOK
<1>4. Taken = 0 /\ Done = {}
  <2>1. Taken = 0
    BY <1>1 DEF Taken
  <2>2. OptionsAt \in SUBSET (1 .. Len(line))
    BY <1>1, OptionsAtIs
  <2>3. \A i \in 1 .. Len(line) : ~(i <= 0)
    BY <1>1
  <2> QED
    BY <2>1, <2>2, <2>3 DEF Done
<1>5. Reading
  <2>1. \A i \in 1 .. Len(argv) : argv[i] = line[Taken + i]
    BY <1>1, <1>4
  <2>2. ASSUME argv # <<>> PROVE Taken + 1 \in OptionsAt
    <3>1. 1 \in 1 .. Len(line)
      BY <1>1, <2>2, EmptySeq
    <3> QED
      BY <1>1, <1>4, <3>1, OptionsAtIs
  <2> QED
    BY <1>1, <1>2, <1>4, <2>1, <2>2 DEF Reading
<1>6. Arguments
  BY <1>2, <1>4 DEF Arguments, TextGiven, NumberGiven
<1>7. Parsed /\ Resources
  BY <1>2 DEF Parsed, Resources, Opening
<1> QED
  BY <1>3, <1>5, <1>6, <1>7 DEF StartupInv

LEMMA StutterInv ==
  ASSUME StartupInv, UNCHANGED vars
  PROVE  StartupInv'
<1>1. /\ UNCHANGED <<platform, line, argv, stage, ended, strings, flags, ints, opened, made, handles>>
      /\ TypeOK /\ Reading /\ Arguments /\ Parsed /\ Resources
  BY DEF StartupInv, vars, arguments, devices
<1>2. TypeOK'
  BY <1>1 DEF TypeOK
<1>3. /\ Taken' = Taken /\ OptionsAt' = OptionsAt /\ OptionsRead' = OptionsRead /\ Done' = Done
      /\ \A i : WellFormed(i)' <=> WellFormed(i)
  <2>1. /\ OptionsAt' = OptionsAt /\ OptionsRead' = OptionsRead /\ Taken' = Taken
        /\ \A i : WellFormed(i)' <=> WellFormed(i)
    BY <1>1, LineUnchanged DEF Taken
  <2> QED
    BY <2>1 DEF Done
<1>4. Reading'
  BY <1>1, <1>3 DEF Reading
<1>5. Arguments'
  BY <1>1, <1>3 DEF Arguments, TextGiven, NumberGiven, IsLast, ClientOptions
<1>6. Parsed'
  <2>1. \A option, n : IsValueOf(n, option)' <=> IsValueOf(n, option)
    BY <1>1, <1>3 DEF IsValueOf, LastValue, LastOccurrence, Occurrences
  <2> QED
    BY <1>1, <1>3, <2>1 DEF Parsed
<1>7. Resources'
  BY <1>1, StageStays DEF Resources
<1> QED
  BY <1>2, <1>4, <1>5, <1>6, <1>7 DEF StartupInv

LEMMA NextInv ==
  ASSUME StartupInv, [Next]_vars
  PROVE  StartupInv'
<1>1. CASE ReadString
  BY <1>1, ReadStringInv
<1>2. CASE ReadInt
  BY <1>2, ReadIntInv
<1>3. CASE ReadKeySink
  BY <1>3, ReadKeySinkInv
<1>4. CASE ReadHelp
  BY <1>4, ReadHelpInv
<1>5. CASE InvalidArgument
  BY <1>5, InvalidArgumentInv
<1>6. CASE ParseReturns
  BY <1>6, ParseReturnsInv
<1>7. CASE CallGranted
  BY <1>7, CallGrantedInv
<1>8. CASE CallRefused
  BY <1>8, CallRefusedInv
<1>9. CASE InitReturns
  BY <1>9, InitReturnsInv
<1>10. CASE LoopEnds
  BY <1>10, LoopEndsInv
<1>11. CASE Unwind
  BY <1>11, UnwindInv
<1>12. CASE Ended
  BY <1>12, StutterInv DEF Ended
<1>13. CASE UNCHANGED vars
  BY <1>13, StutterInv
<1> QED
  BY <1>1, <1>2, <1>3, <1>4, <1>5, <1>6, <1>7, <1>8, <1>9, <1>10, <1>11, <1>12, <1>13 DEF Next

LEMMA Invariant == Spec => []StartupInv
<1>1. Init => StartupInv
  BY InitInv
<1>2. StartupInv /\ [Next]_vars => StartupInv'
  BY NextInv
<1> QED
  BY <1>1, <1>2, PTL DEF Spec

-----------------------------------------------------------------------------
(* What follows from the invariant.                                          *)

\* The state keeps its types for every command line, and main() goes on with
\* octaves the instrument has.
THEOREM TypeCorrect == Spec => []TypeOK
<1>1. StartupInv => TypeOK
  BY DEF StartupInv
<1> QED
  BY <1>1, Invariant, PTL

\* CLIParser::parse reads every command line as its grammar says: the options
\* are those the grammar finds in the whole line, the first that is malformed
\* makes it fail, nothing after --help counts, and of an option given several
\* times the last value holds, octaves made the nearest the instrument has.
THEOREM ReadsCommandLine == Spec => []ReadsTheCommandLine
<1>1. ASSUME StartupInv PROVE ReadsTheCommandLine
  <2>1. TypeOK /\ Reading /\ Parsed
    BY <1>1 DEF StartupInv
  <2>2. CASE stage = "parse"
    BY <2>2 DEF ReadsTheCommandLine
  <2>3. CASE stage = "failed"
    BY <2>1, <2>3 DEF Parsed, ReadsTheCommandLine
  <2>4. CASE stage \notin {"parse", "failed"}
    <3>1. (argv = <<>> \/ ended) /\ (ended <=> stage = "help")
      BY <2>1, <2>4 DEF Parsed
    <3>2. OptionsRead = Done /\ \A i \in OptionsRead : WellFormed(i)
      BY <2>1, <3>1, DoneIsRead DEF Reading
    <3>3. Occurrences({"--help"}) # {} <=> ended
      <4>1. ended => \E h \in OptionsRead : line[h] = "--help"
        BY <2>1, <3>2 DEF Reading
      <4>2. ~ended => \A h \in OptionsRead : line[h] # "--help"
        BY <2>1, <3>2 DEF Reading
      <4> QED
        BY <4>1, <4>2 DEF Occurrences
    <3>4. stage # "help" => \A option \in IntOptions : IsValueOf(ints[option], option)
      BY <2>1, <2>4 DEF Parsed
    <3> QED
      BY <2>4, <3>1, <3>2, <3>3, <3>4 DEF ReadsTheCommandLine
  <2> QED
    BY <2>2, <2>3, <2>4
<1> QED
  BY <1>1, Invariant, PTL

\* The device of a text that was given.
LEMMA DeviceGiven ==
  ASSUME OptionsRead \in SUBSET Nat, NEW options, NEW text, TextGiven(text, options, OptionsRead)
  PROVE  /\ text # Empty => LastValue(options) = {text}
         /\ LastValue(options) \ {Empty} = {text} \ {Empty}
<1>1. CASE \A i \in OptionsRead : line[i] \notin options
  <2>1. LastValue(options) = {} /\ text = Empty
    BY <1>1, LastValueIs DEF TextGiven
  <2> QED
    BY <2>1
<1>2. CASE ~\A i \in OptionsRead : line[i] \notin options
  <2>1. PICK i \in OptionsRead : IsLast(i, options, OptionsRead) /\ text = line[i + 1]
    BY <1>2 DEF TextGiven
  <2>2. LastValue(options) = {text}
    BY <2>1, LastValueIs
  <2> QED
    BY <2>2
<1> QED
  BY <1>1, <1>2

\* Nothing but the source differs from what is asked for, and that only if a
\* MIDI device is named after a UDP port.
LEMMA AskedAreOpen ==
  ASSUME StartupInv, stage = "loop"
  PROVE  /\ Others(DevicesSoFar) = Others(DevicesAsked)
         /\ DevicesSoFar = DevicesAsked \/ UdpThenMidi
<1> DEFINE asked == {Device(KindNamedBy(line[k]), line[k + 1]) : k \in LastOccurrence(SourceOptions)}
           keys == {Device("key_sink", Empty) : k \in Occurrences({"--key-sink"})}
           sinks == {Device("udp_sink", name) : name \in LastValue({"--udp-sink"}) \ {Empty}}
           rest == keys \cup sinks \cup {Device("audio", Empty)}
<1>1. TypeOK /\ Reading /\ Arguments /\ Parsed /\ strings.client # Empty
  BY DEF StartupInv, Resources
<1>2. OptionsRead = Done
  BY <1>1, DoneIsRead DEF Parsed
<1>3. OptionsRead \in SUBSET Nat
  <2>1. OptionsAt \in SUBSET (1 .. Len(line)) /\ Len(line) \in Nat
    BY <1>1, OptionsAtIs DEF TypeOK
  <2>2. \A i \in OptionsRead : i \in Nat
    BY <2>1 DEF OptionsRead
  <2> QED
    BY <2>2
<1>4. PICK i \in OptionsRead : IsLast(i, SourceOptions, OptionsRead) /\ strings.client = line[i + 1]
  <2>1. TextGiven(strings.client, SourceOptions, OptionsRead)
    BY <1>1, <1>2 DEF Arguments, ClientOptions, SourceOptions
  <2> QED
    BY <1>1, <2>1 DEF TextGiven
<1>5. LastOccurrence(SourceOptions) = {i} /\ line[i] \in SourceOptions
  BY <1>3, <1>4, LastValueIs DEF IsLast
<1>6. LastValue({"--udp-sink"}) \ {Empty} = {strings.udp_sink} \ {Empty}
  <2>1. TextGiven(strings.udp_sink, {"--udp-sink"}, OptionsRead)
    BY <1>1, <1>2 DEF Arguments
  <2> QED
    BY <1>3, <2>1, DeviceGiven
<1>7. /\ "udp_source" \in flags <=> Occurrences({"--udp-source"}) # {}
      /\ "key_sink" \in flags <=> Occurrences({"--key-sink"}) # {}
  BY <1>1, <1>2 DEF Arguments, Occurrences
<1>8. DevicesSoFar = {Device(SourceKind, strings.client)} \cup rest
  <2>1. DevicesSoFar = DevicesOf("source") \cup DevicesOf("keys") \cup DevicesOf("sink")
                         \cup DevicesOf("bind") \cup DevicesOf("backend")
    BY DEF DevicesSoFar, DevicesBefore, Before
  <2>2. DevicesOf("keys") = keys
    BY <1>7 DEF DevicesOf
  <2>3. DevicesOf("sink") = sinks
    BY <1>6 DEF DevicesOf
  <2>4. /\ DevicesOf("source") = {Device(SourceKind, strings.client)}
        /\ DevicesOf("bind") = {} /\ DevicesOf("backend") = {Device("audio", Empty)}
    BY DEF DevicesOf
  <2> QED
    BY <2>1, <2>2, <2>3, <2>4
<1>9. DevicesAsked = asked \cup rest /\ asked = {Device(KindNamedBy(line[i]), line[i + 1])}
  BY <1>5 DEF DevicesAsked
<1>10. \A d \in asked \cup {Device(SourceKind, strings.client)} :
         d.kind \in {"udp_source", "midi_source"}
  BY <1>9 DEF Device, KindNamedBy, SourceKind
<1>11. SourceKind = KindNamedBy(line[i]) \/ UdpThenMidi
  <2>1. CASE line[i] = "--udp-source"
    <3>1. i \in Occurrences({"--udp-source"})
      BY <2>1 DEF Occurrences
    <3> QED
      BY <1>7, <2>1, <3>1 DEF SourceKind, KindNamedBy
  <2>2. CASE line[i] = "--midi-source"
    BY <1>5, <1>7, <2>2 DEF SourceKind, KindNamedBy, UdpThenMidi
  <2> QED
    BY <1>5, <2>1, <2>2 DEF SourceOptions
<1> HIDE DEF asked, rest
<1>12. Others(DevicesSoFar) = Others(rest) /\ Others(DevicesAsked) = Others(rest)
  BY <1>8, <1>9, <1>10 DEF Others
<1>13. SourceKind = KindNamedBy(line[i]) => DevicesSoFar = DevicesAsked
  BY <1>4, <1>8, <1>9
<1> QED
  BY <1>11, <1>12, <1>13

LEMMA UsedAreHeld ==
  ASSUME TypeOK, stage = "loop"
  PROVE  HandlesSoFar = UNION {HandlesUsed(d.kind, platform) : d \in DevicesSoFar}
<1>1. platform \in {"linux", "win32"} /\ SourceKind \in {"udp_source", "midi_source"}
  BY DEF TypeOK, SourceKind
<1>2. /\ \A d \in DevicesOf("source") : d.kind = SourceKind
      /\ \A d \in DevicesOf("keys") : d.kind = "key_sink"
      /\ \A d \in DevicesOf("sink") : d.kind = "udp_sink"
      /\ \A d \in DevicesOf("backend") : d.kind = "audio"
  BY DEF DevicesOf, Device
<1>3. ASSUME NEW at \in Openings
      PROVE  StageHandles(at) = UNION {HandlesUsed(d.kind, platform) : d \in DevicesOf(at)}
  <2>1. CASE at = "source"
    <3>1. StageHandles(at) = HandlesUsed(SourceKind, platform)
      BY <1>1, <2>1 DEF StageHandles, HandlesUsed, Reference
    <3>2. DevicesOf(at) # {} /\ \A d \in DevicesOf(at) : d.kind = SourceKind
      BY <1>2, <2>1 DEF DevicesOf
    <3> QED
      BY <3>1, <3>2
  <2>2. CASE at = "keys"
    <3>1. StageHandles(at) = IF DevicesOf(at) = {} THEN {} ELSE HandlesUsed("key_sink", platform)
      BY <1>1, <2>2 DEF StageHandles, HandlesUsed, DevicesOf
    <3>2. \A d \in DevicesOf(at) : d.kind = "key_sink"
      BY <1>2, <2>2
    <3> QED
      BY <3>1, <3>2
  <2>3. CASE at = "sink"
    <3>1. StageHandles(at) = IF DevicesOf(at) = {} THEN {} ELSE HandlesUsed("udp_sink", platform)
      BY <1>1, <2>3 DEF StageHandles, HandlesUsed, DevicesOf, Reference
    <3>2. \A d \in DevicesOf(at) : d.kind = "udp_sink"
      BY <1>2, <2>3
    <3> QED
      BY <3>1, <3>2
  <2>4. CASE at = "bind"
    BY <2>4 DEF StageHandles, DevicesOf
  <2>5. CASE at = "backend"
    <3>1. StageHandles(at) = HandlesUsed("audio", platform) /\ DevicesOf(at) # {}
      BY <1>1, <2>5 DEF StageHandles, HandlesUsed, DevicesOf, PulseHandles, WasapiHandles
    <3>2. \A d \in DevicesOf(at) : d.kind = "audio"
      BY <1>2, <2>5
    <3> QED
      BY <3>1, <3>2
  <2> QED
    BY <2>1, <2>2, <2>3, <2>4, <2>5 DEF Openings
<1>4. HandlesSoFar = UNION {StageHandles(s) : s \in Openings}
  BY DEF HandlesSoFar, HandlesBefore, Before, Openings
<1>5. DevicesSoFar = UNION {DevicesOf(s) : s \in Openings}
  BY DEF DevicesSoFar, DevicesBefore, Before, Openings
<1>6. HandlesSoFar \subseteq UNION {HandlesUsed(d.kind, platform) : d \in DevicesSoFar}
  BY <1>3, <1>4, <1>5
<1>7. UNION {HandlesUsed(d.kind, platform) : d \in DevicesSoFar} \subseteq HandlesSoFar
  BY <1>3, <1>4, <1>5
<1> QED
  BY <1>6, <1>7

\* On Linux nothing is taken that no destructor releases.
KeepsNone == platform = "linux" => handles \cap NeverReleased = {}

LEMMA KeepsNoneNext ==
  ASSUME StartupInv, KeepsNone, [Next]_vars
  PROVE  KeepsNone'
<1>1. platform' = platform
  BY DEF Next, ReadString, ReadInt, ReadKeySink, ReadHelp, InvalidArgument, ParseReturns,
         CallGranted, CallRefused, InitReturns, LoopEnds, Unwind, Destroy, Ended, vars
<1>2. CASE CallGranted
  <2>1. /\ TypeOK /\ Opening /\ made \in 0 .. Len(StageCalls) /\ made < Len(StageCalls)
        /\ handles' = (handles \cup NextCall.takes) \ NextCall.gives
    BY <1>2 DEF StartupInv, Resources, CallGranted
  <2>2. NextCall.takes \subseteq StageTakes \cup {"addresses"}
    <3>1. /\ StageCalls \in Seq(Calls)
          /\ \A n \in 1 .. Len(StageCalls) : StageCalls[n].takes \subseteq StageTakes \cup {"addresses"}
      BY <2>1, StageCallsAre DEF LeavesOnly
    <3>2. Len(StageCalls) \in Nat
      BY <3>1, LenProperties
    <3>3. made + 1 \in 1 .. Len(StageCalls)
      BY <2>1, <3>2
    <3> QED
      BY <3>1, <3>3 DEF NextCall
  <2>3. platform = "linux" => (StageTakes \cup {"addresses"}) \cap NeverReleased = {}
    BY <2>1 DEF Opening, StageTakes, StageHandles, Reference, PulseHandles, NeverReleased
  <2> QED
    BY <1>1, <2>1, <2>2, <2>3 DEF KeepsNone
<1>3. CASE ~CallGranted
  <2>1. handles' \subseteq handles
    BY <1>3 DEF Next, ReadString, ReadInt, ReadKeySink, ReadHelp, InvalidArgument, ParseReturns,
                CallRefused, InitReturns, LoopEnds, Unwind, Destroy, Ended, vars, devices
  <2> QED
    BY <1>1, <2>1 DEF KeepsNone
<1> QED
  BY <1>2, <1>3

LEMMA LinuxKeepsNone == Spec => []KeepsNone
<1>1. Init => KeepsNone
  BY DEF Init, KeepsNone
<1>2. StartupInv /\ KeepsNone /\ [Next]_vars => KeepsNone'
  BY KeepsNoneNext
<1> QED
  BY <1>1, <1>2, Invariant, PTL DEF Spec

\* Whatever is asked for, and whichever call of whichever init is refused:
\* main() enters its loop with the devices asked for (but for its source when
\* a MIDI device is named after a UDP port) and hold of what they use.  When
\* it has returned no device is open; nothing is held on Linux, and nothing
\* on Windows but the references to Winsock and COM.
THEOREM HoldsUsed == Spec => []HoldsWhatItUses
<1>1. ASSUME StartupInv, KeepsNone PROVE HoldsWhatItUses
  <2>1. TypeOK /\ Resources
    BY <1>1 DEF StartupInv
  <2>2. ASSUME stage = "loop"
        PROVE  /\ Others(opened) = Others(DevicesAsked)
               /\ opened = DevicesAsked \/ UdpThenMidi
               /\ handles = UNION {HandlesUsed(d.kind, platform) : d \in opened}
    <3>1. opened = DevicesSoFar /\ handles = HandlesSoFar
      BY <2>1, <2>2 DEF Resources
    <3>2. /\ Others(DevicesSoFar) = Others(DevicesAsked)
          /\ DevicesSoFar = DevicesAsked \/ UdpThenMidi
      BY <1>1, <2>2, AskedAreOpen
    <3>3. HandlesSoFar = UNION {HandlesUsed(d.kind, platform) : d \in DevicesSoFar}
      BY <2>1, <2>2, UsedAreHeld
    <3> QED
      BY <3>1, <3>2, <3>3
  <2>3. ASSUME stage \in {"help", "failed"} PROVE opened = {} /\ handles = {}
    BY <2>1, <2>3 DEF Resources
  <2>4. ASSUME stage = "returned"
        PROVE  /\ opened = {}
               /\ handles \subseteq IF platform = "linux" THEN {} ELSE NeverReleased
    <3>1. /\ "addresses" \notin handles
          /\ \A device \in {"backend", "sink", "keys", "source"} :
               /\ handles \cap ReleasedBy(device) = {}
               /\ \A d \in opened : d.kind \notin KindsOf(device)
      BY <2>1, <2>4 DEF Resources, Passed
    <3>2. handles \subseteq NeverReleased
      <4>1. handles \subseteq Handles
        BY <2>1, HandlesAre DEF TypeOK
      <4>2. \A h \in Handles : \/ h \in {"addresses"} \cup NeverReleased
                               \/ \E d \in {"backend", "sink", "keys", "source"} : h \in ReleasedBy(d)
        BY HandlesAre
      <4>3. ASSUME NEW d \in {"backend", "sink", "keys", "source"}, NEW h \in handles
            PROVE  h \notin ReleasedBy(d)
        <5>1. handles \cap ReleasedBy(d) = {}
          BY <3>1
        <5> QED
          BY <5>1
      <4> QED
        BY <3>1, <4>1, <4>2, <4>3
    <3>3. platform = "linux" => handles = {}
      BY <1>1, <3>2 DEF KeepsNone
    <3>4. opened = {}
      <4>1. \A d \in opened : d.kind \in DeviceKinds
        BY <2>1 DEF TypeOK
      <4>2. \A kind \in DeviceKinds :
              \E device \in {"backend", "sink", "keys", "source"} : kind \in KindsOf(device)
        BY DEF DeviceKinds, KindsOf
      <4> QED
        BY <3>1, <4>1, <4>2
    <3> QED
      BY <3>2, <3>3, <3>4
  <2> QED
    BY <2>2, <2>3, <2>4 DEF HoldsWhatItUses
<1> QED
  BY <1>1, Invariant, LinuxKeepsNone, PTL
=============================================================================
