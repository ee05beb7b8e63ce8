------------------------------ MODULE NoteRouter ------------------------------
(***************************************************************************)
(* main() of sussybard.cpp from the point where the audio backend runs:    *)
(* the loop that takes note events from the MIDI source, mirrors them to   *)
(* the UDP sink, plays them on the two players' trackers, and the exit     *)
(* path that releases the key still held.  The main thread runs beside the *)
(* consumers of what it produces: the window system, which replays key     *)
(* requests, the audio thread, which applies the posted words to the       *)
(* synthesizer, and the network, which takes the datagrams.  One iteration *)
(* of the loop is one action: nothing but these queues is shared, and each *)
(* is consumed one entry at a time.                                        *)
(***************************************************************************)
EXTENDS KeySink, SynthNotes, UdpWire, FiniteSets

CONSTANTS
  Notes,            \* note numbers the MIDI source delivers
  MidiTranspose,    \* --midi-transpose
  BaseKey,          \* --base-key and --base-key-udp
  ActiveOctaves,    \* --active-octaves and --active-octaves-udp
  SynthTranspose,   \* --synth-transpose and --synth-transpose-udp
  HasKeySink,       \* --key-sink
  HasUdpSink,       \* --udp-sink
  MaxQueued         \* bound: the loop waits while a queue is longer

Players == {"local", "remote"}

ASSUME RouterConstants ==
  /\ Notes \in SUBSET (0 .. 127)
  /\ MidiTranspose \in Int
  /\ BaseKey \in [Players -> Int]
  /\ ActiveOctaves \in [Players -> Int]
  /\ SynthTranspose \in [Players -> Int]
  /\ HasKeySink \in BOOLEAN
  /\ HasUdpSink \in BOOLEAN
  /\ MaxQueued \in Nat

VARIABLES
  phase,       \* "loop", then "exit" (the loop has broken), then "done"
  wire,        \* datagrams sent and not taken by the network yet
  held,        \* pressed_note_offset of each player's MonophonyTracker
  noteQueue,   \* words posted to the synthesizer and not applied yet
  sounding,    \* per synthesizer channel, the keys whose voices are on
  notesDown,   \* history: notes whose last event in the loop was a press
  lastPressed  \* history: per player, the set of the last note it was given
               \* a press of ({} before the first)

routerVars == <<phase, wire, held, noteQueue, sounding, notesDown, lastPressed>>
vars == <<keySinkVars, routerVars>>

-----------------------------------------------------------------------------
Events == [note : {n + MidiTranspose : n \in Notes}, pressed : BOOLEAN]

Channel(p) == IF p = "local" THEN 0 ELSE 1

InRange(p, note) == NoteIsInRange(BaseKey[p], TrackerRange(ActiveOctaves[p]), note)

\* A plausible bug: the local player also plays what the partner plays.
HandlesBoth(p, note) == InRange(p, note)

\* Whether the loop ends up in handle_note's body for a player: the remote
\* one is asked first and, with a UDP sink, the local one only if it declined.
Handles(p, note) ==
  /\ InRange(p, note)
  /\ p = "local" => ~HasUdpSink \/ ~InRange("remote", note)

Outcome(p, ev) ==
  IF Handles(p, ev.note) THEN HandleNote(held[p], ev.pressed, ev.note - BaseKey[p])
                         ELSE Nothing(held[p])

WordOf(p, post) ==
  PostNote(Channel(p), post.on, post.key + BaseKey[p] + SynthTranspose[p])

WordsOf(p, posts) == [i \in DOMAIN posts |-> WordOf(p, posts[i])]

QueuesAdmit ==
  /\ Len(keyQueue) <= MaxQueued
  /\ Len(noteQueue) <= MaxQueued
  /\ Len(wire) <= MaxQueued

\* The loop sends an event to the partner before it plays it.
Mirrors(ev) == HasUdpSink /\ InRange("remote", ev.note)


\* Both calls of handle_note in one iteration, the remote player's first.
PlayNote(ev) ==
  LET local  == Outcome("local", ev)
      remote == Outcome("remote", ev)
  IN  /\ held' = [p \in Players |-> Outcome(p, ev).held]
      /\ noteQueue' = noteQueue \o WordsOf("remote", remote.posts)
                                \o WordsOf("local", local.posts)
      /\ Dispatch(IF HasKeySink THEN local.keys ELSE <<>>)

RecordEvent(ev) ==
  /\ notesDown' = IF ev.pressed THEN notesDown \cup {ev.note}
                                ELSE notesDown \ {ev.note}
  /\ lastPressed' = [p \in Players |-> IF ev.pressed /\ Handles(p, ev.note)
                                       THEN {ev.note} ELSE lastPressed[p]]

-----------------------------------------------------------------------------
\* The backend has started and both trackers are fresh.
Init ==
  /\ KeySinkInit
  /\ phase = "loop"
  /\ wire = <<>>
  /\ held = [p \in Players |-> NoKey]
  /\ noteQueue = <<>>
  /\ sounding = [c \in Channels |-> {}]
  /\ notesDown = {}
  /\ lastPressed = [p \in Players |-> {}]

\* One iteration of the loop (the datagram, if any, was sent).
RouteEvent(ev) ==
  /\ phase = "loop"
  /\ QueuesAdmit
  /\ wire' = IF Mirrors(ev) THEN Append(wire, SendByte(ev.note, ev.pressed)) ELSE wire
  /\ PlayNote(ev)
  /\ RecordEvent(ev)
  /\ UNCHANGED <<phase, sounding>>

\* wait_next_note_event returns false.
SourceFails ==
  /\ phase = "loop"
  /\ phase' = "exit"
  /\ UNCHANGED <<keySinkVars, wire, held, noteQueue, sounding, notesDown, lastPressed>>

\* UDPSink::send returns false: the loop breaks before the event is played.
SendFails(ev) ==
  /\ phase = "loop"
  /\ Mirrors(ev)
  /\ phase' = "exit"
  /\ UNCHANGED <<keySinkVars, wire, held, noteQueue, sounding, notesDown, lastPressed>>

\* A plausible bug: the exit path forgets the key that is held.
ExitKeepsKey == phase = "exit" /\ phase' = "done" /\ UNCHANGED <<keySinkVars, wire, held, noteQueue, sounding, notesDown, lastPressed>>

\* After the loop: release the key the local player holds.
ReleaseOnExit ==
  /\ phase = "exit"
  /\ phase' = "done"
  /\ Dispatch(IF HasKeySink /\ held["local"] >= 0
              THEN <<KeyEvent(held["local"], FALSE)>> ELSE <<>>)
  /\ UNCHANGED <<wire, held, noteQueue, sounding, notesDown, lastPressed>>

\* The window system replays a key request.
ReplayKey ==
  /\ ReplayRequest
  /\ UNCHANGED routerVars

\* The audio thread applies the oldest posted word (the loop body of
\* Synth::mix_samples).
ApplyNote ==
  /\ noteQueue # <<>>
  /\ sounding' = ApplyWord(sounding, Head(noteQueue))
  /\ noteQueue' = Tail(noteQueue)
  /\ UNCHANGED <<keySinkVars, phase, wire, held, notesDown, lastPressed>>

\* The network takes the oldest datagram (UdpMirror follows it further).
TakeDatagram ==
  /\ wire # <<>>
  /\ wire' = Tail(wire)
  /\ UNCHANGED <<keySinkVars, phase, held, noteQueue, sounding, notesDown, lastPressed>>

\* main() has returned and the window system has nothing left to replay.
Terminated == phase = "done" /\ keyQueue = <<>> /\ UNCHANGED vars

Next ==
  \/ \E ev \in Events : RouteEvent(ev) \/ SendFails(ev)
  \/ SourceFails
  \/ ReleaseOnExit
  \/ ReplayKey
  \/ ApplyNote
  \/ TakeDatagram
  \/ Terminated

Spec == Init /\ [][Next]_vars

\* The exit path is straight-line code, and the window system does not stop
\* replaying.  Nothing is assumed of the MIDI source, of the network, or of
\* the audio thread, which pulse.stop() halts.
Fairness == WF_vars(ReleaseOnExit) /\ WF_vars(ReplayKey)

FairSpec == Spec /\ Fairness

-----------------------------------------------------------------------------
\* Types of the state.
TypeOK ==
  /\ KeySinkTypeOK
  /\ phase \in {"loop", "exit", "done"}
  /\ wire \in Seq(Bytes)
  /\ held \in [Players -> Offsets \cup {NoKey}]
  /\ noteQueue \in Seq(SynthWords)
  /\ sounding \in [Channels -> SUBSET FmKeys]
  /\ notesDown \in SUBSET Int
  /\ lastPressed \in [Players -> SUBSET Int]

\* The key that must be down once the window system has caught up with the
\* main thread: the local tracker's, until the exit path has released it.
KeysWanted ==
  IF HasKeySink /\ phase # "done" /\ held["local"] # NoKey
  THEN {CodeTable[held["local"]]} ELSE {}

\* Whenever the window system has replayed every request, exactly the key of
\* the local tracker is down; none, without a key sink or after the exit path
\* (handle_note's two-entry array and lines 278-283 of sussybard.cpp).
KeysFollowTracker == keyQueue = <<>> => keysDown = KeysWanted

\* At no instant does the game see two keys down, or a key pressed again that
\* is down already (sussybard.cpp:242), whatever the key map.
Keyboard == INSTANCE BardKeyboard
KeyboardSpec == Keyboard!Spec

\* The note a player's synthesizer channel must sound once the audio thread
\* has caught up: the tracker's, transposed.
NotesWanted(p) ==
  IF held[p] = NoKey THEN {} ELSE {held[p] + BaseKey[p] + SynthTranspose[p]}

\* Whenever every posted word has been applied, each channel sounds exactly
\* its player's held note: no voice hangs, none is cut (the order of the
\* posts in handle_note, and the encoding of the words).
SynthFollowsTrackers ==
  noteQueue = <<>> => \A p \in Players : sounding[Channel(p)] = NotesWanted(p)

\* What "Simulate the split polyphony we can get per player"
\* (sussybard.cpp:195) and "There is no polyphony" (:242) say of the
\* synthesizer: a player never keeps two notes sounding.
SplitMonophony ==
  noteQueue = <<>> => \A c \in Channels : Cardinality(sounding[c]) <= 1

\* A tracker holds the last note its player was given a press of, for as long
\* as that note is down, and nothing once it is up: a key released late,
\* twice or out of turn neither silences a newer note nor leaves one stuck.
LastNotePriority ==
  \A p \in Players :
    {held[p]} = IF lastPressed[p] # {} /\ lastPressed[p] \subseteq notesDown
                THEN {n - BaseKey[p] : n \in lastPressed[p]} ELSE {NoKey}

\* With a UDP sink the two Bards split the keyboard: they never hold the same
\* note, even one both windows contain (the condition of line 274).
PlayersDisjoint ==
  HasUdpSink /\ held["local"] # NoKey /\ held["remote"] # NoKey
    => held["local"] + BaseKey["local"] # held["remote"] + BaseKey["remote"]

\* Once the loop has broken, for whatever reason, the keyboard is eventually
\* left alone with no key down (lines 278-283).
KeysReleasedAtExit == (phase = "exit") ~> [](keysDown = {})
=============================================================================
