------------------------------ MODULE UdpMirror ------------------------------
(***************************************************************************)
(* Two Bards in coop: the one with --udp-sink plays the notes of its       *)
(* remote window on the second synthesizer and sends them to the other,    *)
(* whose --udp-source plays them on its own keyboard (sussybard.cpp,       *)
(* udp_sink.cpp, midi_source_udp.cpp).  The sender sees of the receiver    *)
(* only its own remote tracker: the mirror is good when the receiver's     *)
(* local tracker agrees with it.  UDP may lose, duplicate and reorder the  *)
(* datagrams, and a datagram has seven bits for the note.                  *)
(***************************************************************************)
EXTENDS Monophony, UdpWire

CONSTANTS
  Notes,            \* note numbers the sender's MIDI source delivers
  MidiTranspose,    \* the sender's --midi-transpose
  BaseKeyUdp,       \* the sender's --base-key-udp
  ActiveOctavesUdp, \* the sender's --active-octaves-udp
  BaseKey,          \* the receiver's --base-key
  ActiveOctaves,    \* the receiver's --active-octaves
  ReceiverTranspose,\* the receiver's --midi-transpose
  MaxInFlight       \* bound: datagrams in flight

ASSUME MirrorConstants ==
  /\ Notes \in SUBSET (0 .. 127)
  /\ MidiTranspose \in Int
  /\ BaseKeyUdp \in Int /\ ActiveOctavesUdp \in Int
  /\ BaseKey \in Int /\ ActiveOctaves \in Int
  /\ ReceiverTranspose \in Int
  /\ MaxInFlight \in Nat

\* The two command lines go together: the sender's remote window is the
\* receiver's local one.
ASSUME WindowsMatch ==
  /\ BaseKey = BaseKeyUdp + ReceiverTranspose
  /\ TrackerRange(ActiveOctaves) = TrackerRange(ActiveOctavesUdp)

VARIABLES
  remote,      \* the sender's remote.pressed_note_offset
  local,       \* the receiver's local.pressed_note_offset
  inFlight,    \* datagrams in the network, in the order they were sent
  lastSent,    \* history: the last event sent ({} before the first)
  lastReceived,\* history: the last datagram received ({} before the first)
  disturbed    \* history: a datagram was lost or overtaken, or a note did
               \* not fit in one

vars == <<remote, local, inFlight, lastSent, lastReceived, disturbed>>

\* What a Bard's handle_note makes of its tracker.
Track(held, base, octaves, note, pressed) ==
  IF NoteIsInRange(base, TrackerRange(octaves), note)
  THEN HandleNote(held, pressed, note - base).held ELSE held

\* The receiver's iteration of the loop for a datagram.
TrackByte(held, byte) ==
  Track(held, BaseKey, ActiveOctaves, ByteNote(byte) + ReceiverTranspose, BytePressed(byte))

\* Notes that a datagram can carry.
WireNotes == 0 .. 127

-----------------------------------------------------------------------------
Init ==
  /\ remote = NoKey /\ local = NoKey
  /\ inFlight = <<>>
  /\ lastSent = {} /\ lastReceived = {} /\ disturbed = FALSE

\* A plausible bug: the offset in the sender's window is sent, not the note.
SendOffset(note, pressed) ==
  /\ Len(inFlight) < MaxInFlight
  /\ NoteIsInRange(BaseKeyUdp, TrackerRange(ActiveOctavesUdp), note)
  /\ remote' = Track(remote, BaseKeyUdp, ActiveOctavesUdp, note, pressed)
  /\ inFlight' = Append(inFlight, SendByte(note - BaseKeyUdp, pressed))
  /\ lastSent' = {[note |-> note, pressed |-> pressed]}
  /\ disturbed' = (disturbed \/ note \notin WireNotes)
  /\ UNCHANGED <<local, lastReceived>>

\* The sender's iteration for a note of its remote window (others are not
\* sent and leave its remote tracker alone).
SendNote(note, pressed) ==
  /\ Len(inFlight) < MaxInFlight
  /\ NoteIsInRange(BaseKeyUdp, TrackerRange(ActiveOctavesUdp), note)
  /\ remote' = Track(remote, BaseKeyUdp, ActiveOctavesUdp, note, pressed)
  /\ inFlight' = Append(inFlight, SendByte(note, pressed))
  /\ lastSent' = {[note |-> note, pressed |-> pressed]}
  /\ disturbed' = (disturbed \/ note \notin WireNotes)
  /\ UNCHANGED <<local, lastReceived>>

Without(i) ==
  SubSeq(inFlight, 1, i - 1) \o SubSeq(inFlight, i + 1, Len(inFlight))

\* The receiver's iteration for a datagram, which may overtake older ones and
\* may be a duplicate that leaves another copy behind.
Receive(i, duplicated) ==
  /\ local' = TrackByte(local, inFlight[i])
  /\ inFlight' = IF duplicated THEN inFlight ELSE Without(i)
  /\ lastReceived' = {inFlight[i]}
  /\ disturbed' = (disturbed \/ i # 1)
  /\ UNCHANGED <<remote, lastSent>>

\* The network loses a datagram.
Lose(i) ==
  /\ inFlight' = Without(i)
  /\ disturbed' = TRUE
  /\ UNCHANGED <<remote, local, lastSent, lastReceived>>

Next ==
  \/ \E n \in Notes, pressed \in BOOLEAN : SendNote(n + MidiTranspose, pressed)
  \/ \E i \in DOMAIN inFlight : (\E duplicated \in BOOLEAN : Receive(i, duplicated)) \/ Lose(i)

Spec == Init /\ [][Next]_vars

-----------------------------------------------------------------------------
\* Types of the state.
TypeOK ==
  /\ remote \in Offsets \cup {NoKey} /\ local \in Offsets \cup {NoKey}
  /\ inFlight \in Seq(Bytes)
  /\ lastSent \in SUBSET [note : Int, pressed : BOOLEAN]
  /\ lastReceived \in SUBSET Bytes
  /\ disturbed \in BOOLEAN

\* As long as nothing is lost or overtaken and the notes fit in a datagram,
\* once every datagram has been received, some of them more than once, the
\* receiver holds the note the sender thinks it holds (midi_source_udp.cpp:71
\* against udp_sink.cpp:78).
MirrorsWhenReceived == inFlight = <<>> /\ ~disturbed => local = remote

\* Whatever was lost, repeated or overtaken before it, a press that is the
\* last thing sent and the last received puts the receiver in step with the
\* sender again: no stuck or missing note outlives the next press.
PressResynchronizes ==
  \A ev \in lastSent :
    /\ ev.pressed /\ ev.note \in WireNotes
    /\ lastReceived = {SendByte(ev.note, ev.pressed)}
    => local = remote
=============================================================================
