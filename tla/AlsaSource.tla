----------------------------- MODULE AlsaSource -----------------------------
(***************************************************************************)
(* MIDISourceALSA (midi_source_alsa.cpp): main() waits in                  *)
(* wait_next_note_event, which takes events from the sequencer until one   *)
(* is a note.  The sequencer queues the keyboard's events in a pool of     *)
(* limited size; when it is full events are lost, and the next read of the *)
(* pool fails, with the pool emptied.  The library reads the whole pool at *)
(* once into a buffer of its own and hands out of that one event a time.   *)
(***************************************************************************)
EXTENDS Integers, Sequences, FiniteSets

CONSTANTS
  AlsaKeys,    \* keys of the MIDI keyboard
  PoolSize,    \* events the sequencer can hold for the client
  MaxEvents    \* bound: events in a behaviour

ASSUME AlsaConstants == PoolSize \in Nat /\ MaxEvents \in Nat

VARIABLES
  pool,        \* events in the sequencer's pool
  overrun,     \* an event has been lost since the last read of the pool
  buffer,      \* events the library has read and not handed out
  loop,        \* main()'s loop: "waits" for an event, or has "ended"
  delivered,   \* history: the events the keyboard has sent
  given        \* history: the notes main() has been given

alsaVars == <<pool, overrun, buffer, loop, delivered, given>>

\* Sequencer events.  Those that are no notes have something else where the
\* note would be.
NoNote == -1
SeqEvents ==
  [type : {"noteon", "noteoff"}, note : AlsaKeys, velocity : {0, 64}]
    \cup [type : {"controller"}, note : {NoNote}, velocity : {64}]

AlsaNotes == [note : AlsaKeys, pressed : BOOLEAN]

\* A plausible bug: whatever is not a press is a release.
AnyEventIsANote(ev) ==
  {[note |-> ev.note, pressed |-> ev.type = "noteon" /\ ev.velocity > 0]}

\* The note event of a sequencer event, none for most types.
NotesOf(ev) ==
  IF ev.type = "noteon" /\ ev.velocity > 0
  THEN {[note |-> ev.note, pressed |-> TRUE]}
  ELSE IF ev.type = "noteoff" \/ (ev.type = "noteon" /\ ev.velocity = 0)
  THEN {[note |-> ev.note, pressed |-> FALSE]}
  ELSE {}

-----------------------------------------------------------------------------
AlsaInit ==
  /\ pool = <<>> /\ overrun = FALSE /\ buffer = <<>>
  /\ loop = "waits"
  /\ delivered = <<>> /\ given = <<>>

\* The keyboard sends an event, which fits in the pool or is lost.
SendEvent(ev) ==
  /\ Len(delivered) < MaxEvents
  /\ delivered' = Append(delivered, ev)
  /\ IF Len(pool) < PoolSize
     THEN pool' = Append(pool, ev) /\ UNCHANGED overrun
     ELSE overrun' = TRUE /\ UNCHANGED pool
  /\ UNCHANGED <<buffer, loop, given>>

\* snd_seq_event_input finds its buffer empty and reads the pool.
ReadPool ==
  /\ loop = "waits" /\ buffer = <<>>
  /\ ~overrun /\ pool # <<>>
  /\ buffer' = pool /\ pool' = <<>>
  /\ UNCHANGED <<overrun, loop, delivered, given>>

\* snd_seq_event_input hands out an event: the loop of wait_next_note_event
\* goes on, or returns a note, and main() comes back for the next or, if it
\* cannot be sent to the partner, breaks its loop.
HandOut ==
  /\ loop = "waits" /\ buffer # <<>>
  /\ IF NotesOf(Head(buffer)) = {} THEN UNCHANGED <<given, loop>>
     ELSE /\ \E note \in NotesOf(Head(buffer)) : given' = Append(given, note)
          /\ loop' \in {"waits", "ended"}
  /\ buffer' = Tail(buffer)
  /\ UNCHANGED <<pool, overrun, delivered>>

\* A plausible bug: the error is reported and the loop goes on.
RetryInput ==
  /\ loop = "waits" /\ buffer = <<>> /\ overrun
  /\ pool' = <<>> /\ overrun' = FALSE
  /\ UNCHANGED <<buffer, loop, delivered, given>>

\* snd_seq_event_input returns -ENOSPC: wait_next_note_event returns false and
\* main()'s loop ends.
InputFails ==
  /\ loop = "waits" /\ buffer = <<>> /\ overrun
  /\ pool' = <<>> /\ overrun' = FALSE
  /\ loop' = "ended"
  /\ UNCHANGED <<buffer, delivered, given>>

AlsaInput == ReadPool \/ HandOut \/ InputFails

AlsaNext == (\E ev \in SeqEvents : SendEvent(ev)) \/ AlsaInput

AlsaSpec == AlsaInit /\ [][AlsaNext]_alsaVars

\* main() keeps coming back for events.
AlsaFairSpec == AlsaSpec /\ WF_alsaVars(AlsaInput)

-----------------------------------------------------------------------------
\* Types of the state.
AlsaTypeOK ==
  /\ pool \in Seq(SeqEvents) /\ Len(pool) <= PoolSize
  /\ overrun \in BOOLEAN
  /\ buffer \in Seq(SeqEvents)
  /\ loop \in {"waits", "ended"}
  /\ delivered \in Seq(SeqEvents)
  /\ given \in Seq(AlsaNotes)

\* The positions of the notes among the first n events of the keyboard.
NotesIn(n) == {i \in 1 .. n : NotesOf(delivered[i]) # {}}

\* main() has been given the notes of the first n events, in their order.
GivenFirst(n) ==
  /\ Len(given) = Cardinality(NotesIn(n))
  /\ \A i \in 1 .. n : NotesOf(delivered[i]) # {}
        => NotesOf(delivered[i]) = {given[Cardinality(NotesIn(i))]}

\* main() never plays on past an event that was lost: what it has been given
\* is what the keyboard has played up to some moment, with no hole
\* (midi_source_alsa.cpp:32-37; a lost release would be a stuck note).
NoHoleInTheNotes == \E n \in 0 .. Len(delivered) : GivenFirst(n)

\* Every event is taken in the end, or the loop ends.
NotesTakenOrLoopEnds ==
  \A n \in 1 .. MaxEvents :
    Len(delivered) = n ~> (loop = "ended" \/ GivenFirst(Len(delivered)))
=============================================================================
