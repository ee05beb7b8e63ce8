------------------------------ MODULE MidiQueue ------------------------------
(***************************************************************************)
(* MIDISourceMM (midi_source_win32.cpp): the driver's thread decodes MIDI  *)
(* messages (midi_callback) and pushes note events under a mutex (key_on,  *)
(* key_off); main() takes them one at a time, waiting on a condition       *)
(* variable while there is none (wait_next_note_event).  The driver calls  *)
(* back as soon as init has started the device, while main() is still      *)
(* opening the others, any of which may fail and end main().  A critical   *)
(* section is a step; waiting gives the mutex up and is two.               *)
(***************************************************************************)
EXTENDS Integers, Sequences

CONSTANTS
  Keys,         \* keys of the MIDI keyboard
  MaxMessages   \* bound: messages in a behaviour

ASSUME QueueConstants == Keys \subseteq 0 .. 127 /\ MaxMessages \in Nat

VARIABLES
  noteQueue,   \* note_queue
  device,      \* the MIDI device: "closed", "open" or "started"
  waiter,      \* main(): "init", "starting" (opening the other devices), then
               \* in its loop "away", "sleeping" in cond.wait, or "woken"; or
               \* "returned"
  keysHeld,    \* the keyboard: keys that are down
  messages,    \* how many messages the driver has delivered
  pushed,      \* history: every event pushed
  taken        \* history: every event main() has taken

vars == <<noteQueue, device, waiter, keysHeld, messages, pushed, taken>>

NoteEvents == [note : Keys, pressed : BOOLEAN]

-----------------------------------------------------------------------------
(* MIDI messages: a note-on, a note-off, the note-on of velocity 0 that many *)
(* keyboards send for a note-off, and others, here control changes.          *)
NoteOn == 144
NoteOff == 128
ControlChange == 176

Message(status, key, velocity) == [status |-> status, key |-> key, velocity |-> velocity]

\* A plausible bug: every note-on is a press.
EveryNoteOnPresses(msg) ==
  IF msg.status = NoteOn THEN {[note |-> msg.key, pressed |-> TRUE]}
  ELSE IF msg.status = NoteOff THEN {[note |-> msg.key, pressed |-> FALSE]}
  ELSE {}

\* midi_callback: the event of a message, none for other messages.
EventsOf(msg) ==
  IF msg.status = NoteOn /\ msg.velocity > 0
  THEN {[note |-> msg.key, pressed |-> TRUE]}
  ELSE IF msg.status = NoteOff \/ (msg.status = NoteOn /\ msg.velocity = 0)
  THEN {[note |-> msg.key, pressed |-> FALSE]}
  ELSE {}

\* A plausible bug: a push does not notify.
NotifyNobody == UNCHANGED waiter

\* cond.notify_one
Notify == waiter' = IF waiter = "sleeping" THEN "woken" ELSE waiter

\* The driver delivers a message.
Deliver(msg) ==
  /\ device = "started"
  /\ messages < MaxMessages
  /\ messages' = messages + 1
  /\ IF EventsOf(msg) = {} THEN UNCHANGED <<noteQueue, pushed, waiter>>
     ELSE \E ev \in EventsOf(msg) :
            /\ noteQueue' = Append(noteQueue, ev)
            /\ pushed' = Append(pushed, ev)
            /\ Notify
  /\ UNCHANGED <<device, taken>>

\* The player presses or releases a key, or does something else.
Press(key) ==
  /\ key \notin keysHeld
  /\ Deliver(Message(NoteOn, key, 64))
  /\ keysHeld' = keysHeld \cup {key}

Release(key) ==
  /\ key \in keysHeld
  /\ Deliver(Message(NoteOff, key, 0)) \/ Deliver(Message(NoteOn, key, 0))
  /\ keysHeld' = keysHeld \ {key}

TurnKnob(key) ==
  /\ Deliver(Message(ControlChange, key, 64))
  /\ UNCHANGED keysHeld

\* front() and pop(), and the return to main().
TakeFront ==
  /\ noteQueue # <<>>
  /\ taken' = Append(taken, Head(noteQueue))
  /\ noteQueue' = Tail(noteQueue)
  /\ waiter' = "away"

\* A plausible bug: the woken waiter pops without testing the queue again.
PopOnWakeup ==
  /\ waiter \in {"away", "woken"}
  /\ \/ /\ waiter = "woken" \/ noteQueue # <<>>
        /\ taken' = Append(taken, IF noteQueue = <<>> THEN [note |-> 0, pressed |-> FALSE]
                                                      ELSE Head(noteQueue))
        /\ noteQueue' = IF noteQueue = <<>> THEN <<>> ELSE Tail(noteQueue)
        /\ waiter' = "away"
     \/ waiter = "away" /\ noteQueue = <<>> /\ waiter' = "sleeping" /\ UNCHANGED <<noteQueue, taken>>
  /\ UNCHANGED <<device, keysHeld, messages, pushed>>

\* main() calls wait_next_note_event, or wakes in it: it takes an event if
\* there is one and sleeps if there is none.
WaitNextNoteEvent ==
  /\ waiter \in {"away", "woken"}
  /\ \/ TakeFront
     \/ noteQueue = <<>> /\ waiter' = "sleeping" /\ UNCHANGED <<noteQueue, taken>>
  /\ UNCHANGED <<device, keysHeld, messages, pushed>>

\* A condition variable may wake its waiter without a notification.
SpuriousWakeup ==
  /\ waiter = "sleeping" /\ waiter' = "woken"
  /\ UNCHANGED <<noteQueue, device, keysHeld, messages, pushed, taken>>

-----------------------------------------------------------------------------
\* MIDISourceMM::init: a device that does not start is reported and no more.
OpenDevice ==
  /\ waiter = "init"
  /\ \/ waiter' = "starting" /\ device' \in {"open", "started"}
     \/ waiter' = "returned" /\ UNCHANGED device
  /\ UNCHANGED <<noteQueue, keysHeld, messages, pushed, taken>>

\* The other devices are open, and main() enters its loop.
EnterLoop ==
  /\ waiter = "starting" /\ waiter' = "away"
  /\ UNCHANGED <<noteQueue, device, keysHeld, messages, pushed, taken>>

\* Another device has failed: main() returns, which closes this one
\* (~MIDISourceMM).
LeaveStartup ==
  /\ waiter = "starting" /\ waiter' = "returned"
  /\ device' = "closed"
  /\ UNCHANGED <<noteQueue, keysHeld, messages, pushed, taken>>

\* The event in hand cannot be sent to the partner: the loop breaks and main()
\* returns, which closes this device too.
LeaveLoop ==
  /\ waiter = "away" /\ taken # <<>>
  /\ waiter' = "returned"
  /\ device' = "closed"
  /\ UNCHANGED <<noteQueue, keysHeld, messages, pushed, taken>>

Init ==
  /\ noteQueue = <<>> /\ device = "closed" /\ waiter = "init"
  /\ keysHeld = {} /\ messages = 0
  /\ pushed = <<>> /\ taken = <<>>

Next ==
  \/ \E key \in Keys : Press(key) \/ Release(key) \/ TurnKnob(key)
  \/ OpenDevice \/ EnterLoop \/ LeaveStartup
  \/ WaitNextNoteEvent \/ LeaveLoop
  \/ SpuriousWakeup
  \/ waiter = "returned" /\ UNCHANGED vars

Spec == Init /\ [][Next]_vars

\* main() starts up or returns, plays an event and comes back for the next or
\* leaves.
FairSpec == Spec /\ WF_vars(EnterLoop \/ LeaveStartup) /\ WF_vars(WaitNextNoteEvent)

-----------------------------------------------------------------------------
\* Types of the state.
TypeOK ==
  /\ noteQueue \in Seq(NoteEvents)
  /\ device \in {"closed", "open", "started"}
  /\ waiter \in {"init", "starting", "away", "sleeping", "woken", "returned"}
  /\ keysHeld \subseteq Keys
  /\ messages \in 0 .. MaxMessages
  /\ pushed \in Seq(NoteEvents) /\ taken \in Seq(NoteEvents)

\* main() is given every event once and in the order of the messages, through
\* every wakeup (midi_source_win32.cpp:50-73).
Fifo == INSTANCE NoteFifo WITH Words <- NoteEvents, queue <- noteQueue, heard <- taken
FifoSpec == Fifo!Spec

\* Every event is taken in the end, those that came before main() entered its
\* loop too, unless main() never does or leaves it: no push finds main() asleep
\* and leaves it so.
EveryEventIsTaken ==
  \A n \in 1 .. MaxMessages : Len(pushed) >= n ~> (Len(taken) >= n \/ waiter = "returned")

LastOf(key) == {i \in DOMAIN pushed : pushed[i].note = key
                                      /\ \A j \in DOMAIN pushed : pushed[j].note = key => j <= i}

\* The events tell which keys are down, in both ways of saying note-off: a key
\* is down if and only if its last event is a press (lines 84-90).
EventsTellKeysHeld ==
  \A key \in Keys : key \in keysHeld <=> \E i \in LastOf(key) : pushed[i].pressed
=============================================================================
