------------------------------ MODULE MainThread ------------------------------
(***************************************************************************)
(* The program from the player's keyboard to the game and to the ear, with *)
(* the loop of main() (sussybard.cpp) at the grain at which its threads    *)
(* see each other: an event is taken from the source's queue, the datagram *)
(* sent, each word stored and published in the ring (SynthRing), each key  *)
(* event handed to the window system (KeySink), while the audio thread     *)
(* reads the ring, the window system replays and the keyboard plays on.    *)
(* NoteRouter makes one step of all this; the module shows that it may.    *)
(* What the main thread keeps to itself, the trackers, changes with the    *)
(* event's first visible effect.                                           *)
(***************************************************************************)
EXTENDS KeySink, SynthNotes, UdpWire, SynthRing

CONSTANTS
  Notes, MidiTranspose, BaseKey, ActiveOctaves, SynthTranspose,
  HasKeySink, HasUdpSink,              \* as in NoteRouter
  MaxMessages                          \* bound: messages of the keyboard

\* Of the ring, its words are those of the synthesizer and a slot that was
\* never stored holds the word 0.
ASSUME MainConstants ==
  /\ Words = SynthWords /\ Zero = [on |-> FALSE, channel |-> 0, key |-> 0]
  /\ Notes \in SUBSET (0 .. 127)
  /\ MidiTranspose \in Int
  /\ BaseKey \in [{"local", "remote"} -> Int]
  /\ ActiveOctaves \in [{"local", "remote"} -> Int]
  /\ SynthTranspose \in [{"local", "remote"} -> Int]
  /\ HasKeySink \in BOOLEAN /\ HasUdpSink \in BOOLEAN
  /\ MaxMessages \in Nat

VARIABLES
  keyboard,     \* the player's keyboard: keys that are down
  messages,     \* how many messages it has sent
  sourceQueue,  \* note events the MIDI source has and main() has not taken
  mainPc,       \* "wait" for an event, "route" it, "play" it, "exit", "done"
  event,        \* the event main() has taken, in a set
  heldNow,      \* pressed_note_offset of each tracker
  toPost,       \* words the current event has still to post
  toDispatch,   \* key events it has still to dispatch
  wire,         \* datagrams sent
  sounding,     \* per synthesizer channel, the keys whose voices are on
  notesDown, lastPressed    \* history, as in NoteRouter

sourceVars == <<keyboard, messages, sourceQueue>>
mainVars == <<mainPc, event, heldNow, toPost, toDispatch, wire, notesDown, lastPressed>>
vars == <<sourceVars, mainVars, keySinkVars, sounding, ringVars>>

-----------------------------------------------------------------------------
(* What NoteRouter sees of this state: an event is played all at once, so    *)
(* that the words and the key events still to come are in its queues, which  *)
(* it lets grow by as much as the messages of the keyboard make them.        *)
UnreadWords == SubSeq(posted, Len(consumed) + 1, Len(posted))
RequestsToCome == [i \in DOMAIN toDispatch |-> Request(toDispatch[i])]

Router == INSTANCE NoteRouter WITH
            MaxQueued <- 4 * MaxMessages,
            phase <- IF mainPc \in {"exit", "done"} THEN mainPc ELSE "loop",
            held <- heldNow,
            noteQueue <- UnreadWords \o toPost,
            keyQueue <- keyQueue \o RequestsToCome

-----------------------------------------------------------------------------
Init ==
  /\ KeySinkInit
  /\ keyboard = {} /\ messages = 0 /\ sourceQueue = <<>>
  /\ mainPc = "wait" /\ event = {}
  /\ heldNow = [p \in Router!Players |-> NoKey]
  /\ toPost = <<>> /\ toDispatch = <<>>
  /\ wire = <<>>
  /\ sounding = [c \in Channels |-> {}]
  /\ notesDown = {} /\ lastPressed = [p \in Router!Players |-> {}]
  /\ RingInit

\* A key of the keyboard goes down or comes up (MidiQueue and AlsaSource have
\* the way to main() in detail).
Play(key, pressed) ==
  /\ messages < MaxMessages
  /\ pressed = (key \notin keyboard)
  /\ keyboard' = IF pressed THEN keyboard \cup {key} ELSE keyboard \ {key}
  /\ messages' = messages + 1
  /\ sourceQueue' = Append(sourceQueue, [note |-> key, pressed |-> pressed])
  /\ UNCHANGED <<mainVars, keySinkVars, sounding, ringVars>>

\* wait_next_note_event returns an event, which is transposed.
TakeEvent ==
  /\ mainPc = "wait" /\ sourceQueue # <<>>
  /\ event' = {[Head(sourceQueue) EXCEPT !.note = @ + MidiTranspose]}
  /\ sourceQueue' = Tail(sourceQueue)
  /\ mainPc' = "route"
  /\ UNCHANGED <<keyboard, messages, heldNow, toPost, toDispatch, wire, notesDown, lastPressed,
                 keySinkVars, sounding, ringVars>>

\* wait_next_note_event returns false.
SourceFails ==
  /\ mainPc = "wait" /\ mainPc' = "exit"
  /\ UNCHANGED <<sourceVars, event, heldNow, toPost, toDispatch, wire, notesDown, lastPressed,
                 keySinkVars, sounding, ringVars>>

\* The datagram, if any, is sent; the trackers decide what to post and what
\* to dispatch, the remote player's first.
Route ==
  /\ mainPc = "route"
  /\ \E ev \in event :
       /\ wire' = IF Router!Mirrors(ev) THEN Append(wire, SendByte(ev.note, ev.pressed))
                                        ELSE wire
       /\ LET outcome(p) == Router!Outcome(p, ev)
          IN  /\ heldNow' = [p \in Router!Players |-> outcome(p).held]
              /\ toPost' = Router!WordsOf("remote", outcome("remote").posts)
                             \o Router!WordsOf("local", outcome("local").posts)
              /\ toDispatch' = IF HasKeySink THEN outcome("local").keys ELSE <<>>
       /\ Router!RecordEvent(ev)
  /\ mainPc' = "play"
  /\ UNCHANGED <<sourceVars, event, keySinkVars, sounding, ringVars>>

\* UDPSink::send returns false.
SendFails ==
  /\ mainPc = "route"
  /\ \E ev \in event : Router!Mirrors(ev)
  /\ mainPc' = "exit"
  /\ UNCHANGED <<sourceVars, event, heldNow, toPost, toDispatch, wire, notesDown, lastPressed,
                 keySinkVars, sounding, ringVars>>

\* The two stores of post_note_on or post_note_off.
StoreWord ==
  /\ mainPc = "play" /\ toPost # <<>>
  /\ StoreSlot(Head(toPost))
  /\ toPost' = Tail(toPost)
  /\ UNCHANGED <<sourceVars, mainPc, event, heldNow, toDispatch, wire, notesDown, lastPressed,
                 keySinkVars, sounding>>

PublishWord ==
  /\ Publish
  /\ UNCHANGED <<sourceVars, mainVars, keySinkVars, sounding>>

\* A plausible bug: the key events of an event are dispatched last first.
DispatchLast ==
  /\ mainPc = "play" /\ toPost = <<>> /\ postPc = "idle" /\ toDispatch # <<>>
  /\ Dispatch(<<toDispatch[Len(toDispatch)]>>)
  /\ toDispatch' = SubSeq(toDispatch, 1, Len(toDispatch) - 1)
  /\ UNCHANGED <<sourceVars, mainPc, event, heldNow, toPost, wire, notesDown, lastPressed,
                 sounding, ringVars>>

\* One request of KeySink::dispatch, after the posts.
DispatchKey ==
  /\ mainPc = "play" /\ toPost = <<>> /\ postPc = "idle" /\ toDispatch # <<>>
  /\ Dispatch(<<Head(toDispatch)>>)
  /\ toDispatch' = Tail(toDispatch)
  /\ UNCHANGED <<sourceVars, mainPc, event, heldNow, toPost, wire, notesDown, lastPressed,
                 sounding, ringVars>>

\* The iteration ends.
NextIteration ==
  /\ mainPc = "play" /\ toPost = <<>> /\ postPc = "idle" /\ toDispatch = <<>>
  /\ mainPc' = "wait" /\ event' = {}
  /\ UNCHANGED <<sourceVars, heldNow, toPost, toDispatch, wire, notesDown, lastPressed,
                 keySinkVars, sounding, ringVars>>

\* After the loop: the key the local player holds is released.
ReleaseOnExit ==
  /\ mainPc = "exit" /\ mainPc' = "done"
  /\ Dispatch(IF HasKeySink /\ heldNow["local"] >= 0
              THEN <<KeyEvent(heldNow["local"], FALSE)>> ELSE <<>>)
  /\ UNCHANGED <<sourceVars, event, heldNow, toPost, toDispatch, wire, notesDown, lastPressed,
                 sounding, ringVars>>

MainStep ==
  TakeEvent \/ Route \/ StoreWord \/ PublishWord \/ DispatchKey \/ NextIteration \/ ReleaseOnExit

\* mix_samples: the words up to the published count reach the voices.
ReadWord ==
  /\ ReadSlot
  /\ sounding' = ApplyWord(sounding, ring[readCount % RingSize])
  /\ UNCHANGED <<sourceVars, mainVars, keySinkVars>>

MixSamples ==
  \/ ReadWord
  \/ /\ LoadTarget \/ LoopEnds \/ Render
     /\ UNCHANGED <<sourceVars, mainVars, keySinkVars, sounding>>

\* The window system replays a request.
ReplayKey == ReplayRequest /\ UNCHANGED <<sourceVars, mainVars, sounding, ringVars>>

\* The network takes a datagram.
TakeDatagram ==
  /\ wire # <<>> /\ wire' = Tail(wire)
  /\ UNCHANGED <<sourceVars, mainPc, event, heldNow, toPost, toDispatch, notesDown, lastPressed,
                 keySinkVars, sounding, ringVars>>

Next ==
  \/ \E key \in Notes, pressed \in BOOLEAN : Play(key, pressed)
  \/ MainStep \/ SourceFails \/ SendFails
  \/ MixSamples
  \/ ReplayKey
  \/ TakeDatagram

Spec == Init /\ [][Next]_vars

\* The main thread runs, the backend keeps asking for frames and the window
\* system keeps replaying.  Nothing is assumed of the player or the network.
Fairness == WF_vars(MainStep) /\ WF_vars(MixSamples) /\ WF_vars(ReplayKey)

FairSpec == Spec /\ Fairness

-----------------------------------------------------------------------------
\* Types of the state.
TypeOK ==
  /\ KeySinkTypeOK
  /\ keyboard \subseteq Notes /\ messages \in 0 .. MaxMessages
  /\ sourceQueue \in Seq([note : Notes, pressed : BOOLEAN])
  /\ mainPc \in {"wait", "route", "play", "exit", "done"}
  /\ event \subseteq Router!Events
  /\ heldNow \in [Router!Players -> Offsets \cup {NoKey}]
  /\ toPost \in Seq(SynthWords)
  /\ toDispatch \in Seq([key : Offsets, press : BOOLEAN])
  /\ wire \in Seq(Bytes)
  /\ sounding \in [Channels -> SUBSET FmKeys]
  /\ RingTypeOK

\* The loop may be read as if it played each event at once, although the audio
\* thread, the window system and the keyboard run between its stores: as long
\* as the ring is not lapped, every step is one of NoteRouter or invisible to
\* it, so that what holds of NoteRouter holds of the threads.
RefinesRouter == Router!Init /\ [][Router!Next \/ lapped']_(Router!vars)

\* When the player has let go of every key, the game ends up with no key down
\* and the synthesizer silent, through every queue on the way, unless he plays
\* on, the loop breaks, or the ring is lapped or its counters have wrapped.
QuietOnceReleased ==
  keyboard = {} ~> \/ keysDown = {} /\ \A c \in Channels : sounding[c] = {}
                   \/ keyboard # {} \/ mainPc \in {"exit", "done"}
                   \/ lapped \/ Len(posted) >= CounterModulus
=============================================================================
