---------------------------- MODULE SourceProofs ----------------------------
(***************************************************************************)
(* Proofs about the MIDI sources, for any set of keys and number of        *)
(* events: MidiQueue, and AlsaSource with a pool of any size.              *)
(***************************************************************************)
EXTENDS MidiQueue, AlsaSource, SequenceTheorems, FiniteSetTheorems, TLAPS

(* MidiQueue: the events of the messages.                                    *)

\* What midi_callback makes of the messages of the keyboard.
LEMMA DecodedMessages ==
  ASSUME NEW key
  PROVE  /\ EventsOf(Message(NoteOn, key, 64)) = {[note |-> key, pressed |-> TRUE]}
         /\ EventsOf(Message(NoteOn, key, 0)) = {[note |-> key, pressed |-> FALSE]}
         /\ EventsOf(Message(NoteOff, key, 0)) = {[note |-> key, pressed |-> FALSE]}
         /\ EventsOf(Message(ControlChange, key, 64)) = {}
BY DEF EventsOf, Message, NoteOn, NoteOff, ControlChange

\* The message of an event pushes it, and no other message pushes anything.
LEMMA Delivered ==
  ASSUME NEW msg, Deliver(msg)
  PROVE  /\ messages' = messages + 1 /\ messages < MaxMessages
         /\ UNCHANGED <<device, taken>>
         /\ waiter' \in {waiter, "woken"}
         /\ EventsOf(msg) = {} => UNCHANGED <<noteQueue, pushed>>
         /\ \A ev : EventsOf(msg) = {ev} => /\ noteQueue' = Append(noteQueue, ev)
                                            /\ pushed' = Append(pushed, ev)
<1>1. /\ messages' = messages + 1 /\ messages < MaxMessages
      /\ UNCHANGED <<device, taken>>
  BY DEF Deliver
<1>2. waiter' \in {waiter, "woken"}
  BY DEF Deliver, Notify
<1>3. EventsOf(msg) = {} => UNCHANGED <<noteQueue, pushed>>
  BY DEF Deliver
<1>4. ASSUME NEW ev, EventsOf(msg) = {ev}
      PROVE  noteQueue' = Append(noteQueue, ev) /\ pushed' = Append(pushed, ev)
  <2>1. EventsOf(msg) # {} /\ \A e \in EventsOf(msg) : e = ev
    BY <1>4
  <2>2. PICK e \in EventsOf(msg) : noteQueue' = Append(noteQueue, e) /\ pushed' = Append(pushed, e)
    BY <2>1 DEF Deliver
  <2> QED
    BY <2>1, <2>2
<1> QED
  BY <1>1, <1>2, <1>3, <1>4

\* The player's steps: a press or a release pushes its event.
LEMMA PressPushes ==
  ASSUME NEW key \in Keys, Press(key)
  PROVE  LET ev == [note |-> key, pressed |-> TRUE]
         IN  /\ noteQueue' = Append(noteQueue, ev) /\ pushed' = Append(pushed, ev)
             /\ keysHeld' = keysHeld \cup {key}
             /\ UNCHANGED <<device, taken>> /\ waiter' \in {waiter, "woken"}
             /\ messages' = messages + 1 /\ messages < MaxMessages
<1>1. Deliver(Message(NoteOn, key, 64)) /\ keysHeld' = keysHeld \cup {key}
  BY DEF Press
<1> QED
  BY <1>1, Delivered, DecodedMessages

LEMMA ReleasePushes ==
  ASSUME NEW key \in Keys, Release(key)
  PROVE  LET ev == [note |-> key, pressed |-> FALSE]
         IN  /\ noteQueue' = Append(noteQueue, ev) /\ pushed' = Append(pushed, ev)
             /\ keysHeld' = keysHeld \ {key}
             /\ UNCHANGED <<device, taken>> /\ waiter' \in {waiter, "woken"}
             /\ messages' = messages + 1 /\ messages < MaxMessages
<1>1. keysHeld' = keysHeld \ {key}
  BY DEF Release
<1>2. CASE Deliver(Message(NoteOff, key, 0))
  BY <1>1, <1>2, Delivered, DecodedMessages
<1>3. CASE Deliver(Message(NoteOn, key, 0))
  BY <1>1, <1>3, Delivered, DecodedMessages
<1> QED
  BY <1>2, <1>3 DEF Release

LEMMA TurnKnobPushesNothing ==
  ASSUME NEW key \in Keys, TurnKnob(key)
  PROVE  /\ UNCHANGED <<noteQueue, pushed, keysHeld, device, taken>>
         /\ waiter' \in {waiter, "woken"}
         /\ messages' = messages + 1 /\ messages < MaxMessages
<1>1. Deliver(Message(ControlChange, key, 64)) /\ UNCHANGED keysHeld
  BY DEF TurnKnob
<1> QED
  BY <1>1, Delivered, DecodedMessages

-----------------------------------------------------------------------------
\* The last event of a key after a push: the new one for its key, the same as
\* before for any other.
LEMMA LastAfterPush ==
  ASSUME pushed \in Seq(NoteEvents), NEW ev \in NoteEvents, pushed' = Append(pushed, ev),
         NEW key \in Keys
  PROVE  (\E i \in LastOf(key)' : pushed'[i].pressed)
           <=> IF key = ev.note THEN ev.pressed ELSE \E i \in LastOf(key) : pushed[i].pressed
<1> DEFINE n == Len(pushed)
<1>1. /\ n \in Nat /\ DOMAIN pushed = 1 .. n
      /\ DOMAIN pushed' = 1 .. n + 1
      /\ \A i \in 1 .. n : pushed'[i] = pushed[i]
      /\ pushed'[n + 1] = ev
  <2>1. n \in Nat /\ DOMAIN pushed = 1 .. n
    BY LenProperties
  <2>2. /\ pushed' \in Seq(NoteEvents) /\ Len(pushed') = n + 1
        /\ \A i \in 1 .. n : pushed'[i] = pushed[i]
        /\ pushed'[n + 1] = ev
    BY AppendProperties
  <2> QED
    BY <2>1, <2>2, LenProperties
<1>2. /\ LastOf(key) = {i \in 1 .. n : pushed[i].note = key
                                       /\ \A j \in 1 .. n : pushed[j].note = key => j <= i}
      /\ LastOf(key)' = {i \in 1 .. n + 1 : pushed'[i].note = key
                           /\ \A j \in 1 .. n + 1 : pushed'[j].note = key => j <= i}
  BY <1>1 DEF LastOf
<1> HIDE DEF n
<1>3. CASE key = ev.note
  <2>1. \A i \in 1 .. n + 1 : n + 1 <= i => i = n + 1
    BY <1>1
  <2>2. n + 1 \in 1 .. n + 1 /\ \A j \in 1 .. n + 1 : j <= n + 1
    BY <1>1
  <2>3. LastOf(key)' = {n + 1}
    BY <1>1, <1>2, <1>3, <2>1, <2>2
  <2> QED
    BY <1>1, <1>3, <2>3
<1>4. CASE key # ev.note
  <2>1. \A i \in 1 .. n + 1 : i \in 1 .. n \/ i = n + 1
    BY <1>1
  <2>2. \A i \in 1 .. n : i \in 1 .. n + 1
    BY <1>1
  <2>3. \A i \in 1 .. n + 1 : pushed'[i].note = key => i \in 1 .. n
    BY <1>1, <1>4, <2>1
  <2>4. LastOf(key)' = LastOf(key)
    BY <1>1, <1>2, <2>2, <2>3
  <2>5. \A i \in LastOf(key) : pushed'[i] = pushed[i]
    BY <1>1, <1>2
  <2> QED
    BY <1>4, <2>4, <2>5
<1> QED
  BY <1>3, <1>4

IInv == TypeOK /\ EventsTellKeysHeld

LEMMA InitIInv == Init => IInv
<1> SUFFICES ASSUME Init PROVE IInv
  OBVIOUS
<1>1. TypeOK
  <2>1. messages \in 0 .. MaxMessages
    BY QueueConstants DEF Init
  <2> QED
    BY <2>1, EmptySeq DEF Init, TypeOK
<1>2. \A key \in Keys : LastOf(key) = {}
  BY DEF Init, LastOf
<1>3. EventsTellKeysHeld
  BY <1>2 DEF Init, EventsTellKeysHeld
<1> QED
  BY <1>1, <1>3 DEF IInv

\* A message moves the count, and wakes main() or does not.
LEMMA MessageTypes ==
  ASSUME TypeOK, messages' = messages + 1, messages < MaxMessages,
         waiter' \in {waiter, "woken"}
  PROVE  /\ messages' \in 0 .. MaxMessages
         /\ waiter' \in {"init", "starting", "away", "sleeping", "woken", "returned"}
<1>1. messages \in Nat /\ MaxMessages \in Nat
  BY QueueConstants DEF TypeOK
<1> QED
  BY <1>1 DEF TypeOK

LEMMA PushIInv ==
  ASSUME IInv, NEW key \in Keys, NEW pressed \in BOOLEAN,
         noteQueue' = Append(noteQueue, [note |-> key, pressed |-> pressed]),
         pushed' = Append(pushed, [note |-> key, pressed |-> pressed]),
         keysHeld' = IF pressed THEN keysHeld \cup {key} ELSE keysHeld \ {key},
         UNCHANGED <<device, taken>>, waiter' \in {waiter, "woken"},
         messages' = messages + 1, messages < MaxMessages
  PROVE  IInv'
<1> DEFINE ev == [note |-> key, pressed |-> pressed]
<1>1. ev \in NoteEvents /\ ev.note = key /\ ev.pressed = pressed
  BY DEF NoteEvents
<1>2. TypeOK'
  <2>1. noteQueue' \in Seq(NoteEvents) /\ pushed' \in Seq(NoteEvents)
    BY <1>1, AppendProperties DEF IInv, TypeOK
  <2>2. keysHeld' \subseteq Keys
    BY DEF IInv, TypeOK
  <2> QED
    BY <2>1, <2>2, MessageTypes DEF IInv, TypeOK
<1>3. ASSUME NEW k \in Keys
      PROVE  k \in keysHeld' <=> \E i \in LastOf(k)' : pushed'[i].pressed
  <2>1. (\E i \in LastOf(k)' : pushed'[i].pressed)
          <=> IF k = key THEN pressed ELSE \E i \in LastOf(k) : pushed[i].pressed
    <3> HIDE DEF ev
    <3>1. pushed \in Seq(NoteEvents) /\ pushed' = Append(pushed, ev)
      BY DEF IInv, TypeOK, ev
    <3> QED
      BY <1>1, <3>1, LastAfterPush
  <2>2. k \in keysHeld <=> \E i \in LastOf(k) : pushed[i].pressed
    BY DEF IInv, EventsTellKeysHeld
  <2> QED
    BY <2>1, <2>2
<1>4. EventsTellKeysHeld'
  BY <1>3 DEF EventsTellKeysHeld
<1> QED
  BY <1>2, <1>4 DEF IInv

\* A step that pushes nothing.
LEMMA KeepsEventsTell ==
  ASSUME EventsTellKeysHeld, UNCHANGED <<pushed, keysHeld>>
  PROVE  EventsTellKeysHeld'
BY DEF EventsTellKeysHeld, LastOf

LEMMA NextIInv == IInv /\ [Next]_vars => IInv'
<1> SUFFICES ASSUME IInv, [Next]_vars PROVE IInv'
  OBVIOUS
<1>1. ASSUME NEW key \in Keys, Press(key) PROVE IInv'
  BY <1>1, PressPushes, PushIInv
<1>2. ASSUME NEW key \in Keys, Release(key) PROVE IInv'
  BY <1>2, ReleasePushes, PushIInv
<1>3. ASSUME NEW key \in Keys, TurnKnob(key) PROVE IInv'
  BY <1>3, TurnKnobPushesNothing, MessageTypes, KeepsEventsTell DEF IInv, TypeOK
<1>4. CASE WaitNextNoteEvent
  <2>1. UNCHANGED <<device, keysHeld, messages, pushed>> /\ waiter' \in {"away", "sleeping"}
    BY <1>4 DEF WaitNextNoteEvent, TakeFront
  <2>2. noteQueue' \in Seq(NoteEvents) /\ taken' \in Seq(NoteEvents)
    <3>1. CASE TakeFront
      <4>1. Head(noteQueue) \in NoteEvents /\ Tail(noteQueue) \in Seq(NoteEvents)
        BY <3>1, HeadTailProperties DEF IInv, TypeOK, TakeFront
      <4> QED
        BY <3>1, <4>1, AppendProperties DEF IInv, TypeOK, TakeFront
    <3>2. CASE ~TakeFront
      BY <1>4, <3>2 DEF IInv, TypeOK, WaitNextNoteEvent
    <3> QED
      BY <3>1, <3>2
  <2> QED
    BY <2>1, <2>2, KeepsEventsTell DEF IInv, TypeOK
<1>5. CASE OpenDevice \/ EnterLoop \/ LeaveStartup \/ LeaveLoop
         \/ SpuriousWakeup \/ UNCHANGED vars
  BY <1>5, KeepsEventsTell
     DEF IInv, TypeOK, OpenDevice, EnterLoop, LeaveStartup, LeaveLoop, SpuriousWakeup, vars
<1> QED
  BY <1>1, <1>2, <1>3, <1>4, <1>5 DEF Next

LEMMA Invariant == Spec => []IInv
BY InitIInv, NextIInv, PTL DEF Spec

-----------------------------------------------------------------------------
(* The theorems about MidiQueue.                                             *)

\* The queue and the histories hold note events.
THEOREM TypeCorrect == Spec => []TypeOK
<1>1. IInv => TypeOK
  BY DEF IInv
<1> QED
  BY <1>1, Invariant, PTL

\* For any number of keys and messages, the last event pushed of a key says
\* whether it is down, in both encodings of a note-off.
THEOREM EventsTell == Spec => []EventsTellKeysHeld
<1>1. IInv => EventsTellKeysHeld
  BY DEF IInv
<1> QED
  BY <1>1, Invariant, PTL

\* The source implements a FIFO: main() takes each event pushed, once and in
\* order, whatever wakes it and however long the queue gets.
THEOREM SourceIsFifo == Spec => FifoSpec
<1>1. Init => Fifo!Init
  BY DEF Init, Fifo!Init
<1>2. [Next]_vars => [Fifo!Next]_<<noteQueue, taken>>
  <2> SUFFICES ASSUME [Next]_vars
               PROVE  Fifo!Next \/ UNCHANGED <<noteQueue, taken>>
    OBVIOUS
  <2>1. ASSUME NEW key \in Keys, NEW pressed \in BOOLEAN,
               noteQueue' = Append(noteQueue, [note |-> key, pressed |-> pressed]),
               taken' = taken
        PROVE  Fifo!Next
    <3>1. [note |-> key, pressed |-> pressed] \in NoteEvents
      BY DEF NoteEvents
    <3> QED
      BY <2>1, <3>1 DEF Fifo!Next, Fifo!Post
  <2>2. ASSUME NEW key \in Keys, Press(key) \/ Release(key) PROVE Fifo!Next
    BY <2>1, <2>2, PressPushes, ReleasePushes
  <2>3. ASSUME NEW key \in Keys, TurnKnob(key) PROVE UNCHANGED <<noteQueue, taken>>
    BY <2>3, TurnKnobPushesNothing
  <2>4. CASE WaitNextNoteEvent
    BY <2>4 DEF WaitNextNoteEvent, TakeFront, Fifo!Next, Fifo!Hear
  <2>5. CASE OpenDevice \/ EnterLoop \/ LeaveStartup \/ LeaveLoop
         \/ SpuriousWakeup \/ UNCHANGED vars
    BY <2>5 DEF OpenDevice, EnterLoop, LeaveStartup, LeaveLoop, SpuriousWakeup, vars
  <2> QED
    BY <2>2, <2>3, <2>4, <2>5 DEF Next
<1> QED
  BY <1>1, <1>2, PTL DEF Spec, FifoSpec, Fifo!Spec

-----------------------------------------------------------------------------
(* AlsaSource.  The inductive invariant says where the events are that       *)
(* main() has not been handed: in the buffer, behind them in the pool, and   *)
(* behind those, once the pool has overrun, nowhere.                         *)

\* The buffer and the pool continue the first n events.
Follow(n) ==
  /\ n + Len(buffer) + Len(pool) <= Len(delivered)
  /\ \A i \in 1 .. Len(buffer) : buffer[i] = delivered[n + i]
  /\ \A i \in 1 .. Len(pool) : pool[i] = delivered[n + Len(buffer) + i]
  /\ ~overrun => n + Len(buffer) + Len(pool) = Len(delivered)

AlsaInv ==
  /\ AlsaTypeOK
  /\ overrun => Len(pool) = PoolSize
  /\ \E n \in 0 .. Len(delivered) : GivenFirst(n) /\ (loop = "waits" => Follow(n))

LEMMA NoEvents ==
  /\ <<>> \in Seq(SeqEvents) /\ <<>> \in Seq(AlsaNotes)
  /\ Len(<<>>) = 0 /\ Len(<<>>) <= PoolSize
<1>1. PoolSize \in Nat
  BY AlsaConstants
<1>2. Len(<<>>) = 0
  BY EmptySeq
<1>3. <<>> \in Seq(SeqEvents) /\ <<>> \in Seq(AlsaNotes)
  OBVIOUS
<1> QED
  BY <1>1, <1>2, <1>3

LEMMA AlsaLengths ==
  ASSUME AlsaTypeOK
  PROVE  /\ Len(pool) \in Nat /\ Len(buffer) \in Nat /\ Len(delivered) \in Nat
         /\ Len(given) \in Nat /\ PoolSize \in Nat
BY LenProperties, AlsaConstants DEF AlsaTypeOK

\* The notes among the first events are finitely many, and more events have no
\* fewer.
LEMMA NotesInFinite ==
  ASSUME NEW n \in Nat
  PROVE  IsFiniteSet(NotesIn(n)) /\ Cardinality(NotesIn(n)) \in Nat
<1>1. IsFiniteSet(1 .. n)
  BY FS_Interval
<1>2. IsFiniteSet(NotesIn(n))
  BY <1>1, FS_Subset DEF NotesIn
<1> QED
  BY <1>2, FS_CardinalityType

LEMMA NotesInGrows ==
  ASSUME NEW n \in Nat, NEW i \in 1 .. n, NotesOf(delivered[i]) # {}
  PROVE  Cardinality(NotesIn(i)) \in 1 .. Cardinality(NotesIn(n))
<1>1. /\ IsFiniteSet(NotesIn(n)) /\ Cardinality(NotesIn(n)) \in Nat
      /\ IsFiniteSet(NotesIn(i)) /\ Cardinality(NotesIn(i)) \in Nat
  BY NotesInFinite
<1>2. NotesIn(i) \subseteq NotesIn(n)
  BY DEF NotesIn
<1>3. Cardinality(NotesIn(i)) <= Cardinality(NotesIn(n))
  BY <1>1, <1>2, FS_Subset
<1>4. i \in NotesIn(i)
  BY DEF NotesIn
<1>5. Cardinality(NotesIn(i)) # 0
  BY <1>1, <1>4, FS_EmptySet
<1> QED
  BY <1>1, <1>3, <1>5

\* One more event adds its note, if it has one.
LEMMA NotesInNext ==
  ASSUME NEW n \in Nat
  PROVE  Cardinality(NotesIn(n + 1)) = Cardinality(NotesIn(n))
           + (IF NotesOf(delivered[n + 1]) = {} THEN 0 ELSE 1)
<1>1. \A i \in 1 .. n + 1 : i \in 1 .. n \/ i = n + 1
  OBVIOUS
<1>2. n + 1 \notin NotesIn(n) /\ n + 1 \in 1 .. n + 1 /\ \A i \in 1 .. n : i \in 1 .. n + 1
  BY DEF NotesIn
<1>3. IsFiniteSet(NotesIn(n)) /\ Cardinality(NotesIn(n)) \in Nat
  BY NotesInFinite
<1>4. CASE NotesOf(delivered[n + 1]) = {}
  <2>1. NotesIn(n + 1) = NotesIn(n)
    BY <1>1, <1>2, <1>4 DEF NotesIn
  <2> QED
    BY <1>3, <1>4, <2>1
<1>5. CASE NotesOf(delivered[n + 1]) # {}
  <2>1. NotesIn(n + 1) = NotesIn(n) \cup {n + 1}
    BY <1>1, <1>2, <1>5 DEF NotesIn
  <2> QED
    BY <1>2, <1>3, <1>5, <2>1, FS_AddElement
<1> QED
  BY <1>4, <1>5

\* What the keyboard has sent and main() has been given stands.
LEMMA GivenStands ==
  ASSUME AlsaTypeOK, NEW n \in 0 .. Len(delivered), GivenFirst(n), given' = given,
         \/ delivered' = delivered
         \/ \E ev \in SeqEvents : delivered' = Append(delivered, ev)
  PROVE  GivenFirst(n)'
<1>1. \A i \in 1 .. Len(delivered) : delivered'[i] = delivered[i]
  BY AppendProperties DEF AlsaTypeOK
<1>2. \A i \in 1 .. n : i \in 1 .. Len(delivered)
  BY AlsaLengths
<1>3. \A i \in 0 .. n : NotesIn(i)' = NotesIn(i)
  <2> TAKE i \in 0 .. n
  <2>1. \A j \in 1 .. i : delivered'[j] = delivered[j]
    BY <1>1, <1>2
  <2> QED
    BY <2>1 DEF NotesIn
<1>4. \A i \in 1 .. n : i \in 0 .. n
  OBVIOUS
<1>5. n \in 0 .. n
  OBVIOUS
<1>6. Len(given') = Cardinality(NotesIn(n)')
  BY <1>3, <1>5 DEF GivenFirst
<1>7. ASSUME NEW i \in 1 .. n, NotesOf(delivered'[i]) # {}
      PROVE  NotesOf(delivered'[i]) = {given'[Cardinality(NotesIn(i)')]}
  <2>1. delivered'[i] = delivered[i] /\ NotesIn(i)' = NotesIn(i)
    BY <1>1, <1>2, <1>3, <1>4
  <2> QED
    BY <1>7, <2>1 DEF GivenFirst
<1> QED
  BY <1>6, <1>7 DEF GivenFirst

LEMMA InitAlsaInv == AlsaInit => AlsaInv
<1> SUFFICES ASSUME AlsaInit PROVE AlsaInv
  OBVIOUS
<1>1. AlsaTypeOK
  BY NoEvents DEF AlsaInit, AlsaTypeOK
<1>2. GivenFirst(0)
  <2>1. NotesIn(0) = {}
    BY DEF NotesIn
  <2>2. Cardinality(NotesIn(0)) = 0
    BY <2>1, FS_EmptySet
  <2> QED
    BY <2>2 DEF AlsaInit, GivenFirst
<1>3. 0 \in 0 .. Len(delivered) /\ Follow(0)
  BY DEF AlsaInit, Follow
<1> QED
  BY <1>1, <1>2, <1>3 DEF AlsaInit, AlsaInv

LEMMA SendEventAlsaInv ==
  ASSUME AlsaInv, NEW ev \in SeqEvents, SendEvent(ev)
  PROVE  AlsaInv'
<1>1. PICK n \in 0 .. Len(delivered) : GivenFirst(n) /\ (loop = "waits" => Follow(n))
  BY DEF AlsaInv
<1>2. AlsaTypeOK
  BY DEF AlsaInv
<1>3. /\ delivered' \in Seq(SeqEvents) /\ Len(delivered') = Len(delivered) + 1
      /\ \A i \in 1 .. Len(delivered) : delivered'[i] = delivered[i]
      /\ delivered'[Len(delivered) + 1] = ev
  BY <1>2, AppendProperties DEF SendEvent, AlsaTypeOK
<1>4. UNCHANGED <<buffer, loop, given>>
  BY DEF SendEvent
<1>5. GivenFirst(n)'
  BY <1>1, <1>2, <1>4, GivenStands DEF SendEvent
<1>6. n \in 0 .. Len(delivered')
  BY <1>2, <1>3, AlsaLengths
<1>7. CASE Len(pool) < PoolSize
  <2>1. /\ pool' \in Seq(SeqEvents) /\ Len(pool') = Len(pool) + 1
        /\ \A i \in 1 .. Len(pool) : pool'[i] = pool[i]
        /\ pool'[Len(pool) + 1] = ev /\ overrun' = overrun
    <3>1. pool' = Append(pool, ev) /\ overrun' = overrun
      BY <1>7 DEF SendEvent
    <3>2. pool \in Seq(SeqEvents)
      BY <1>2 DEF AlsaTypeOK
    <3> QED
      BY <3>1, <3>2, AppendProperties
  <2>2. ~overrun
    BY <1>2, <1>7, AlsaLengths DEF AlsaInv
  <2>3. AlsaTypeOK'
    BY <1>2, <1>3, <1>4, <1>7, <2>1, AlsaLengths DEF AlsaTypeOK
  <2>4. ASSUME loop = "waits" PROVE Follow(n)'
    <3>1. /\ n + Len(buffer) + Len(pool) = Len(delivered)
          /\ \A i \in 1 .. Len(buffer) : buffer[i] = delivered[n + i]
          /\ \A i \in 1 .. Len(pool) : pool[i] = delivered[n + Len(buffer) + i]
      BY <1>1, <2>2, <2>4 DEF Follow
    <3>2. n \in Nat /\ Len(buffer) \in Nat /\ Len(pool) \in Nat /\ Len(delivered) \in Nat
      BY <1>2, AlsaLengths
    <3>3. /\ n + Len(buffer) + (Len(pool) + 1) = Len(delivered) + 1
          /\ \A i \in 1 .. Len(buffer) : n + i \in 1 .. Len(delivered)
          /\ \A i \in 1 .. Len(pool) : n + Len(buffer) + i \in 1 .. Len(delivered)
      <4> DEFINE b == Len(buffer)
                 p == Len(pool)
                 d == Len(delivered)
      <4>1. n + b + p = d /\ n \in Nat /\ b \in Nat /\ p \in Nat /\ d \in Nat
        BY <3>1, <3>2
      <4> HIDE DEF b, p, d
      <4>2. /\ n + b + (p + 1) = d + 1
            /\ \A i \in 1 .. b : n + i \in 1 .. d
            /\ \A i \in 1 .. p : n + b + i \in 1 .. d
        BY <4>1
      <4> QED
        BY <4>2 DEF b, p, d
    <3>4. \A i \in 1 .. Len(buffer) : buffer[i] = delivered'[n + i]
      BY <1>3, <3>1, <3>3
    <3>5. \A i \in 1 .. Len(pool) + 1 : pool'[i] = delivered'[n + Len(buffer) + i]
      <4> TAKE i \in 1 .. Len(pool) + 1
      <4>1. CASE i \in 1 .. Len(pool)
        BY <1>3, <2>1, <3>1, <3>3, <4>1
      <4>2. CASE i = Len(pool) + 1
        BY <1>3, <2>1, <3>1, <3>2, <3>3, <4>2
      <4> QED
        BY <3>2, <4>1, <4>2
    <3> QED
      BY <1>3, <1>4, <2>1, <3>2, <3>3, <3>4, <3>5 DEF Follow
  <2> QED
    BY <1>4, <1>5, <1>6, <2>1, <2>2, <2>3, <2>4 DEF AlsaInv
<1>8. CASE ~(Len(pool) < PoolSize)
  <2>1. overrun' = TRUE /\ pool' = pool
    BY <1>8 DEF SendEvent
  <2>2. Len(pool) = PoolSize
    BY <1>2, <1>8, AlsaLengths DEF AlsaTypeOK
  <2>3. AlsaTypeOK'
    BY <1>2, <1>3, <1>4, <2>1 DEF AlsaTypeOK
  <2>4. ASSUME loop = "waits" PROVE Follow(n)'
    <3>1. /\ n + Len(buffer) + Len(pool) <= Len(delivered)
          /\ \A i \in 1 .. Len(buffer) : buffer[i] = delivered[n + i]
          /\ \A i \in 1 .. Len(pool) : pool[i] = delivered[n + Len(buffer) + i]
      BY <1>1, <2>4 DEF Follow
    <3>2. n \in Nat /\ Len(buffer) \in Nat /\ Len(pool) \in Nat /\ Len(delivered) \in Nat
      BY <1>2, AlsaLengths
    <3>3. /\ n + Len(buffer) + Len(pool) <= Len(delivered) + 1
          /\ \A i \in 1 .. Len(buffer) : n + i \in 1 .. Len(delivered)
          /\ \A i \in 1 .. Len(pool) : n + Len(buffer) + i \in 1 .. Len(delivered)
      <4> DEFINE b == Len(buffer)
                 p == Len(pool)
                 d == Len(delivered)
      <4>1. n + b + p <= d /\ n \in Nat /\ b \in Nat /\ p \in Nat /\ d \in Nat
        BY <3>1, <3>2
      <4> HIDE DEF b, p, d
      <4>2. /\ n + b + p <= d + 1
            /\ \A i \in 1 .. b : n + i \in 1 .. d
            /\ \A i \in 1 .. p : n + b + i \in 1 .. d
        BY <4>1
      <4> QED
        BY <4>2 DEF b, p, d
    <3>4. \A i \in 1 .. Len(buffer) : buffer[i] = delivered'[n + i]
      BY <1>3, <3>1, <3>3
    <3>5. \A i \in 1 .. Len(pool) : pool[i] = delivered'[n + Len(buffer) + i]
      BY <1>3, <3>1, <3>3
    <3> QED
      BY <1>3, <1>4, <2>1, <3>3, <3>4, <3>5 DEF Follow
  <2> QED
    BY <1>4, <1>5, <1>6, <2>1, <2>2, <2>3, <2>4 DEF AlsaInv
<1> QED
  BY <1>7, <1>8

LEMMA ReadPoolAlsaInv ==
  ASSUME AlsaInv, ReadPool
  PROVE  AlsaInv'
<1>1. PICK n \in 0 .. Len(delivered) : GivenFirst(n) /\ (loop = "waits" => Follow(n))
  BY DEF AlsaInv
<1>2. /\ AlsaTypeOK /\ loop = "waits" /\ buffer = <<>> /\ ~overrun
      /\ buffer' = pool /\ pool' = <<>> /\ Len(<<>>) = 0
      /\ UNCHANGED <<overrun, loop, delivered, given>>
  BY DEF AlsaInv, ReadPool
<1>3. AlsaTypeOK'
  BY <1>2, NoEvents DEF AlsaTypeOK
<1>4. GivenFirst(n)'
  BY <1>1, <1>2, GivenStands
<1>5. Follow(n)'
  <2>1. /\ n + 0 + Len(pool) = Len(delivered)
        /\ \A i \in 1 .. Len(pool) : pool[i] = delivered[n + 0 + i]
    BY <1>1, <1>2 DEF Follow
  <2>2. n \in Nat /\ Len(pool) \in Nat /\ Len(delivered) \in Nat
    BY <1>2, AlsaLengths
  <2>3. n + Len(pool) + 0 = Len(delivered) /\ \A i \in 1 .. Len(pool) : pool[i] = delivered[n + i]
    BY <2>1, <2>2
  <2> QED
    BY <1>2, <2>2, <2>3 DEF Follow
<1> QED
  BY <1>2, <1>3, <1>4, <1>5 DEF AlsaInv

\* The event handed out is the next one, and its note, if it has one, the next.
LEMMA HandOutAlsaInv ==
  ASSUME AlsaInv, HandOut
  PROVE  AlsaInv'
<1>1. PICK n \in 0 .. Len(delivered) : GivenFirst(n) /\ (loop = "waits" => Follow(n))
  BY DEF AlsaInv
<1>2. /\ AlsaTypeOK /\ loop = "waits" /\ buffer # <<>> /\ buffer' = Tail(buffer)
      /\ loop' \in {"waits", "ended"} /\ UNCHANGED <<pool, overrun, delivered>>
  BY DEF AlsaInv, HandOut
<1>3. /\ buffer' \in Seq(SeqEvents) /\ Len(buffer') = Len(buffer) - 1
      /\ \A i \in 1 .. Len(buffer') : buffer'[i] = buffer[i + 1]
      /\ Len(buffer) \in Nat \ {0} /\ Head(buffer) = buffer[1] /\ Head(buffer) \in SeqEvents
  BY <1>2, HeadTailProperties, EmptySeq DEF AlsaTypeOK
<1>4. n \in Nat /\ Len(pool) \in Nat /\ Len(delivered) \in Nat /\ Len(given) \in Nat
  BY <1>2, AlsaLengths
<1>5. /\ n + Len(buffer) + Len(pool) <= Len(delivered)
      /\ \A i \in 1 .. Len(buffer) : buffer[i] = delivered[n + i]
      /\ \A i \in 1 .. Len(pool) : pool[i] = delivered[n + Len(buffer) + i]
      /\ ~overrun => n + Len(buffer) + Len(pool) = Len(delivered)
  BY <1>1, <1>2 DEF Follow
<1>6. Head(buffer) = delivered[n + 1] /\ n + 1 \in 1 .. Len(delivered)
  BY <1>3, <1>4, <1>5
<1>7. Follow(n + 1)'
  <2>1. /\ (n + 1) + Len(buffer') = n + Len(buffer)
        /\ (n + 1) + Len(buffer') + Len(pool) = n + Len(buffer) + Len(pool)
    BY <1>3, <1>4
  <2>2. \A i \in 1 .. Len(buffer') : buffer'[i] = delivered[(n + 1) + i]
    <3> TAKE i \in 1 .. Len(buffer')
    <3>1. i + 1 \in 1 .. Len(buffer) /\ n + (i + 1) = (n + 1) + i
      BY <1>3, <1>4
    <3> QED
      BY <1>3, <1>5, <3>1
  <2> QED
    BY <1>2, <1>5, <2>1, <2>2 DEF Follow
<1>8. /\ given' \in Seq(AlsaNotes)
      /\ Len(given') = Len(given) + (IF NotesOf(delivered[n + 1]) = {} THEN 0 ELSE 1)
      /\ \A i \in 1 .. Len(given) : given'[i] = given[i]
      /\ NotesOf(delivered[n + 1]) # {} => NotesOf(delivered[n + 1]) = {given'[Len(given) + 1]}
  <2>1. CASE NotesOf(Head(buffer)) = {}
    BY <1>2, <1>4, <1>6, <2>1 DEF HandOut, AlsaTypeOK
  <2>2. CASE NotesOf(Head(buffer)) # {}
    <3>1. PICK note \in NotesOf(Head(buffer)) : given' = Append(given, note)
      BY <2>2 DEF HandOut
    <3>2. NotesOf(Head(buffer)) = {note}
      BY <3>1 DEF NotesOf
    <3>3. note \in AlsaNotes
      <4>1. Head(buffer).type # "controller"
        BY <2>2 DEF NotesOf
      <4>2. Head(buffer).note \in AlsaKeys
        BY <1>3, <4>1 DEF SeqEvents
      <4>3. \E pressed \in BOOLEAN : note = [note |-> Head(buffer).note, pressed |-> pressed]
        BY <3>1 DEF NotesOf
      <4> QED
        BY <4>2, <4>3 DEF AlsaNotes
    <3>4. /\ given' \in Seq(AlsaNotes) /\ Len(given') = Len(given) + 1
          /\ \A i \in 1 .. Len(given) : given'[i] = given[i]
          /\ given'[Len(given) + 1] = note
      BY <1>2, <3>1, <3>3, AppendProperties DEF AlsaTypeOK
    <3> QED
      BY <1>6, <2>2, <3>2, <3>4
  <2> QED
    BY <2>1, <2>2
<1>9. AlsaTypeOK'
  BY <1>2, <1>3, <1>8 DEF AlsaTypeOK
<1>10. GivenFirst(n + 1)'
  <2>1. \A i : NotesIn(i)' = NotesIn(i)
    BY <1>2 DEF NotesIn
  <2>2. Cardinality(NotesIn(n)) = Len(given)
    BY <1>1 DEF GivenFirst
  <2>3. Len(given') = Cardinality(NotesIn(n + 1))
    BY <1>4, <1>8, <2>2, NotesInNext
  <2>4. ASSUME NEW i \in 1 .. n + 1, NotesOf(delivered[i]) # {}
        PROVE  NotesOf(delivered[i]) = {given'[Cardinality(NotesIn(i))]}
    <3>1. CASE i \in 1 .. n
      <4>1. Cardinality(NotesIn(i)) \in 1 .. Len(given)
        BY <1>4, <2>2, <2>4, <3>1, NotesInGrows
      <4>2. NotesOf(delivered[i]) = {given[Cardinality(NotesIn(i))]}
        BY <1>1, <2>4, <3>1 DEF GivenFirst
      <4> QED
        BY <1>8, <4>1, <4>2
    <3>2. CASE i = n + 1
      <4>1. Cardinality(NotesIn(n + 1)) = Len(given) + 1
        BY <1>4, <2>2, <2>4, <3>2, NotesInNext
      <4> QED
        BY <1>8, <2>4, <3>2, <4>1
    <3> QED
      BY <1>4, <3>1, <3>2
  <2> QED
    BY <1>2, <2>1, <2>3, <2>4 DEF GivenFirst
<1>11. n + 1 \in 0 .. Len(delivered')
  BY <1>2, <1>4, <1>6
<1> QED
  BY <1>2, <1>7, <1>9, <1>10, <1>11 DEF AlsaInv

LEMMA InputFailsAlsaInv ==
  ASSUME AlsaInv, InputFails
  PROVE  AlsaInv'
<1>1. PICK n \in 0 .. Len(delivered) : GivenFirst(n)
  BY DEF AlsaInv
<1>2. /\ AlsaTypeOK /\ pool' = <<>> /\ Len(<<>>) = 0 /\ overrun' = FALSE /\ loop' = "ended"
      /\ UNCHANGED <<buffer, delivered, given>>
  BY DEF AlsaInv, InputFails
<1>3. AlsaTypeOK'
  BY <1>2, NoEvents DEF AlsaTypeOK
<1>4. GivenFirst(n)'
  BY <1>1, <1>2, GivenStands
<1> QED
  BY <1>2, <1>3, <1>4 DEF AlsaInv

LEMMA NextAlsaInv == AlsaInv /\ [AlsaNext]_alsaVars => AlsaInv'
<1> SUFFICES ASSUME AlsaInv, [AlsaNext]_alsaVars PROVE AlsaInv'
  OBVIOUS
<1>1. CASE UNCHANGED alsaVars
  BY <1>1 DEF AlsaInv, AlsaTypeOK, Follow, GivenFirst, NotesIn, alsaVars
<1> QED
  BY <1>1, SendEventAlsaInv, ReadPoolAlsaInv, HandOutAlsaInv, InputFailsAlsaInv
     DEF AlsaNext, AlsaInput

LEMMA AlsaInvariant == AlsaSpec => []AlsaInv
BY InitAlsaInv, NextAlsaInv, PTL DEF AlsaSpec

\* The pool and the buffer hold sequencer events, and main() is given notes of
\* the keyboard only, whatever else the sequencer delivers.
THEOREM AlsaTypeCorrect == AlsaSpec => []AlsaTypeOK
<1>1. AlsaInv => AlsaTypeOK
  BY DEF AlsaInv
<1> QED
  BY <1>1, AlsaInvariant, PTL

\* Whatever the size of the pool and however often it overruns, main() has been
\* given the notes of the keyboard's first events, all and in their order: it
\* never plays on past one that was lost.
THEOREM NoHole == AlsaSpec => []NoHoleInTheNotes
<1>1. AlsaInv => NoHoleInTheNotes
  BY DEF AlsaInv, NoHoleInTheNotes
<1> QED
  BY <1>1, AlsaInvariant, PTL
=============================================================================
