---------------------------- MODULE UdpMirrorProofs ----------------------------
(***************************************************************************)
(* Proofs about UdpMirror, for all windows that match, all notes and any   *)
(* number of datagrams in flight.                                          *)
(***************************************************************************)
EXTENDS UdpMirror, OperatorProofs

Trackers == Offsets \cup {NoKey}

\* Below 128 a datagram carries the event.
LEMMA WireCarries ==
  ASSUME NEW note \in WireNotes, NEW pressed \in BOOLEAN
  PROVE  /\ ByteNote(SendByte(note, pressed)) = note
         /\ BytePressed(SendByte(note, pressed)) = pressed
<1>1. note % 256 = note /\ note < 128 /\ note \in Int
  BY DEF WireNotes
<1>2. CASE pressed
  <2>1. SendByte(note, pressed) = note + 128
    BY <1>1, <1>2 DEF SendByte
  <2>2. (note + 128) % 128 = note /\ note + 128 >= 128
    BY DEF WireNotes
  <2> QED
    BY <1>2, <2>1, <2>2 DEF ByteNote, BytePressed
<1>3. CASE ~pressed
  <2>1. SendByte(note, pressed) = note
    BY <1>1, <1>3 DEF SendByte
  <2>2. note % 128 = note /\ ~(note >= 128)
    BY DEF WireNotes
  <2> QED
    BY <1>3, <2>1, <2>2 DEF ByteNote, BytePressed
<1> QED
  BY <1>2, <1>3

LEMMA ByteType ==
  ASSUME NEW note \in Int, NEW pressed \in BOOLEAN
  PROVE  SendByte(note, pressed) \in Bytes
<1>1. note % 256 \in 0 .. 255
  OBVIOUS
<1> QED
  BY <1>1 DEF SendByte, Bytes

LEMMA ByteParts ==
  ASSUME NEW byte \in Bytes
  PROVE  ByteNote(byte) \in WireNotes /\ BytePressed(byte) \in BOOLEAN
<1>1. byte % 128 \in 0 .. 127
  BY DEF Bytes
<1> QED
  BY <1>1 DEF ByteNote, BytePressed, WireNotes, Bytes

\* A tracker after an event: of a note outside its window, nothing happens.
LEMMA TrackHeld ==
  ASSUME NEW h \in Trackers, NEW base \in Int, NEW octaves \in Int, NEW note \in Int,
         NEW pressed \in BOOLEAN
  PROVE  /\ Track(h, base, octaves, note, pressed) =
              IF ~NoteIsInRange(base, TrackerRange(octaves), note) THEN h
              ELSE IF pressed THEN note - base
              ELSE IF h = note - base THEN NoKey ELSE h
         /\ Track(h, base, octaves, note, pressed) \in Trackers
<1>1. CASE NoteIsInRange(base, TrackerRange(octaves), note)
  <2>1. note - base \in Offsets
    BY <1>1, WindowOffset
  <2>2. HandleNote(h, pressed, note - base).held =
          IF pressed THEN note - base ELSE IF h = note - base THEN NoKey ELSE h
    BY <2>1, HandleNoteHeld DEF Trackers
  <2> QED
    BY <1>1, <2>1, <2>2 DEF Track, Trackers
<1>2. CASE ~NoteIsInRange(base, TrackerRange(octaves), note)
  BY <1>2 DEF Track
<1> QED
  BY <1>1, <1>2

\* The receiver's window is the sender's remote one: the offset of a note that
\* the receiver transposes is the offset the sender gave it.
LEMMA WindowsAgree ==
  ASSUME NEW note \in Int
  PROVE  /\ (note + ReceiverTranspose) - BaseKey = note - BaseKeyUdp
         /\ NoteIsInRange(BaseKey, TrackerRange(ActiveOctaves), note + ReceiverTranspose)
              <=> NoteIsInRange(BaseKeyUdp, TrackerRange(ActiveOctavesUdp), note)
<1>1. BaseKey = BaseKeyUdp + ReceiverTranspose /\ BaseKeyUdp \in Int /\ ReceiverTranspose \in Int
  BY MirrorConstants, WindowsMatch
<1>2. (note + ReceiverTranspose) - BaseKey = note - BaseKeyUdp
  BY <1>1
<1> QED
  BY <1>2, WindowsMatch DEF NoteIsInRange

\* What a datagram does to a tracker, in terms of the note it carries.
LEMMA TrackByteHeld ==
  ASSUME NEW h \in Trackers, NEW byte \in Bytes
  PROVE  /\ TrackByte(h, byte) =
              IF ~NoteIsInRange(BaseKeyUdp, TrackerRange(ActiveOctavesUdp), ByteNote(byte)) THEN h
              ELSE IF BytePressed(byte) THEN ByteNote(byte) - BaseKeyUdp
              ELSE IF h = ByteNote(byte) - BaseKeyUdp THEN NoKey ELSE h
         /\ TrackByte(h, byte) \in Trackers
<1> DEFINE note == ByteNote(byte)
<1>1. /\ note \in Int /\ BytePressed(byte) \in BOOLEAN
      /\ note + ReceiverTranspose \in Int /\ BaseKey \in Int /\ ActiveOctaves \in Int
  BY ByteParts, MirrorConstants DEF WireNotes
<1> HIDE DEF note
<1>2. TrackByte(h, byte)
        = Track(h, BaseKey, ActiveOctaves, note + ReceiverTranspose, BytePressed(byte))
  BY DEF TrackByte, note
<1>3. /\ (note + ReceiverTranspose) - BaseKey = note - BaseKeyUdp
      /\ NoteIsInRange(BaseKey, TrackerRange(ActiveOctaves), note + ReceiverTranspose)
           <=> NoteIsInRange(BaseKeyUdp, TrackerRange(ActiveOctavesUdp), note)
  BY <1>1, WindowsAgree
<1> DEFINE there == note + ReceiverTranspose
<1>4. there \in Int
  BY <1>1
<1> HIDE DEF there
<1>5. /\ Track(h, BaseKey, ActiveOctaves, there, BytePressed(byte)) =
           IF ~NoteIsInRange(BaseKey, TrackerRange(ActiveOctaves), there) THEN h
           ELSE IF BytePressed(byte) THEN there - BaseKey
           ELSE IF h = there - BaseKey THEN NoKey ELSE h
      /\ Track(h, BaseKey, ActiveOctaves, there, BytePressed(byte)) \in Trackers
  BY <1>1, <1>4, TrackHeld
<1> QED
  BY <1>2, <1>3, <1>5 DEF note, there

\* Both ends do the same for a note that fits.
LEMMA SameTrack ==
  ASSUME NEW h \in Trackers, NEW note \in WireNotes, NEW pressed \in BOOLEAN
  PROVE  TrackByte(h, SendByte(note, pressed))
           = Track(h, BaseKeyUdp, ActiveOctavesUdp, note, pressed)
<1>1. /\ note \in Int /\ BaseKeyUdp \in Int /\ ActiveOctavesUdp \in Int
      /\ SendByte(note, pressed) \in Bytes
  BY ByteType, MirrorConstants DEF WireNotes
<1> QED
  BY <1>1, WireCarries, TrackByteHeld, TrackHeld

\* A duplicate of a datagram that was just received does nothing.
LEMMA Idempotent ==
  ASSUME NEW h \in Trackers, NEW byte \in Bytes
  PROVE  TrackByte(TrackByte(h, byte), byte) = TrackByte(h, byte)
<1> DEFINE note == ByteNote(byte)
           t == TrackByte(h, byte)
           inRange == NoteIsInRange(BaseKeyUdp, TrackerRange(ActiveOctavesUdp), note)
<1>1. /\ t = IF ~inRange THEN h
             ELSE IF BytePressed(byte) THEN note - BaseKeyUdp
             ELSE IF h = note - BaseKeyUdp THEN NoKey ELSE h
      /\ t \in Trackers
  BY TrackByteHeld
<1> HIDE DEF t
<1>2. TrackByte(t, byte) = IF ~inRange THEN t
                           ELSE IF BytePressed(byte) THEN note - BaseKeyUdp
                           ELSE IF t = note - BaseKeyUdp THEN NoKey ELSE t
  BY <1>1, TrackByteHeld
<1> HIDE DEF note, inRange
<1> QED
  BY <1>1, <1>2 DEF t

-----------------------------------------------------------------------------
(* The invariant.                                                            *)

\* As long as nothing is disturbed, the datagrams in flight take the receiver's
\* tracker to the sender's: path lists the trackers on the way.
Catches(path) ==
  /\ path \in Seq(Trackers)
  /\ Len(path) = Len(inFlight) + 1
  /\ path[1] = local /\ path[Len(path)] = remote
  /\ \A i \in 1 .. Len(inFlight) : path[i + 1] = TrackByte(path[i], inFlight[i])

CatchesUp == ~disturbed => \E path : Catches(path)

\* A press leaves its own key held, at either end.
SenderFollows ==
  \/ lastSent = {}
  \/ \E note \in Int, pressed \in BOOLEAN :
       /\ lastSent = {[note |-> note, pressed |-> pressed]}
       /\ NoteIsInRange(BaseKeyUdp, TrackerRange(ActiveOctavesUdp), note)
       /\ pressed => remote = note - BaseKeyUdp

ReceiverFollows ==
  \/ lastReceived = {}
  \/ \E byte \in Bytes :
       /\ lastReceived = {byte}
       /\ BytePressed(byte)
            /\ NoteIsInRange(BaseKeyUdp, TrackerRange(ActiveOctavesUdp), ByteNote(byte))
            => local = ByteNote(byte) - BaseKeyUdp

IInv == TypeOK /\ CatchesUp /\ SenderFollows /\ ReceiverFollows

LEMMA FlightLength ==
  ASSUME TypeOK
  PROVE  /\ Len(inFlight) \in Nat /\ DOMAIN inFlight = 1 .. Len(inFlight)
         /\ \A i \in DOMAIN inFlight : inFlight[i] \in Bytes
         /\ local \in Trackers /\ remote \in Trackers
<1>1. inFlight \in Seq(Bytes)
  BY DEF TypeOK
<1>2. Len(inFlight) \in Nat /\ DOMAIN inFlight = 1 .. Len(inFlight)
  BY <1>1, LenProperties
<1>3. \A i \in DOMAIN inFlight : inFlight[i] \in Bytes
  BY <1>1, <1>2, ElementOfSeq
<1> QED
  BY <1>2, <1>3 DEF TypeOK, Trackers

LEMMA InitIInv == Init => IInv
<1> SUFFICES ASSUME Init PROVE IInv
  OBVIOUS
<1>1. TypeOK
  BY EmptySeq DEF Init, TypeOK
<1>2. CatchesUp
  <2> DEFINE path == <<NoKey>>
  <2>1. path \in Seq(Trackers) /\ Len(path) = 1 /\ path[1] = NoKey
    BY DEF Trackers
  <2>2. inFlight = <<>> /\ Len(inFlight) = 0 /\ local = NoKey /\ remote = NoKey
    BY DEF Init
  <2> HIDE DEF path
  <2>3. Catches(path)
    BY <2>1, <2>2 DEF Catches
  <2> QED
    BY <2>3 DEF CatchesUp
<1>3. SenderFollows /\ ReceiverFollows
  BY DEF Init, SenderFollows, ReceiverFollows
<1> QED
  BY <1>1, <1>2, <1>3 DEF IInv

\* The sender's step adds its tracker at the end of the path.
LEMMA SendNoteIInv ==
  ASSUME IInv, NEW n \in Notes, NEW pressed \in BOOLEAN, SendNote(n + MidiTranspose, pressed)
  PROVE  IInv'
<1> DEFINE note == n + MidiTranspose
           byte == SendByte(note, pressed)
           L == Len(inFlight)
<1>1. note \in Int /\ BaseKeyUdp \in Int /\ ActiveOctavesUdp \in Int
  BY MirrorConstants
<1> HIDE DEF note
<1>2. /\ NoteIsInRange(BaseKeyUdp, TrackerRange(ActiveOctavesUdp), note)
      /\ remote' = Track(remote, BaseKeyUdp, ActiveOctavesUdp, note, pressed)
      /\ inFlight' = Append(inFlight, byte)
      /\ lastSent' = {[note |-> note, pressed |-> pressed]}
      /\ local' = local /\ lastReceived' = lastReceived
  BY DEF SendNote, note
<1>3. disturbed' \in BOOLEAN /\ (~disturbed' => ~disturbed /\ note \in WireNotes)
  BY Zenon DEF SendNote, note
<1>4. byte \in Bytes
  BY <1>1, ByteType
<1>5. /\ L \in Nat /\ remote \in Trackers /\ local \in Trackers /\ inFlight \in Seq(Bytes)
  BY FlightLength DEF IInv, TypeOK
<1> HIDE DEF byte
<1>6. /\ inFlight' \in Seq(Bytes) /\ Len(inFlight') = L + 1
      /\ \A i \in 1 .. L : inFlight'[i] = inFlight[i]
      /\ inFlight'[L + 1] = byte
  BY <1>2, <1>4, <1>5, AppendProperties
<1>7. /\ remote' \in Trackers
      /\ pressed => remote' = note - BaseKeyUdp
  BY <1>1, <1>2, <1>5, TrackHeld
<1>8. TypeOK'
  <2>1. lastSent' \in SUBSET [note : Int, pressed : BOOLEAN]
    BY <1>1, <1>2
  <2> QED
    BY <1>2, <1>3, <1>6, <1>7, <2>1 DEF IInv, TypeOK, Trackers
<1>9. CatchesUp'
  <2> SUFFICES ASSUME ~disturbed' PROVE \E path : Catches(path)'
    BY DEF CatchesUp
  <2>1. PICK path : Catches(path)
    BY <1>3 DEF IInv, CatchesUp
  <2>2. /\ path \in Seq(Trackers) /\ Len(path) = L + 1
        /\ path[1] = local /\ path[L + 1] = remote
        /\ \A i \in 1 .. L : path[i + 1] = TrackByte(path[i], inFlight[i])
    BY <2>1 DEF Catches
  <2>3. remote' = TrackByte(remote, byte)
    BY <1>2, <1>3, <1>5, SameTrack DEF byte
  <2> PICK longer : longer = Append(path, remote')
    OBVIOUS
  <2>4. /\ longer \in Seq(Trackers) /\ Len(longer) = (L + 1) + 1
        /\ \A i \in 1 .. L + 1 : longer[i] = path[i]
        /\ longer[(L + 1) + 1] = remote'
    BY <1>7, <2>2, AppendProperties
  <2>5. ASSUME NEW i \in 1 .. L + 1
        PROVE  longer[i + 1] = TrackByte(longer[i], inFlight'[i])
    <3>1. CASE i \in 1 .. L
      <4>1. i + 1 \in 1 .. L + 1
        BY <1>5, <3>1
      <4> QED
        BY <1>6, <2>2, <2>4, <3>1, <4>1
    <3>2. CASE i = L + 1
      BY <1>6, <2>2, <2>3, <2>4, <3>2
    <3>3. i \in 1 .. L \/ i = L + 1
      BY <1>5
    <3> QED
      BY <3>1, <3>2, <3>3
  <2>6. 1 \in 1 .. L + 1
    BY <1>5
  <2>7. Catches(longer)'
    BY <1>2, <1>6, <2>2, <2>4, <2>5, <2>6 DEF Catches
  <2> QED
    BY <2>7
<1>10. SenderFollows'
  BY <1>1, <1>2, <1>7 DEF SenderFollows
<1>11. ReceiverFollows'
  BY <1>2 DEF IInv, ReceiverFollows
<1> QED
  BY <1>8, <1>9, <1>10, <1>11 DEF IInv

\* What taking a datagram out of the network leaves.
LEMMA WithoutType ==
  ASSUME TypeOK, NEW i \in DOMAIN inFlight
  PROVE  /\ Without(i) \in Seq(Bytes)
         /\ i = 1 => Without(i) = Tail(inFlight)
<1>1. inFlight \in Seq(Bytes) /\ i \in 1 .. Len(inFlight) /\ Len(inFlight) \in Nat
  BY FlightLength DEF TypeOK
<1>2. SubSeq(inFlight, 1, i - 1) \in Seq(Bytes)
  <2>1. \A k \in 1 .. i - 1 : inFlight[k] \in Bytes
    BY <1>1, ElementOfSeq
  <2> QED
    BY <1>1, <2>1, SubSeqProperties
<1>3. SubSeq(inFlight, i + 1, Len(inFlight)) \in Seq(Bytes)
  <2>1. \A k \in i + 1 .. Len(inFlight) : inFlight[k] \in Bytes
    BY <1>1, ElementOfSeq
  <2> QED
    BY <1>1, <2>1, SubSeqProperties
<1>4. i = 1 => Without(i) = Tail(inFlight)
  <2> SUFFICES ASSUME i = 1 PROVE Without(1) = Tail(inFlight)
    OBVIOUS
  <2>1. SubSeq(inFlight, 1, 1 - 1) = <<>>
    BY <1>1, SubSeqEmpty
  <2>2. SubSeq(inFlight, 1 + 1, Len(inFlight)) = Tail(inFlight)
    BY <1>1
  <2>3. Tail(inFlight) \in Seq(Bytes)
    BY <1>1
  <2> QED
    BY <2>1, <2>2, <2>3, ConcatEmptySeq DEF Without
<1> QED
  BY <1>2, <1>3, <1>4, ConcatProperties DEF Without

\* The receiver's step: the oldest datagram takes it one tracker further on
\* the path, a duplicate of it stays at the front and will do nothing.
LEMMA ReceiveIInv ==
  ASSUME IInv, NEW i \in DOMAIN inFlight, NEW duplicated \in BOOLEAN, Receive(i, duplicated)
  PROVE  IInv'
<1> DEFINE L == Len(inFlight)
           byte == inFlight[i]
<1>1. /\ L \in Nat /\ i \in 1 .. L /\ byte \in Bytes
      /\ inFlight \in Seq(Bytes) /\ local \in Trackers /\ remote \in Trackers
  BY FlightLength DEF IInv, TypeOK
<1>2. /\ local' = TrackByte(local, byte)
      /\ inFlight' = IF duplicated THEN inFlight ELSE Without(i)
      /\ lastReceived' = {byte}
      /\ remote' = remote /\ lastSent' = lastSent
  BY DEF Receive
<1>3. disturbed' \in BOOLEAN /\ (~disturbed' => ~disturbed /\ i = 1)
  BY Zenon DEF Receive
<1> HIDE DEF byte
<1>4. local' \in Trackers
  BY <1>1, <1>2, TrackByteHeld
<1>5. TypeOK'
  <2>1. inFlight' \in Seq(Bytes)
    BY <1>1, <1>2, WithoutType DEF IInv
  <2>2. lastReceived' \in SUBSET Bytes
    BY <1>1, <1>2
  <2> QED
    BY <1>2, <1>3, <1>4, <2>1, <2>2 DEF IInv, TypeOK, Trackers
<1>6. CatchesUp'
  <2> SUFFICES ASSUME ~disturbed' PROVE \E path : Catches(path)'
    BY DEF CatchesUp
  <2>1. PICK path : Catches(path)
    BY <1>3 DEF IInv, CatchesUp
  <2>2. /\ path \in Seq(Trackers) /\ Len(path) = L + 1
        /\ path[1] = local /\ path[L + 1] = remote
        /\ \A k \in 1 .. L : path[k + 1] = TrackByte(path[k], inFlight[k])
    BY <2>1 DEF Catches
  <2>3. i = 1 /\ 1 \in 1 .. L /\ L >= 1 /\ byte = inFlight[1] /\ path[2] = local'
    BY <1>1, <1>2, <1>3, <2>2 DEF byte
  <2>4. CASE duplicated
    <3> PICK same : same = [path EXCEPT ![1] = local']
      OBVIOUS
    <3>1. /\ same \in Seq(Trackers) /\ Len(same) = L + 1
          /\ same[1] = local'
          /\ \A k \in 2 .. L + 1 : same[k] = path[k]
      BY <1>1, <1>4, <2>2, <2>3, ExceptSeq
    <3>2. inFlight' = inFlight
      BY <1>2, <2>4
    <3>3. TrackByte(local', byte) = local'
      BY <1>1, <1>2, Idempotent
    <3>4. ASSUME NEW k \in 1 .. L
          PROVE  same[k + 1] = TrackByte(same[k], inFlight[k])
      <4>1. k + 1 \in 2 .. L + 1 /\ same[k + 1] = path[k + 1]
        BY <1>1, <3>1
      <4>2. CASE k = 1
        BY <2>3, <3>1, <3>3, <4>1, <4>2
      <4>3. CASE k # 1
        BY <1>1, <2>2, <3>1, <4>1, <4>3
      <4> QED
        BY <4>2, <4>3
    <3>5. same[L + 1] = remote'
      BY <1>2, <2>2, <2>3, <3>1
    <3>6. Catches(same)'
      BY <3>1, <3>2, <3>4, <3>5 DEF Catches
    <3> QED
      BY <3>6
  <2>5. CASE ~duplicated
    <3> PICK rest : rest = Tail(path)
      OBVIOUS
    <3>1. /\ rest \in Seq(Trackers) /\ Len(rest) = L
          /\ \A k \in 1 .. L : rest[k] = path[k + 1]
      BY <1>1, <2>2, <2>3
    <3>2. /\ inFlight' = Tail(inFlight) /\ Len(inFlight') = L - 1
          /\ \A k \in 1 .. L - 1 : inFlight'[k] = inFlight[k + 1]
      <4>1. inFlight' = Tail(inFlight)
        BY <1>2, <2>3, <2>5, WithoutType DEF IInv
      <4> QED
        BY <1>1, <2>3, <4>1
    <3>3. ASSUME NEW k \in 1 .. L - 1
          PROVE  rest[k + 1] = TrackByte(rest[k], inFlight'[k])
      <4>1. k + 1 \in 1 .. L /\ k \in 1 .. L
        BY <1>1
      <4> QED
        BY <2>2, <3>1, <3>2, <4>1
    <3>4. rest[1] = local' /\ rest[L] = remote'
      BY <1>1, <1>2, <2>2, <2>3, <3>1
    <3>5. /\ Len(rest) = Len(inFlight') + 1 /\ rest[Len(rest)] = remote'
      BY <1>1, <2>3, <3>1, <3>2, <3>4
    <3>6. Catches(rest)'
      BY <3>1, <3>2, <3>3, <3>4, <3>5 DEF Catches
    <3> QED
      BY <3>6
  <2> QED
    BY <2>4, <2>5
<1>7. SenderFollows'
  BY <1>2 DEF IInv, SenderFollows
<1>8. ReceiverFollows'
  <2>1. BytePressed(byte)
          /\ NoteIsInRange(BaseKeyUdp, TrackerRange(ActiveOctavesUdp), ByteNote(byte))
          => local' = ByteNote(byte) - BaseKeyUdp
    BY <1>1, <1>2, TrackByteHeld
  <2> QED
    BY <1>1, <1>2, <2>1 DEF ReceiverFollows
<1> QED
  BY <1>5, <1>6, <1>7, <1>8 DEF IInv

\* A lost datagram disturbs the mirror, nothing else is promised.
LEMMA LoseIInv ==
  ASSUME IInv, NEW i \in DOMAIN inFlight, Lose(i)
  PROVE  IInv'
<1>1. /\ inFlight' = Without(i) /\ disturbed' = TRUE
      /\ remote' = remote /\ local' = local
      /\ lastSent' = lastSent /\ lastReceived' = lastReceived
  BY DEF Lose
<1>2. TypeOK'
  BY <1>1, WithoutType DEF IInv, TypeOK
<1>3. CatchesUp' /\ SenderFollows' /\ ReceiverFollows'
  BY <1>1 DEF IInv, CatchesUp, SenderFollows, ReceiverFollows
<1> QED
  BY <1>2, <1>3 DEF IInv

LEMMA NextIInv == IInv /\ [Next]_vars => IInv'
<1> SUFFICES ASSUME IInv, [Next]_vars PROVE IInv'
  OBVIOUS
<1>1. CASE Next
  BY <1>1, SendNoteIInv, ReceiveIInv, LoseIInv DEF Next
<1>2. CASE UNCHANGED vars
  <2>1. /\ remote' = remote /\ local' = local /\ inFlight' = inFlight
        /\ lastSent' = lastSent /\ lastReceived' = lastReceived /\ disturbed' = disturbed
    BY <1>2 DEF vars
  <2> QED
    BY <2>1 DEF IInv, TypeOK, CatchesUp, Catches, SenderFollows, ReceiverFollows
<1> QED
  BY <1>1, <1>2

LEMMA Invariant == Spec => []IInv
BY InitIInv, NextIInv, PTL DEF Spec

-----------------------------------------------------------------------------
(* Theorems.                                                                 *)

\* The trackers stay within the instrument and the datagrams within a byte,
\* whatever note the sender's transposition makes.
THEOREM TypeCorrect == Spec => []TypeOK
<1>1. IInv => TypeOK
  BY DEF IInv
<1> QED
  BY <1>1, Invariant, PTL

\* However many datagrams are in flight and however often one is repeated, the
\* receiver ends up with the sender's tracker when all have arrived in order.
THEOREM Mirrors == Spec => []MirrorsWhenReceived
<1>1. IInv => MirrorsWhenReceived
  <2> SUFFICES ASSUME IInv, inFlight = <<>>, ~disturbed PROVE local = remote
    BY DEF MirrorsWhenReceived
  <2>1. PICK path : Catches(path)
    BY DEF IInv, CatchesUp
  <2>2. Len(inFlight) = 0
    OBVIOUS
  <2> QED
    BY <2>1, <2>2 DEF Catches
<1> QED
  BY <1>1, Invariant, PTL

\* Whatever the network did before, the arrival of the last press puts both
\* ends in step.
THEOREM Resynchronizes == Spec => []PressResynchronizes
<1>1. IInv => PressResynchronizes
  <2> SUFFICES ASSUME IInv, NEW ev \in lastSent, ev.pressed, ev.note \in WireNotes,
                      lastReceived = {SendByte(ev.note, ev.pressed)}
               PROVE  local = remote
    BY DEF PressResynchronizes
  <2>1. PICK note \in Int, pressed \in BOOLEAN :
          /\ lastSent = {[note |-> note, pressed |-> pressed]}
          /\ NoteIsInRange(BaseKeyUdp, TrackerRange(ActiveOctavesUdp), note)
          /\ pressed => remote = note - BaseKeyUdp
    BY DEF IInv, SenderFollows
  <2>2. ev.note = note /\ ev.pressed = pressed /\ pressed /\ note \in WireNotes
    <3>1. ev = [note |-> note, pressed |-> pressed]
      BY <2>1
    <3>2. ev.note = note /\ ev.pressed = pressed
      BY <3>1
    <3> QED
      BY <3>2, Zenon
  <2>3. PICK byte \in Bytes :
          /\ lastReceived = {byte}
          /\ BytePressed(byte)
               /\ NoteIsInRange(BaseKeyUdp, TrackerRange(ActiveOctavesUdp), ByteNote(byte))
               => local = ByteNote(byte) - BaseKeyUdp
    BY DEF IInv, ReceiverFollows
  <2>4. byte = SendByte(note, pressed)
    BY <2>2, <2>3
  <2>5. ByteNote(byte) = note /\ BytePressed(byte) = pressed
    BY <2>2, <2>4, WireCarries
  <2> QED
    BY <2>1, <2>2, <2>3, <2>5
<1> QED
  BY <1>1, Invariant, PTL
=============================================================================
