---------------------------- MODULE OperatorProofs ----------------------------
(***************************************************************************)
(* Lemmas about the operators that the components are built from: the      *)
(* players' windows and handle_note (Monophony), the encodings of notes    *)
(* (SynthNotes, UdpWire), and the blocks of rendered frames (Interleave).  *)
(* They hold for every value of the operators' arguments.                  *)
(***************************************************************************)
EXTENDS Monophony, SynthNotes, UdpWire, Interleave, SequenceTheorems, TLAPS

(* Sequences.                                                                *)

\* Concatenations of sequences of at most one element.
LEMMA ConcatSmall ==
  ASSUME NEW e, NEW f
  PROVE  /\ <<e>> \o <<f>> = <<e, f>>
         /\ <<e>> \o <<>> = <<e>>
         /\ <<>> \o <<e>> = <<e>>
         /\ <<>> \o <<>> = <<>>
<1>1. <<e>> \in Seq({e, f}) /\ <<f>> \in Seq({e, f})
  OBVIOUS
<1>2. <<e>> \o <<f>> = Append(<<e>>, f)
  BY <1>1
<1>3. Append(<<e>>, f) = <<e, f>>
  <2>1. Append(<<e>>, f) \in Seq({e, f}) /\ <<e, f>> \in Seq({e, f})
    OBVIOUS
  <2>2. Len(Append(<<e>>, f)) = 2 /\ Len(<<e, f>>) = 2
    OBVIOUS
  <2>3. \A i \in 1 .. 2 : Append(<<e>>, f)[i] = <<e, f>>[i]
    OBVIOUS
  <2> QED
    BY <2>1, <2>2, <2>3, SeqEqual
<1>4. <<e>> \o <<>> = <<e>> /\ <<>> \o <<e>> = <<e>>
  BY <1>1, ConcatEmptySeq
<1>5. <<>> \o <<>> = <<>>
  OBVIOUS
<1> QED
  BY <1>2, <1>3, <1>4, <1>5

LEMMA SmallSeq ==
  ASSUME NEW S
  PROVE  /\ \A e \in S : <<e>> \in Seq(S)
         /\ \A e, f \in S : <<e, f>> \in Seq(S)
OBVIOUS

\* The elements of a sequence move one by one to another one in front of it.
LEMMA ConcatMoves ==
  ASSUME NEW S, NEW q \in Seq(S), NEW r \in Seq(S), r # <<>>
  PROVE  Append(q, Head(r)) \o Tail(r) = q \o r
<1>1. Head(r) \in S /\ Tail(r) \in Seq(S) /\ <<Head(r)>> \in Seq(S)
  BY HeadTailProperties, SmallSeq
<1>2. <<Head(r)>> \o Tail(r) = r
  <2>1. 1 \in 1 .. Len(r) /\ Len(r) \in 1 .. Len(r)
    BY EmptySeq
  <2>2. SubSeq(r, 1, Len(r)) = <<r[1]>> \o SubSeq(r, 2, Len(r))
    BY <2>1, SubSeqRecursiveFirst
  <2> QED
    BY <2>2, TailIsSubSeq, SubSeqFull
<1>3. Append(q, Head(r)) = q \o <<Head(r)>>
  BY <1>1, AppendIsConcat
<1>4. (q \o <<Head(r)>>) \o Tail(r) = q \o (<<Head(r)>> \o Tail(r))
  BY <1>1, ConcatAssociative
<1> QED
  BY <1>2, <1>3, <1>4, Zenon

\* The oldest element of two sequences in a row is that of the first.
LEMMA ConcatHead ==
  ASSUME NEW S, NEW q \in Seq(S), NEW r \in Seq(S), q # <<>>
  PROVE  q \o r # <<>> /\ Head(q \o r) = Head(q) /\ Tail(q \o r) = Tail(q) \o r
<1>1. /\ q \o r \in Seq(S) /\ Len(q \o r) = Len(q) + Len(r)
      /\ Len(q) \in Nat \ {0} /\ Len(r) \in Nat
      /\ \A i \in 1 .. Len(q) + Len(r) :
           (q \o r)[i] = IF i <= Len(q) THEN q[i] ELSE r[i - Len(q)]
  BY ConcatProperties, EmptySeq, LenProperties
<1>2. q \o r # <<>>
  BY <1>1
<1>3. /\ Tail(q) \in Seq(S) /\ Len(Tail(q)) = Len(q) - 1
      /\ \A i \in 1 .. Len(Tail(q)) : Tail(q)[i] = q[i + 1]
  BY HeadTailProperties
<1>4. /\ Tail(q \o r) \in Seq(S) /\ Len(Tail(q \o r)) = Len(q \o r) - 1
      /\ \A i \in 1 .. Len(Tail(q \o r)) : Tail(q \o r)[i] = (q \o r)[i + 1]
  BY <1>1, <1>2, HeadTailProperties
<1>5. /\ Tail(q) \o r \in Seq(S) /\ Len(Tail(q) \o r) = Len(Tail(q)) + Len(r)
      /\ \A i \in 1 .. Len(Tail(q)) + Len(r) :
           (Tail(q) \o r)[i] = IF i <= Len(Tail(q)) THEN Tail(q)[i] ELSE r[i - Len(Tail(q))]
  BY <1>3, ConcatProperties
<1>6. \A i \in 1 .. Len(Tail(q \o r)) : Tail(q \o r)[i] = (Tail(q) \o r)[i]
  <2> TAKE i \in 1 .. Len(Tail(q \o r))
  <2>1. i \in 1 .. Len(Tail(q)) + Len(r) /\ i + 1 \in 1 .. Len(q) + Len(r)
    BY <1>1, <1>3, <1>4
  <2>2. i <= Len(Tail(q)) => i \in 1 .. Len(Tail(q)) /\ i + 1 <= Len(q)
    BY <1>1, <1>3, <2>1
  <2>3. ~(i <= Len(Tail(q))) => ~(i + 1 <= Len(q)) /\ i - Len(Tail(q)) = (i + 1) - Len(q)
    BY <1>1, <1>3, <2>1
  <2> QED
    BY <1>1, <1>3, <1>4, <1>5, <2>1, <2>2, <2>3
<1>7. Tail(q \o r) = Tail(q) \o r
  BY <1>1, <1>3, <1>4, <1>5, <1>6, SeqEqual
<1>8. Head(q \o r) = Head(q)
  <2>1. (q \o r)[1] = q[1]
    BY <1>1
  <2> QED
    BY <1>1, <1>2, <2>1
<1> QED
  BY <1>2, <1>7, <1>8

\* What a sequence holds behind its first c elements grows with the sequence,
\* and loses its head when c does.
LEMMA SuffixGrows ==
  ASSUME NEW S, NEW s \in Seq(S), NEW e \in S, NEW c \in 0 .. Len(s)
  PROVE  SubSeq(Append(s, e), c + 1, Len(s) + 1) = Append(SubSeq(s, c + 1, Len(s)), e)
<1> DEFINE a == Append(s, e)
           u == SubSeq(s, c + 1, Len(s))
           v == SubSeq(a, c + 1, Len(s) + 1)
<1>1. /\ Len(s) \in Nat /\ a \in Seq(S) /\ Len(a) = Len(s) + 1 /\ a[Len(s) + 1] = e
      /\ \A i \in 1 .. Len(s) : a[i] = s[i]
  BY AppendProperties, LenProperties
<1> HIDE DEF a
<1>2. /\ \A i \in c + 1 .. Len(s) : s[i] \in S
      /\ \A i \in c + 1 .. Len(s) + 1 : a[i] \in S
  BY <1>1, ElementOfSeq
<1>3. /\ u \in Seq(S) /\ Len(u) = Len(s) - c
      /\ \A i \in 1 .. Len(s) - c : u[i] = s[c + i]
  <2>1. /\ u \in Seq(S)
        /\ Len(u) = IF c + 1 <= Len(s) THEN Len(s) - (c + 1) + 1 ELSE 0
        /\ \A i \in 1 .. Len(s) - (c + 1) + 1 : u[i] = s[(c + 1) + i - 1]
    BY <1>1, <1>2, SubSeqProperties
  <2> HIDE DEF u
  <2>2. \A i \in 1 .. Len(s) - c : i \in 1 .. Len(s) - (c + 1) + 1 /\ (c + 1) + i - 1 = c + i
    BY <1>1
  <2> QED
    BY <1>1, <2>1, <2>2
<1>4. /\ v \in Seq(S) /\ Len(v) = Len(s) + 1 - c
      /\ \A i \in 1 .. Len(s) + 1 - c : v[i] = a[c + i]
  <2>1. /\ v \in Seq(S)
        /\ Len(v) = IF c + 1 <= Len(s) + 1 THEN Len(s) + 1 - (c + 1) + 1 ELSE 0
        /\ \A i \in 1 .. Len(s) + 1 - (c + 1) + 1 : v[i] = a[(c + 1) + i - 1]
    BY <1>1, <1>2, SubSeqProperties
  <2> HIDE DEF v
  <2>2. \A i \in 1 .. Len(s) + 1 - c :
          i \in 1 .. Len(s) + 1 - (c + 1) + 1 /\ (c + 1) + i - 1 = c + i
    BY <1>1
  <2> QED
    BY <1>1, <2>1, <2>2
<1> HIDE DEF u, v
<1>5. /\ Append(u, e) \in Seq(S) /\ Len(Append(u, e)) = Len(s) - c + 1
      /\ \A i \in 1 .. Len(s) - c : Append(u, e)[i] = u[i]
      /\ Append(u, e)[Len(s) - c + 1] = e
  BY <1>3, AppendProperties
<1>6. \A i \in 1 .. Len(v) : v[i] = Append(u, e)[i]
  <2> TAKE i \in 1 .. Len(v)
  <2>1. CASE i \in 1 .. Len(s) - c
    <3>1. c + i \in 1 .. Len(s) /\ i \in 1 .. Len(s) + 1 - c
      BY <1>1, <2>1
    <3> QED
      BY <1>1, <1>3, <1>4, <1>5, <2>1, <3>1
  <2>2. CASE i = Len(s) - c + 1
    <3>1. c + i = Len(s) + 1 /\ i \in 1 .. Len(s) + 1 - c
      BY <1>1, <2>2
    <3> QED
      BY <1>1, <1>4, <1>5, <2>2, <3>1
  <2>3. i \in 1 .. Len(s) + 1 - c
    BY <1>4
  <2>4. i \in 1 .. Len(s) - c \/ i = Len(s) - c + 1
    BY <1>1, <2>3
  <2> QED
    BY <2>1, <2>2, <2>4
<1>7. Len(v) = Len(Append(u, e))
  BY <1>1, <1>4, <1>5
<1> QED
  BY <1>4, <1>5, <1>6, <1>7, SeqEqual DEF a, u, v

LEMMA SuffixShrinks ==
  ASSUME NEW S, NEW s \in Seq(S), NEW c \in 0 .. Len(s) - 1
  PROVE  LET u == SubSeq(s, c + 1, Len(s))
         IN  /\ u # <<>> /\ Head(u) = s[c + 1]
             /\ Tail(u) = SubSeq(s, (c + 1) + 1, Len(s))
<1>1. Len(s) \in Nat /\ c + 1 \in 1 .. Len(s) /\ Len(s) \in c + 1 .. Len(s)
  BY LenProperties
<1>2. \A i \in c + 1 .. Len(s) : s[i] \in S
  BY <1>1, ElementOfSeq
<1>3. SubSeq(s, c + 1, Len(s)) # <<>>
  <2> DEFINE u == SubSeq(s, c + 1, Len(s))
  <2>1. /\ u \in Seq(S)
        /\ Len(u) = IF c + 1 <= Len(s) THEN Len(s) - (c + 1) + 1 ELSE 0
    BY <1>1, <1>2, SubSeqProperties
  <2> HIDE DEF u
  <2>2. Len(u) # 0
    BY <1>1, <2>1
  <2>3. u # <<>>
    BY <2>2
  <2> QED
    BY <2>3 DEF u
<1>4. /\ Head(SubSeq(s, c + 1, Len(s))) = s[c + 1]
      /\ Tail(SubSeq(s, c + 1, Len(s))) = SubSeq(s, (c + 1) + 1, Len(s))
  BY <1>1, HeadTailOfSubSeq
<1> QED
  BY <1>3, <1>4

-----------------------------------------------------------------------------
(* Monophony: the windows, and handle_note case by case.                     *)

\* The clamp of --active-octaves keeps every window within the 37 keys of the
\* instrument, whatever the argument.
LEMMA RangeBound ==
  ASSUME NEW n \in Int
  PROVE  TrackerRange(n) \in 1 .. NumKeys
BY DEF TrackerRange, NumKeys, NumOctaves

\* A note of a window has an offset of the instrument.
LEMMA WindowOffset ==
  ASSUME NEW base \in Int, NEW octaves \in Int, NEW note \in Int,
         NoteIsInRange(base, TrackerRange(octaves), note)
  PROVE  note - base \in Offsets
<1>1. TrackerRange(octaves) \in 1 .. NumKeys
  BY RangeBound
<1> QED
  BY <1>1 DEF NoteIsInRange, Offsets, NumKeys, NumOctaves

\* The tracker after an event: a press takes it, the release of the held key
\* empties it.
LEMMA HandleNoteHeld ==
  ASSUME NEW h \in Offsets \cup {NoKey}, NEW p \in BOOLEAN, NEW o \in Offsets
  PROVE  HandleNote(h, p, o).held = IF p THEN o ELSE IF h = o THEN NoKey ELSE h
<1>1. h = o => h >= 0
  BY DEF Offsets, NumKeys, NumOctaves
<1> QED
  BY <1>1 DEF HandleNote, DoubleTap, ReleasesHeldKey, Nothing

\* handle_note case by case: the double tap, a press over no key and over
\* another key, the release of the held key and that of any other.
LEMMA HandleNoteCases ==
  ASSUME NEW h \in Offsets \cup {NoKey}, NEW p \in BOOLEAN, NEW o \in Offsets
  PROVE  /\ (p /\ h = o) =>
              HandleNote(h, p, o) = [held |-> h, keys |-> <<>>, posts |-> <<>>]
         /\ (p /\ h = NoKey) =>
              HandleNote(h, p, o) = [held  |-> o,
                                     keys  |-> <<KeyEvent(o, TRUE)>>,
                                     posts |-> <<NotePost(o, TRUE)>>]
         /\ (p /\ h # o /\ h # NoKey) =>
              HandleNote(h, p, o) = [held  |-> o,
                                     keys  |-> <<KeyEvent(h, FALSE), KeyEvent(o, TRUE)>>,
                                     posts |-> <<NotePost(o, TRUE), NotePost(h, FALSE)>>]
         /\ (~p /\ h = o) =>
              HandleNote(h, p, o) = [held  |-> NoKey,
                                     keys  |-> <<KeyEvent(o, FALSE)>>,
                                     posts |-> <<NotePost(o, FALSE), NotePost(o, FALSE)>>]
         /\ (~p /\ h # o) =>
              HandleNote(h, p, o) = [held |-> h, keys |-> <<>>,
                                     posts |-> <<NotePost(o, FALSE)>>]
<1>1. o # NoKey /\ o >= 0 /\ (h >= 0 <=> h # NoKey)
  BY DEF Offsets, NoKey, NumKeys, NumOctaves
<1>2. ASSUME p, h = o
      PROVE  HandleNote(h, p, o) = [held |-> h, keys |-> <<>>, posts |-> <<>>]
  BY <1>2 DEF HandleNote, DoubleTap, Nothing
<1>4. ASSUME p, h = NoKey
      PROVE  HandleNote(h, p, o) = [held  |-> o,
                                    keys  |-> <<KeyEvent(o, TRUE)>>,
                                    posts |-> <<NotePost(o, TRUE)>>]
  BY <1>1, ConcatSmall, <1>4 DEF HandleNote, DoubleTap, ReleasesHeldKey, KeyEvents, NotePosts
<1>5. ASSUME p, h # o, h # NoKey
      PROVE  HandleNote(h, p, o) = [held  |-> o,
                                    keys  |-> <<KeyEvent(h, FALSE), KeyEvent(o, TRUE)>>,
                                    posts |-> <<NotePost(o, TRUE), NotePost(h, FALSE)>>]
  BY <1>1, ConcatSmall, <1>5 DEF HandleNote, DoubleTap, ReleasesHeldKey, KeyEvents, NotePosts
<1>6. ASSUME ~p, h = o
      PROVE  HandleNote(h, p, o) = [held  |-> NoKey,
                                    keys  |-> <<KeyEvent(o, FALSE)>>,
                                    posts |-> <<NotePost(o, FALSE), NotePost(o, FALSE)>>]
  BY <1>1, ConcatSmall, <1>6 DEF HandleNote, DoubleTap, ReleasesHeldKey, KeyEvents, NotePosts
<1>7. ASSUME ~p, h # o
      PROVE  HandleNote(h, p, o) = [held |-> h, keys |-> <<>>,
                                    posts |-> <<NotePost(o, FALSE)>>]
  BY <1>1, ConcatSmall, <1>7 DEF HandleNote, DoubleTap, ReleasesHeldKey, KeyEvents, NotePosts
<1> QED
  BY <1>2, <1>4, <1>5, <1>6, <1>7

\* The types of what handle_note returns: an event asks for at most two key
\* events, and posts at most two notes.
LEMMA HandleNoteType ==
  ASSUME NEW h \in Offsets \cup {NoKey}, NEW p \in BOOLEAN, NEW o \in Offsets
  PROVE  /\ HandleNote(h, p, o).held \in Offsets \cup {NoKey}
         /\ HandleNote(h, p, o).keys \in Seq([key : Offsets, press : BOOLEAN])
         /\ HandleNote(h, p, o).posts \in Seq([key : Offsets, on : BOOLEAN])
         /\ Len(HandleNote(h, p, o).keys) <= 2 /\ Len(HandleNote(h, p, o).posts) <= 2
<1> DEFINE K == [key : Offsets, press : BOOLEAN]
           N == [key : Offsets, on : BOOLEAN]
           KS == {s \in Seq(K) : Len(s) <= 2}
           NS == {s \in Seq(N) : Len(s) <= 2}
           R == [held : Offsets \cup {NoKey}, keys : KS, posts : NS]
<1>1. \A k \in Offsets, b \in BOOLEAN : KeyEvent(k, b) \in K /\ NotePost(k, b) \in N
  BY DEF KeyEvent, NotePost
<1>2. /\ \A e \in K : <<e>> \in KS
      /\ \A e, f \in K : <<e, f>> \in KS
      /\ \A e \in N : <<e>> \in NS
      /\ \A e, f \in N : <<e, f>> \in NS
      /\ <<>> \in KS /\ <<>> \in NS
  OBVIOUS
<1>3. /\ \A k \in Offsets, b \in BOOLEAN :
              <<KeyEvent(k, b)>> \in KS /\ <<NotePost(k, b)>> \in NS
      /\ \A k, l \in Offsets, b, c \in BOOLEAN :
              /\ <<KeyEvent(k, b), KeyEvent(l, c)>> \in KS
              /\ <<NotePost(k, b), NotePost(l, c)>> \in NS
  BY <1>1, <1>2, Zenon
<1>4. \A s \in KS : s \in Seq(K) /\ Len(s) <= 2
  OBVIOUS
<1>5. \A s \in NS : s \in Seq(N) /\ Len(s) <= 2
  OBVIOUS
<1> HIDE DEF K, N, KS, NS
<1>6. \A r \in R : /\ r.held \in Offsets \cup {NoKey}
                   /\ r.keys \in KS
                   /\ r.posts \in NS
  OBVIOUS
<1>7. \A x \in Offsets \cup {NoKey}, y \in KS, z \in NS :
         [held |-> x, keys |-> y, posts |-> z] \in R
  OBVIOUS
<1> HIDE DEF R
<1>8. HandleNote(h, p, o) \in R
  <2>0. o \in Offsets \cup {NoKey} /\ NoKey \in Offsets \cup {NoKey}
        /\ TRUE \in BOOLEAN /\ FALSE \in BOOLEAN
    OBVIOUS
  <2>1. CASE p /\ h = o
    <3>1. HandleNote(h, p, o) = [held |-> h, keys |-> <<>>, posts |-> <<>>]
      BY <2>1, HandleNoteCases
    <3> QED
      BY <3>1, <1>2, <1>7, Zenon
  <2>2. CASE p /\ h = NoKey
    <3>1. HandleNote(h, p, o) = [held  |-> o,
                                 keys  |-> <<KeyEvent(o, TRUE)>>,
                                 posts |-> <<NotePost(o, TRUE)>>]
      BY <2>2, HandleNoteCases
    <3> QED
      BY <3>1, <2>0, <1>3, <1>7, Zenon
  <2>3. CASE p /\ h # o /\ h # NoKey
    <3>1. HandleNote(h, p, o) = [held  |-> o,
                                 keys  |-> <<KeyEvent(h, FALSE), KeyEvent(o, TRUE)>>,
                                 posts |-> <<NotePost(o, TRUE), NotePost(h, FALSE)>>]
      BY <2>3, HandleNoteCases
    <3>2. h \in Offsets
      BY <2>3
    <3> QED
      BY <3>1, <3>2, <2>0, <1>3, <1>7, Zenon
  <2>4. CASE ~p /\ h = o
    <3>1. HandleNote(h, p, o) = [held  |-> NoKey,
                                 keys  |-> <<KeyEvent(o, FALSE)>>,
                                 posts |-> <<NotePost(o, FALSE), NotePost(o, FALSE)>>]
      BY <2>4, HandleNoteCases
    <3> QED
      BY <3>1, <2>0, <1>3, <1>7, Zenon
  <2>5. CASE ~p /\ h # o
    <3>1. HandleNote(h, p, o) = [held |-> h, keys |-> <<>>,
                                 posts |-> <<NotePost(o, FALSE)>>]
      BY <2>5, HandleNoteCases
    <3> QED
      BY <3>1, <2>0, <1>2, <1>3, <1>7, Zenon
  <2> QED
    BY <2>1, <2>2, <2>3, <2>4, <2>5
<1> QED
  BY <1>6, <1>8, <1>4, <1>5 DEF K, N

-----------------------------------------------------------------------------
(* SynthNotes and UdpWire: any int note is posted as a word of one of the    *)
(* two synthesizers, and sent as a byte.                                     *)

LEMMA PostNoteType ==
  ASSUME NEW c \in Channels, NEW on \in BOOLEAN, NEW note \in Int
  PROVE  PostNote(c, on, note) \in SynthWords
<1>1. note % 256 \in FmKeys
  BY DEF FmKeys
<1>2. (IF Bit16(note) = 1 THEN 1 ELSE c) \in Channels
  BY DEF Channels
<1>3. (on \/ note < 0) \in BOOLEAN
  OBVIOUS
<1> QED
  BY <1>1, <1>2, <1>3 DEF PostNote, SynthWords

LEMMA SendByteType ==
  ASSUME NEW note \in Int, NEW pressed \in BOOLEAN
  PROVE  SendByte(note, pressed) \in Bytes
<1>1. note % 256 \in 0 .. 255
  OBVIOUS
<1> QED
  BY <1>1 DEF SendByte, Bytes

-----------------------------------------------------------------------------
(* Interleave: blocks of any size and at any place; a block stored behind an *)
(* interleaved output leaves an interleaved output.                          *)

\* The samples of a frame are the values k of 2 * frame and 2 * frame + 1.
SampleAt(k) == IF k % 2 = 0 THEN Left(k \div 2) ELSE Right(k \div 2)

LEMMA SampleAtType ==
  ASSUME NEW k \in Nat
  PROVE  SampleAt(k) \in Samples
<1>1. k \div 2 \in Nat
  OBVIOUS
<1> QED
  BY <1>1 DEF SampleAt, Left, Right, Sample, Samples

LEMMA InterleavedSamples ==
  ASSUME NEW n \in Nat
  PROVE  /\ Interleaved(n) \in Seq(Samples)
         /\ Len(Interleaved(n)) = 2 * n
         /\ \A j \in 1 .. 2 * n : Interleaved(n)[j] = SampleAt(j - 1)
<1>1. ASSUME NEW j \in 1 .. 2 * n
      PROVE  (IF j % 2 = 1 THEN Left(j \div 2) ELSE Right(j \div 2 - 1)) = SampleAt(j - 1)
  <2>1. CASE j % 2 = 1
    <3>1. (j - 1) % 2 = 0 /\ (j - 1) \div 2 = j \div 2
      BY <2>1
    <3> QED
      BY <2>1, <3>1 DEF SampleAt
  <2>2. CASE j % 2 # 1
    <3>1. (j - 1) % 2 = 1 /\ (j - 1) \div 2 = j \div 2 - 1
      BY <2>2
    <3> QED
      BY <2>2, <3>1 DEF SampleAt
  <2> QED
    BY <2>1, <2>2
<1>2. Interleaved(n) = [j \in 1 .. 2 * n |-> SampleAt(j - 1)]
  BY <1>1 DEF Interleaved
<1>3. \A j \in 1 .. 2 * n : SampleAt(j - 1) \in Samples
  BY SampleAtType
<1>4. 2 * n \in Nat
  OBVIOUS
<1> QED
  BY <1>2, <1>3, <1>4

\* The vector loop and the scalar loop together store the samples of the block
\* in their order: the vector loop's groups of eight are no different.
LEMMA StoredSamples ==
  ASSUME NEW count \in Nat, NEW first \in Nat
  PROVE  /\ InterleaveStereo(count, first) \in Seq(Samples)
         /\ Len(InterleaveStereo(count, first)) = 2 * count
         /\ \A j \in 1 .. 2 * count :
              InterleaveStereo(count, first)[j] = SampleAt(2 * first + j - 1)
<1>1. Rounded(count) \in 0 .. count
  BY DEF Rounded
<1>2. ASSUME NEW k \in Nat
      PROVE  /\ UnpackedFour(first + 4 * (k \div 8), k % 8) = SampleAt(2 * first + k)
             /\ InterleavedOne(first + k \div 2, k % 2) = SampleAt(2 * first + k)
  <2>1. /\ (2 * first + k) % 2 = k % 2
        /\ (2 * first + k) \div 2 = first + k \div 2
    OBVIOUS
  <2>2. (k % 8) % 2 = k % 2 /\ 4 * (k \div 8) + (k % 8) \div 2 = k \div 2
    OBVIOUS
  <2>3. first + 4 * (k \div 8) + (k % 8) \div 2 = first + k \div 2
    BY <2>2
  <2> QED
    BY <2>1, <2>2, <2>3 DEF SampleAt, UnpackedFour, InterleavedOne
<1>3. InterleaveStereo(count, first) = [j \in 1 .. 2 * count |-> SampleAt(2 * first + j - 1)]
  <2> DEFINE stored == IF count > Rounded(count) THEN count ELSE Rounded(count)
             item(j) == IF j <= 2 * Rounded(count)
                        THEN UnpackedFour(first + 4 * ((j - 1) \div 8), (j - 1) % 8)
                        ELSE InterleavedOne(first + (j - 1) \div 2, (j - 1) % 2)
  <2>1. stored = count
    BY <1>1
  <2>2. ASSUME NEW j \in 1 .. 2 * count
        PROVE  item(j) = SampleAt(2 * first + j - 1)
    <3>1. j - 1 \in Nat /\ 2 * first + (j - 1) = 2 * first + j - 1
      OBVIOUS
    <3> QED
      BY <1>2, <3>1
  <2>3. InterleaveStereo(count, first) = [j \in 1 .. 2 * stored |-> item(j)]
    BY DEF InterleaveStereo
  <2> HIDE DEF stored, item
  <2> QED
    BY <2>1, <2>2, <2>3
<1>4. \A j \in 1 .. 2 * count : SampleAt(2 * first + j - 1) \in Samples
  <2> TAKE j \in 1 .. 2 * count
  <2>1. 2 * first + j - 1 \in Nat
    OBVIOUS
  <2> QED
    BY <2>1, SampleAtType
<1>5. 2 * count \in Nat
  OBVIOUS
<1> QED
  BY <1>3, <1>4, <1>5

\* interleave_stereo_f32 extends an interleaved output by its block, whatever
\* the size of the block and the frame it starts at.
THEOREM BlockExtendsOutput ==
  ASSUME NEW frames \in Nat, NEW count \in Nat
  PROVE  Interleaved(frames) \o InterleaveStereo(count, frames) = Interleaved(frames + count)
<1> DEFINE s == Interleaved(frames)
           t == InterleaveStereo(count, frames)
           u == Interleaved(frames + count)
<1>1. /\ s \in Seq(Samples) /\ Len(s) = 2 * frames
      /\ \A j \in 1 .. 2 * frames : s[j] = SampleAt(j - 1)
  BY InterleavedSamples
<1>2. /\ t \in Seq(Samples) /\ Len(t) = 2 * count
      /\ \A j \in 1 .. 2 * count : t[j] = SampleAt(2 * frames + j - 1)
  BY StoredSamples
<1>3. /\ u \in Seq(Samples) /\ Len(u) = 2 * (frames + count)
      /\ \A j \in 1 .. 2 * (frames + count) : u[j] = SampleAt(j - 1)
  <2>1. frames + count \in Nat
    OBVIOUS
  <2> QED
    BY <2>1, InterleavedSamples
<1> HIDE DEF s, t, u
<1>4. /\ s \o t \in Seq(Samples) /\ Len(s \o t) = Len(s) + Len(t)
      /\ \A i \in 1 .. Len(s) + Len(t) :
           (s \o t)[i] = IF i <= Len(s) THEN s[i] ELSE t[i - Len(s)]
  BY <1>1, <1>2, ConcatProperties
<1>5. Len(s \o t) = Len(u)
  BY <1>1, <1>2, <1>3, <1>4
<1>6. ASSUME NEW i \in 1 .. 2 * (frames + count)
      PROVE  (s \o t)[i] = u[i]
  <2>0. i <= 2 * frames \/ i > 2 * frames
    OBVIOUS
  <2>1. CASE i <= 2 * frames
    <3>1. (s \o t)[i] = s[i]
      BY <1>1, <1>2, <1>4, <2>1
    <3>2. s[i] = SampleAt(i - 1)
      BY <1>1, <2>1
    <3> QED
      BY <1>3, <3>1, <3>2
  <2>2. CASE i > 2 * frames
    <3>1. i - 2 * frames \in 1 .. 2 * count /\ 2 * frames + (i - 2 * frames) - 1 = i - 1
      BY <2>2
    <3>2. t[i - 2 * frames] = SampleAt(i - 1)
      BY <1>2, <3>1
    <3>3. (s \o t)[i] = t[i - 2 * frames]
      BY <1>1, <1>2, <1>4, <2>2
    <3> QED
      BY <1>3, <3>2, <3>3
  <2> QED
    BY <2>0, <2>1, <2>2
<1> QED
  BY <1>3, <1>4, <1>5, <1>6, SeqEqual DEF s, t, u
=============================================================================
