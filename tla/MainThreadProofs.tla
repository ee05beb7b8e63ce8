--------------------------- MODULE MainThreadProofs ---------------------------
(***************************************************************************)
(* Proofs about SynthRing and about the threads that share it, for every   *)
(* size of the ring, width of its counters, key map, window, transposition *)
(* and set of notes: the ring implements a FIFO, and the threads implement *)
(* NoteRouter, until the ring is lapped.                                   *)
(***************************************************************************)
EXTENDS MainThread, OperatorProofs

(* Counters modulo their width, and slots modulo the ring.                   *)

LEMMA Division ==
  ASSUME NEW c \in Int, NEW n \in Nat \ {0}
  PROVE  c = n * (c \div n) + (c % n) /\ c \div n \in Int /\ c % n \in 0 .. n - 1
BY SMTT(60)

LEMMA Remainder ==
  ASSUME NEW q \in Int, NEW n \in Nat \ {0}, NEW k \in 0 .. n - 1
  PROVE  (n * q + k) % n = k
BY SMTT(60)

LEMMA SmallRemainder ==
  ASSUME NEW n \in Nat \ {0}, NEW k \in 0 .. n - 1
  PROVE  k % n = k
BY SMTT(60)

\* A counter that is incremented modulo its width keeps counting modulo it.
LEMMA NextCount ==
  ASSUME NEW c \in Nat, NEW n \in Nat \ {0}
  PROVE  ((c % n) + 1) % n = (c + 1) % n
<1> DEFINE q == c \div n
           k == c % n
<1>1. c = n * q + k /\ q \in Int /\ k \in 0 .. n - 1
  BY Division
<1> HIDE DEF q, k
<1>2. CASE k + 1 < n
  <2>1. k + 1 \in 0 .. n - 1 /\ c + 1 = n * q + (k + 1)
    BY <1>1, <1>2
  <2>2. (c + 1) % n = k + 1
    BY <1>1, <2>1, Remainder
  <2>3. (k + 1) % n = k + 1
    BY <2>1, SmallRemainder
  <2> QED
    BY <2>2, <2>3 DEF k
<1>3. CASE k + 1 = n
  <2>1. c + 1 = n * (q + 1) + 0 /\ n = n * 1 + 0
    BY <1>1, <1>3
  <2>2. (c + 1) % n = 0 /\ n % n = 0
    BY <1>1, <2>1, Remainder
  <2> QED
    BY <1>3, <2>2 DEF k
<1> QED
  BY <1>1, <1>2, <1>3

LEMMA Products ==
  ASSUME NEW a \in Int, NEW b \in Int, NEW c \in Int
  PROVE  (a * b) * c = a * (b * c) /\ a * (b + c) = a * b + a * c
BY SMT

\* The ring divides the counters: a slot may be computed from the counter.
LEMMA SlotOfCount ==
  ASSUME NEW c \in Nat, NEW n \in Nat \ {0}, NEW r \in Nat \ {0}, n % r = 0
  PROVE  (c % n) % r = c % r
<1> DEFINE q == c \div n
           k == c % n
           m == n \div r
           p == k \div r
           j == k % r
<1>1. c = n * q + k /\ q \in Int /\ k \in 0 .. n - 1
  BY Division
<1>2. n = r * m /\ m \in Int
  BY Division
<1>3. k = r * p + j /\ p \in Int /\ j \in 0 .. r - 1
  BY <1>1, Division
<1> HIDE DEF q, m, p
<1> HIDE DEF k, j
<1>4. n * q = r * (m * q)
  BY <1>1, <1>2, Products
<1>5. c = r * (m * q + p) + j
  <2> DEFINE x == r * (m * q)
             y == r * p
  <2>1. m * q \in Int /\ r * (m * q + p) = x + y
    BY <1>1, <1>2, <1>3, Products
  <2>2. x \in Int /\ y \in Int /\ j \in Int
    BY <1>3, <2>1
  <2>3. c = x + (y + j)
    BY <1>1, <1>3, <1>4
  <2> HIDE DEF x, y
  <2> QED
    BY <2>1, <2>2, <2>3
<1> QED
  <2>1. m * q + p \in Int
    BY <1>1, <1>2, <1>3
  <2>2. c % r = j
    BY <1>3, <1>5, <2>1, Remainder
  <2> QED
    BY <2>2 DEF k, j

\* Counts less than a ring apart have different slots.
LEMMA SlotsDiffer ==
  ASSUME NEW c \in Nat, NEW d \in Nat, NEW r \in Nat \ {0}, c < d, d < c + r
  PROVE  c % r # d % r
<1> DEFINE p == c \div r
           q == d \div r
<1>1. c = r * p + (c % r) /\ p \in Int /\ c % r \in 0 .. r - 1
  BY Division
<1>2. d = r * q + (d % r) /\ q \in Int /\ d % r \in 0 .. r - 1
  BY Division
<1> HIDE DEF p, q
<1>3. SUFFICES ASSUME c % r = d % r PROVE FALSE
  OBVIOUS
<1>4. d - c = r * (q - p)
  BY <1>1, <1>2, <1>3
<1>5. q - p >= 1 => r * (q - p) >= r
  BY <1>1, <1>2
<1>6. q - p <= 0 => r * (q - p) <= 0
  BY <1>1, <1>2
<1> QED
  BY <1>1, <1>2, <1>4, <1>5, <1>6

-----------------------------------------------------------------------------
(* The inductive invariant.                                                  *)

\* What the histories hold is counted, and no word is read past the count that
\* was loaded; the counters of the code are those counts modulo their width.
Counting ==
  /\ Len(posted) = published + (IF postPc = "publish" THEN 1 ELSE 0)
  /\ loaded <= published /\ Len(consumed) <= published
  /\ mixPc # "idle" => Len(consumed) <= loaded

Wrapped ==
  /\ writeCount = Len(posted) % CounterModulus
  /\ atomicWriteCount = published % CounterModulus
  /\ readCount = Len(consumed) % CounterModulus
  /\ mixPc # "idle" => target = loaded % CounterModulus

\* Until the ring is lapped the words not read yet are in their slots, and
\* those that were read are those that were posted.
Contents ==
  ~lapped =>
    /\ Len(posted) - Len(consumed) <= RingSize
    /\ \A i \in 1 .. Len(consumed) : consumed[i] = posted[i]
    /\ \A i \in Len(consumed) + 1 .. Len(posted) : ring[(i - 1) % RingSize] = posted[i]

\* Until the counters wrap a mix renders with all it has loaded.
Rendered ==
  mixPc = "render" /\ Len(posted) < CounterModulus => Len(consumed) = loaded

RingInv == RingTypeOK /\ Counting /\ Wrapped /\ Contents /\ Rendered

LEMMA ConstantTypes ==
  /\ RingSize \in Nat \ {0} /\ CounterModulus \in Nat \ {0}
  /\ CounterModulus % RingSize = 0 /\ RingSize < CounterModulus
BY RingConstants

\* A counter's slot is that of the number of words it counts.
LEMMA CounterSlot ==
  ASSUME NEW c \in Nat
  PROVE  /\ (c % CounterModulus) % RingSize = c % RingSize
         /\ c % RingSize \in Slots
         /\ c % CounterModulus \in Counters
         /\ ((c % CounterModulus) + 1) % CounterModulus = (c + 1) % CounterModulus
<1>1. c % RingSize \in 0 .. RingSize - 1 /\ c % CounterModulus \in 0 .. CounterModulus - 1
  BY ConstantTypes, Division
<1> QED
  BY <1>1, ConstantTypes, SlotOfCount, NextCount DEF Slots, Counters

LEMMA Lengths ==
  ASSUME RingTypeOK
  PROVE  Len(posted) \in Nat /\ Len(consumed) \in Nat
BY LenProperties DEF RingTypeOK

LEMMA InitRingInv == RingInit => RingInv
<1> SUFFICES ASSUME RingInit PROVE RingInv
  OBVIOUS
<1>1. 0 \in Slots /\ 0 \in Counters /\ 0 % CounterModulus = 0
  BY ConstantTypes, SmallRemainder DEF Slots, Counters
<1>2. posted = <<>> /\ consumed = <<>> /\ Len(posted) = 0 /\ Len(consumed) = 0
  BY DEF RingInit
<1>3. RingTypeOK
  BY <1>1, <1>2, EmptySeq DEF RingInit, RingTypeOK
<1>4. Counting /\ Wrapped
  BY <1>1, <1>2 DEF RingInit, Counting, Wrapped
<1>5. Contents
  BY <1>2, ConstantTypes DEF RingInit, Contents
<1>6. Rendered
  BY DEF RingInit, Rendered
<1> QED
  BY <1>3, <1>4, <1>5, <1>6 DEF RingInv

LEMMA StoreSlotRingInv ==
  ASSUME RingInv, NEW w \in Words, StoreSlot(w)
  PROVE  RingInv'
<1> DEFINE L == Len(posted)
           c == Len(consumed)
<1>1. L \in Nat /\ c \in Nat
  BY Lengths DEF RingInv
<1>2. /\ posted' = Append(posted, w) /\ posted' \in Seq(Words)
      /\ Len(posted') = L + 1
      /\ \A i \in 1 .. L : posted'[i] = posted[i]
      /\ posted'[L + 1] = w
  BY AppendProperties DEF RingInv, RingTypeOK, StoreSlot
<1>3. writeCount = L % CounterModulus /\ writeCount % RingSize = L % RingSize
  BY <1>1, CounterSlot DEF RingInv, Wrapped
<1>4. writeCount' = (L + 1) % CounterModulus
  BY <1>1, <1>3, CounterSlot DEF StoreSlot
<1>5. ring' = [ring EXCEPT ![L % RingSize] = w] /\ L % RingSize \in Slots
  BY <1>1, <1>3, CounterSlot DEF StoreSlot
<1>6. consumed' = consumed
  BY DEF StoreSlot, mixVars
<1>7. RingTypeOK'
  <2>1. writeCount' \in Counters
    BY <1>1, <1>4, CounterSlot
  <2>2. ring' \in [Slots -> Words \cup {Zero}]
    BY <1>5 DEF RingInv, RingTypeOK
  <2>3. lapped' \in BOOLEAN
    BY Zenon DEF StoreSlot
  <2> QED
    BY <1>2, <2>1, <2>2, <2>3 DEF RingInv, RingTypeOK, StoreSlot, mixVars
<1>8. Counting' /\ Wrapped'
  <2>1. published = L /\ c <= L /\ postPc' = "publish"
    BY <1>1 DEF RingInv, RingTypeOK, Counting, StoreSlot
  <2>2. Counting'
    BY <1>1, <1>2, <1>6, <2>1 DEF RingInv, RingTypeOK, Counting, StoreSlot, mixVars
  <2>3. Wrapped'
    BY <1>2, <1>4, <1>6 DEF RingInv, Wrapped, StoreSlot, mixVars
  <2> QED
    BY <2>2, <2>3
<1>9. Contents'
  <2> SUFFICES ASSUME ~lapped'
               PROVE  /\ Len(posted') - c <= RingSize
                      /\ \A i \in 1 .. c : consumed[i] = posted'[i]
                      /\ \A i \in c + 1 .. L + 1 : ring'[(i - 1) % RingSize] = posted'[i]
    BY <1>2, <1>6 DEF Contents
  <2>1. ~lapped /\ L - c < RingSize
    <3>1. ~lapped /\ ~(L - c >= RingSize)
      BY Zenon DEF StoreSlot
    <3> QED
      BY <1>1, <3>1, ConstantTypes
  <2>2. c <= L
    BY <1>1 DEF RingInv, RingTypeOK, Counting, StoreSlot
  <2>3. \A i \in 1 .. c : consumed[i] = posted'[i]
    BY <1>1, <1>2, <2>1, <2>2 DEF RingInv, Contents
  <2>4. ASSUME NEW i \in c + 1 .. L
        PROVE  ring'[(i - 1) % RingSize] = posted'[i]
    <3>1. (i - 1) % RingSize # L % RingSize
      <4>1. i - 1 \in Nat /\ i - 1 < L /\ L < (i - 1) + RingSize
        BY <1>1, <2>1, ConstantTypes
      <4> QED
        BY <1>1, <4>1, ConstantTypes, SlotsDiffer
    <3>2. (i - 1) % RingSize \in Slots
      BY <1>1, CounterSlot
    <3>3. ring'[(i - 1) % RingSize] = ring[(i - 1) % RingSize]
      BY <1>5, <3>1, <3>2 DEF RingInv, RingTypeOK
    <3>4. ring[(i - 1) % RingSize] = posted[i]
      BY <2>1 DEF RingInv, Contents
    <3> QED
      BY <1>1, <1>2, <3>3, <3>4
  <2>5. ring'[L % RingSize] = w
    BY <1>5 DEF RingInv, RingTypeOK
  <2>6. ASSUME NEW i \in c + 1 .. L + 1
        PROVE  ring'[(i - 1) % RingSize] = posted'[i]
    <3>1. CASE i \in c + 1 .. L
      BY <2>4, <3>1
    <3>2. CASE i = L + 1
      <4>1. i - 1 = L
        BY <1>1, <3>2
      <4> QED
        BY <1>2, <2>5, <3>2, <4>1
    <3> QED
      BY <1>1, <2>6, <3>1, <3>2
  <2>7. Len(posted') - c <= RingSize
    BY <1>1, <1>2, <2>1, ConstantTypes
  <2> QED
    BY <2>3, <2>6, <2>7
<1>10. Rendered'
  BY <1>1, <1>2, <1>6, ConstantTypes DEF RingInv, Rendered, StoreSlot, mixVars
<1> QED
  BY <1>7, <1>8, <1>9, <1>10 DEF RingInv

LEMMA PublishRingInv ==
  ASSUME RingInv, Publish
  PROVE  RingInv'
<1>1. Len(posted) \in Nat /\ Len(consumed) \in Nat
  BY Lengths DEF RingInv
<1>2. UNCHANGED <<ring, writeCount, posted, mixVars, lapped>> /\ published' = Len(posted)
  BY DEF Publish
<1>3. RingTypeOK'
  BY <1>1, <1>2 DEF RingInv, RingTypeOK, Publish, mixVars
<1>4. Counting'
  BY <1>1, <1>2 DEF RingInv, RingTypeOK, Counting, Publish, mixVars
<1>5. Wrapped'
  BY <1>2 DEF RingInv, Wrapped, Publish, mixVars
<1>6. Contents' /\ Rendered'
  BY <1>2 DEF RingInv, Contents, Rendered, mixVars
<1> QED
  BY <1>3, <1>4, <1>5, <1>6 DEF RingInv

LEMMA LoadTargetRingInv ==
  ASSUME RingInv, LoadTarget
  PROVE  RingInv'
<1>1. Len(posted) \in Nat /\ Len(consumed) \in Nat
  BY Lengths DEF RingInv
<1>2. UNCHANGED <<ring, atomicWriteCount, postVars, readCount, consumed, published, lapped>>
  BY DEF LoadTarget
<1>3. RingTypeOK'
  BY <1>2 DEF RingInv, RingTypeOK, LoadTarget, postVars
<1>4. Counting'
  BY <1>1, <1>2 DEF RingInv, RingTypeOK, Counting, LoadTarget, postVars
<1>5. Wrapped'
  BY <1>2 DEF RingInv, Wrapped, LoadTarget, postVars
<1>6. Contents' /\ Rendered'
  BY <1>2 DEF RingInv, Contents, Rendered, LoadTarget, postVars
<1> QED
  BY <1>3, <1>4, <1>5, <1>6 DEF RingInv

\* A word that is read is one that was published and loaded, and it is the one
\* posted next unless the ring was lapped.
LEMMA ReadSlotReads ==
  ASSUME RingInv, ReadSlot
  PROVE  /\ Len(consumed) < loaded
         /\ ring[readCount % RingSize] \in Words \cup {Zero}
         /\ ~lapped => ring[readCount % RingSize] = posted[Len(consumed) + 1]
<1> DEFINE c == Len(consumed)
<1>1. Len(posted) \in Nat /\ c \in Nat
  BY Lengths DEF RingInv
<1>2. /\ loaded \in Nat /\ published \in Nat
      /\ c <= loaded /\ loaded <= published /\ published <= Len(posted)
  BY <1>1 DEF RingInv, RingTypeOK, Counting, ReadSlot
<1>3. c # loaded
  <2>1. readCount = c % CounterModulus /\ target = loaded % CounterModulus
    BY DEF RingInv, Wrapped, ReadSlot
  <2>2. readCount < target /\ readCount \in Nat /\ target \in Nat
    BY ConstantTypes DEF RingInv, RingTypeOK, ReadSlot, Counters
  <2> QED
    BY <2>1, <2>2
<1>4. readCount % RingSize = c % RingSize /\ c % RingSize \in Slots
  BY <1>1, CounterSlot DEF RingInv, Wrapped
<1>5. ASSUME ~lapped PROVE ring[c % RingSize] = posted[c + 1]
  <2>1. c + 1 \in c + 1 .. Len(posted) /\ (c + 1) - 1 = c
    BY <1>1, <1>2, <1>3
  <2>2. ring[((c + 1) - 1) % RingSize] = posted[c + 1]
    BY <1>5, <2>1 DEF RingInv, Contents
  <2> QED
    BY <2>1, <2>2
<1>6. ring[c % RingSize] \in Words \cup {Zero}
  BY <1>4 DEF RingInv, RingTypeOK
<1>7. c < loaded
  BY <1>1, <1>2, <1>3
<1> QED
  BY <1>4, <1>5, <1>6, <1>7

LEMMA ReadSlotRingInv ==
  ASSUME RingInv, ReadSlot
  PROVE  RingInv'
<1> DEFINE c == Len(consumed)
           w == ring[readCount % RingSize]
<1>1. Len(posted) \in Nat /\ c \in Nat
  BY Lengths DEF RingInv
<1>2. UNCHANGED <<ring, atomicWriteCount, postVars, target, mixPc, loaded, published, lapped>>
  BY DEF ReadSlot
<1>3. /\ consumed' \in Seq(Words \cup {Zero})
      /\ Len(consumed') = c + 1
      /\ \A i \in 1 .. c : consumed'[i] = consumed[i]
      /\ consumed'[c + 1] = w
  <2>1. w \in Words \cup {Zero} /\ consumed \in Seq(Words \cup {Zero})
    BY ReadSlotReads DEF RingInv, RingTypeOK
  <2>2. consumed' = Append(consumed, w)
    BY DEF ReadSlot
  <2> HIDE DEF w
  <2> QED
    BY <2>1, <2>2, AppendProperties
<1>4. c < loaded /\ loaded <= published /\ published <= Len(posted) /\ mixPc = "read"
  BY <1>1, ReadSlotReads DEF RingInv, RingTypeOK, Counting, ReadSlot
<1>5. readCount' = (c + 1) % CounterModulus
  BY <1>1, CounterSlot DEF RingInv, Wrapped, ReadSlot
<1>6. RingTypeOK'
  <2>1. readCount' \in Counters
    BY <1>1, <1>5, CounterSlot
  <2> QED
    BY <1>2, <1>3, <2>1 DEF RingInv, RingTypeOK, postVars
<1>7. Counting'
  BY <1>1, <1>2, <1>3, <1>4 DEF RingInv, RingTypeOK, Counting, postVars
<1>8. Wrapped'
  BY <1>2, <1>3, <1>5 DEF RingInv, Wrapped, postVars
<1>9. Contents'
  <2> SUFFICES ASSUME ~lapped
               PROVE  /\ Len(posted) - (c + 1) <= RingSize
                      /\ \A i \in 1 .. c + 1 : consumed'[i] = posted[i]
                      /\ \A i \in (c + 1) + 1 .. Len(posted) :
                           ring[(i - 1) % RingSize] = posted[i]
    BY <1>2, <1>3 DEF Contents, postVars
  <2>1. Len(posted) - (c + 1) <= RingSize
    BY <1>1, ConstantTypes DEF RingInv, Contents
  <2>2. ASSUME NEW i \in 1 .. c + 1 PROVE consumed'[i] = posted[i]
    <3>1. CASE i \in 1 .. c
      BY <1>3, <3>1 DEF RingInv, Contents
    <3>2. CASE i = c + 1
      BY <1>3, <3>2, ReadSlotReads
    <3> QED
      BY <1>1, <2>2, <3>1, <3>2
  <2>3. ASSUME NEW i \in (c + 1) + 1 .. Len(posted)
        PROVE  ring[(i - 1) % RingSize] = posted[i]
    <3>1. i \in c + 1 .. Len(posted)
      BY <1>1
    <3> QED
      BY <3>1 DEF RingInv, Contents
  <2> QED
    BY <2>1, <2>2, <2>3
<1>10. Rendered'
  BY <1>2, <1>4 DEF Rendered
<1> QED
  BY <1>6, <1>7, <1>8, <1>9, <1>10 DEF RingInv

LEMMA LoopEndsRingInv ==
  ASSUME RingInv, LoopEnds
  PROVE  RingInv'
<1>1. Len(posted) \in Nat /\ Len(consumed) \in Nat
  BY Lengths DEF RingInv
<1>2. UNCHANGED <<ring, atomicWriteCount, postVars, readCount, target, loaded, consumed,
                  published, lapped>> /\ mixPc = "read" /\ mixPc' = "render"
  BY DEF LoopEnds
<1>3. RingTypeOK'
  BY <1>2 DEF RingInv, RingTypeOK, postVars
<1>4. Counting'
  BY <1>1, <1>2 DEF RingInv, RingTypeOK, Counting, postVars
<1>5. Wrapped'
  BY <1>2 DEF RingInv, Wrapped, postVars
<1>6. Contents'
  BY <1>2 DEF RingInv, Contents, postVars
<1>7. ASSUME Len(posted) < CounterModulus
      PROVE  Len(consumed) = loaded
  <2>1. Len(consumed) <= loaded /\ loaded <= Len(posted) /\ loaded \in Nat
    BY <1>1, <1>2 DEF RingInv, RingTypeOK, Counting
  <2>2. Len(consumed) \in 0 .. CounterModulus - 1 /\ loaded \in 0 .. CounterModulus - 1
    BY <1>1, <1>7, <2>1, ConstantTypes
  <2>3. readCount = Len(consumed) /\ target = loaded
    BY <1>2, <2>2, ConstantTypes, SmallRemainder DEF RingInv, Wrapped
  <2>4. ~(readCount < target)
    BY DEF LoopEnds
  <2> QED
    BY <1>1, <2>1, <2>3, <2>4
<1>8. Rendered'
  BY <1>2, <1>7 DEF Rendered, postVars
<1> QED
  BY <1>3, <1>4, <1>5, <1>6, <1>8 DEF RingInv

LEMMA RenderRingInv ==
  ASSUME RingInv, Render
  PROVE  RingInv'
<1>1. UNCHANGED <<ring, atomicWriteCount, postVars, readCount, target, loaded, consumed,
                  published, lapped>> /\ mixPc' = "idle"
  BY DEF Render
<1> QED
  BY <1>1 DEF RingInv, RingTypeOK, Counting, Wrapped, Contents, Rendered, postVars

LEMMA StutterRingInv ==
  ASSUME RingInv, UNCHANGED ringVars
  PROVE  RingInv'
BY DEF RingInv, RingTypeOK, Counting, Wrapped, Contents, Rendered, ringVars, postVars, mixVars

LEMMA NextRingInv == RingInv /\ [RingNext]_ringVars => RingInv'
BY StoreSlotRingInv, PublishRingInv, LoadTargetRingInv, ReadSlotRingInv, LoopEndsRingInv, RenderRingInv,
   StutterRingInv DEF RingNext

LEMMA RingInvariant == RingSpec => []RingInv
BY InitRingInv, NextRingInv, PTL DEF RingSpec

-----------------------------------------------------------------------------
(* The theorems.                                                             *)

\* The counters of the code stay in their 32 bits and the slots hold words.
THEOREM RingTypeCorrect == RingSpec => []RingTypeOK
<1>1. RingInv => RingTypeOK
  BY DEF RingInv
<1> QED
  BY <1>1, RingInvariant, PTL

\* Until it is lapped, a ring of any size and with counters of any width that
\* it divides hands the audio thread the words that were posted, each once, in
\* order and not before it is published, across every wrap.
THEOREM NothingLost == RingSpec => []NothingLostUntilLapped
<1>1. RingInv => NothingLostUntilLapped
  <2> SUFFICES ASSUME RingInv, ~lapped
               PROVE  /\ Len(consumed) <= published
                      /\ consumed = SubSeq(posted, 1, Len(consumed))
    BY DEF NothingLostUntilLapped
  <2> DEFINE c == Len(consumed)
             S == Words \cup {Zero}
             t == SubSeq(posted, 1, c)
  <2>1. /\ Len(posted) \in Nat /\ c \in Nat
        /\ posted \in Seq(Words) /\ consumed \in Seq(S)
    BY Lengths DEF RingInv, RingTypeOK
  <2>2. c <= published /\ c <= Len(posted)
    BY <2>1 DEF RingInv, RingTypeOK, Counting
  <2>3. \A i \in 1 .. c : posted[i] \in S
    BY <2>1, <2>2, ElementOfSeq
  <2>4. t \in Seq(S) /\ Len(t) = c /\ \A i \in 1 .. c : t[i] = posted[i]
    <3>1. /\ t \in Seq(S)
          /\ Len(t) = IF 1 <= c THEN c - 1 + 1 ELSE 0
          /\ \A i \in 1 .. c - 1 + 1 : t[i] = posted[1 + i - 1]
      BY <2>1, <2>3, SubSeqProperties
    <3> HIDE DEF t
    <3>2. \A i \in 1 .. c : 1 + i - 1 = i
      BY <2>1
    <3> QED
      BY <2>1, <3>1, <3>2
  <2>5. \A i \in 1 .. c : consumed[i] = posted[i]
    BY DEF RingInv, Contents
  <2>6. consumed = t
    <3> HIDE DEF t, S
    <3> QED
      BY <2>1, <2>4, <2>5, SeqEqual
  <2> QED
    BY <2>2, <2>6
<1> QED
  BY <1>1, RingInvariant, PTL

\* Until the counters wrap, frames are rendered with every word that had been
\* published when mix_samples was called.
THEOREM RendersPublished == RingSpec => []RendersWhatWasPublished
<1>1. RingInv => RendersWhatWasPublished
  BY DEF RingInv, Rendered, RendersWhatWasPublished
<1> QED
  BY <1>1, RingInvariant, PTL

-----------------------------------------------------------------------------
(* The ring as a FIFO.                                                       *)

\* The words published and not read yet.
queue == SubSeq(posted, Len(consumed) + 1, published)

LEMMA QueueContents ==
  ASSUME RingTypeOK, Counting
  PROVE  /\ Len(posted) \in Nat /\ Len(consumed) \in Nat /\ published \in Nat
         /\ Len(consumed) <= published /\ published <= Len(posted)
         /\ queue \in Seq(Words) /\ Len(queue) = published - Len(consumed)
         /\ \A i \in 1 .. Len(queue) : queue[i] = posted[Len(consumed) + i]
<1> DEFINE c == Len(consumed)
<1>1. /\ Len(posted) \in Nat /\ c \in Nat /\ published \in Nat
      /\ posted \in Seq(Words)
  BY Lengths DEF RingTypeOK
<1>2. c <= published /\ published <= Len(posted)
  BY <1>1 DEF Counting
<1>3. \A i \in c + 1 .. published : posted[i] \in Words
  BY <1>1, <1>2, ElementOfSeq
<1>4. /\ queue \in Seq(Words)
      /\ Len(queue) = IF c + 1 <= published THEN published - (c + 1) + 1 ELSE 0
      /\ \A i \in 1 .. published - (c + 1) + 1 : queue[i] = posted[(c + 1) + i - 1]
  BY <1>1, <1>3, SubSeqProperties DEF queue
<1>5. Len(queue) = published - c
  BY <1>1, <1>2, <1>4
<1>6. \A i \in 1 .. published - c : (c + 1) + i - 1 = c + i /\ i \in 1 .. published - (c + 1) + 1
  BY <1>1
<1> QED
  BY <1>1, <1>2, <1>4, <1>5, <1>6

LEMMA StoreSlotKeepsQueue ==
  ASSUME RingInv, NEW w \in Words, StoreSlot(w)
  PROVE  queue' = queue
<1> DEFINE c == Len(consumed)
           q == SubSeq(posted', c + 1, published)
<1>1. Len(consumed') = c /\ published' = published
  BY DEF StoreSlot, mixVars
<1>2. posted \in Seq(Words) /\ posted' = Append(posted, w)
  BY DEF RingInv, RingTypeOK, StoreSlot
<1>3. posted' \in Seq(Words) /\ \A i \in 1 .. Len(posted) : posted'[i] = posted[i]
  BY <1>2, AppendProperties
<1>4. /\ Len(posted) \in Nat /\ c \in Nat /\ published \in Nat
      /\ c <= published /\ published <= Len(posted)
      /\ queue \in Seq(Words) /\ Len(queue) = published - c
      /\ \A i \in 1 .. Len(queue) : queue[i] = posted[c + i]
  BY QueueContents DEF RingInv
<1>5. \A i \in c + 1 .. published : posted'[i] \in Words
  BY <1>2, <1>3, <1>4, ElementOfSeq
<1>6. /\ q \in Seq(Words)
      /\ Len(q) = IF c + 1 <= published THEN published - (c + 1) + 1 ELSE 0
      /\ \A i \in 1 .. published - (c + 1) + 1 : q[i] = posted'[(c + 1) + i - 1]
  <2>1. c + 1 \in Int /\ published \in Int
    BY <1>4
  <2> QED
    BY <1>5, <2>1, SubSeqProperties
<1>7. queue' = q
  BY <1>1 DEF queue
<1> HIDE DEF q
<1>8. Len(q) = Len(queue)
  BY <1>4, <1>6
<1>9. \A i \in 1 .. Len(queue) : q[i] = queue[i]
  <2> TAKE i \in 1 .. Len(queue)
  <2>1. /\ c + i \in 1 .. Len(posted) /\ (c + 1) + i - 1 = c + i
        /\ i \in 1 .. published - (c + 1) + 1
    BY <1>4
  <2> QED
    BY <1>3, <1>4, <1>6, <2>1
<1> QED
  BY <1>4, <1>6, <1>7, <1>8, <1>9, SeqEqual

LEMMA PublishPosts ==
  ASSUME RingInv, Publish
  PROVE  \E w \in Words : Fifo!Post(w)
<1> DEFINE c == Len(consumed)
           w == posted[published + 1]
<1>1. /\ Len(posted) \in Nat /\ c \in Nat /\ published \in Nat /\ c <= published
      /\ posted \in Seq(Words)
  BY QueueContents DEF RingInv, RingTypeOK
<1>2. Len(posted) = published + 1
  BY DEF RingInv, Counting, Publish
<1>3. posted' = posted /\ consumed' = consumed /\ published' = Len(posted)
  BY DEF Publish, mixVars
<1>4. w \in Words
  BY <1>1, <1>2, ElementOfSeq
<1>5. queue \in Seq(Words)
  BY QueueContents DEF RingInv
<1>6. SubSeq(posted, c + 1, published + 1)
        = SubSeq(posted, c + 1, (published + 1) - 1) \o <<w>>
  <2>1. c + 1 \in 1 .. Len(posted) /\ published + 1 \in c + 1 .. Len(posted)
    BY <1>1, <1>2
  <2> QED
    BY <1>1, <2>1, SubSeqRecursiveSecond
<1>7. (published + 1) - 1 = published
  BY <1>1
<1>8. queue' = queue \o <<w>>
  BY <1>2, <1>3, <1>6, <1>7 DEF queue
<1>9. queue' = Append(queue, w)
  <2> HIDE DEF w
  <2> QED
    BY <1>4, <1>5, <1>8, AppendIsConcat
<1>10. Fifo!Post(w)
  BY <1>3, <1>9 DEF Fifo!Post, queue
<1> QED
  BY <1>4, <1>10

LEMMA ReadSlotHears ==
  ASSUME RingInv, ReadSlot, ~lapped
  PROVE  Fifo!Hear
<1> DEFINE c == Len(consumed)
<1>1. /\ Len(posted) \in Nat /\ c \in Nat /\ published \in Nat /\ loaded \in Nat
      /\ c <= published /\ published <= Len(posted) /\ loaded <= published
      /\ posted \in Seq(Words) /\ consumed \in Seq(Words \cup {Zero})
      /\ Len(queue) = published - c
  BY QueueContents DEF RingInv, RingTypeOK, Counting
<1>2. c < loaded /\ ring[readCount % RingSize] = posted[c + 1]
  BY ReadSlotReads
<1>3. c + 1 \in 1 .. Len(posted) /\ published \in c + 1 .. Len(posted)
  BY <1>1, <1>2
<1>4. Head(queue) = posted[c + 1] /\ Tail(queue) = SubSeq(posted, (c + 1) + 1, published)
  BY <1>1, <1>3, HeadTailOfSubSeq DEF queue
<1>5. /\ consumed' = Append(consumed, posted[c + 1])
      /\ posted' = posted /\ published' = published
  BY <1>2 DEF ReadSlot, postVars
<1>6. Len(consumed') = c + 1
  BY <1>1, <1>5
<1>7. queue' = Tail(queue)
  BY <1>4, <1>5, <1>6 DEF queue
<1>8. queue # <<>>
  BY <1>1, <1>2
<1> QED
  BY <1>4, <1>5, <1>7, <1>8 DEF Fifo!Hear, queue

\* Until the ring is lapped it is a FIFO of the words posted: publishing a word
\* appends it, and reading a slot takes the oldest one, whatever the sizes.
THEOREM RingIsFifo == RingSpec => FifoUntilLapped
<1>1. RingInit => Fifo!Init
  BY SubSeqEmpty DEF RingInit, Fifo!Init
<1>2. RingInv /\ [RingNext]_ringVars
        => [Fifo!Next \/ lapped']_<<SubSeq(posted, Len(consumed) + 1, published), consumed>>
  <2> SUFFICES ASSUME RingInv, [RingNext]_ringVars, ~lapped'
               PROVE  Fifo!Next \/ (queue' = queue /\ consumed' = consumed)
    BY DEF queue
  <2>1. CASE \E w \in Words : StoreSlot(w)
    <3>1. PICK w \in Words : StoreSlot(w)
      BY <2>1
    <3> QED
      BY <3>1, StoreSlotKeepsQueue DEF StoreSlot, mixVars
  <2>2. CASE Publish
    BY <2>2, PublishPosts DEF Fifo!Next
  <2>3. CASE ReadSlot
    BY <2>3, ReadSlotHears DEF ReadSlot, Fifo!Next
  <2>4. CASE LoadTarget \/ LoopEnds \/ Render \/ UNCHANGED ringVars
    BY <2>4 DEF LoadTarget, LoopEnds, Render, ringVars, postVars, mixVars, queue
  <2> QED
    BY <2>1, <2>2, <2>3, <2>4 DEF RingNext
<1> QED
  BY <1>1, <1>2, RingInvariant, PTL DEF RingSpec, FifoUntilLapped

-----------------------------------------------------------------------------
(* NoteRouter's copies of the operators that MainThread has of its own.      *)

LEMMA RouterOperators ==
  /\ Router!Offsets = Offsets /\ Router!NoKey = NoKey /\ Router!Players = {"local", "remote"}
  /\ \A e : Router!Request(e) = Request(e)
  /\ \A s, w : Router!ApplyWord(s, w) = ApplyWord(s, w)
  /\ \A n, b : Router!SendByte(n, b) = SendByte(n, b)
  /\ \A c, b, n : Router!PostNote(c, b, n) = PostNote(c, b, n)
  /\ \A h, b, o : Router!HandleNote(h, b, o) = HandleNote(h, b, o)
  /\ \A k, b : Router!KeyEvent(k, b) = KeyEvent(k, b)
<1>1. Router!Offsets = Offsets /\ Router!NoKey = NoKey
  BY DEF Router!Offsets, Offsets, Router!NoKey, NoKey, Router!NumKeys, NumKeys,
         Router!NumOctaves, NumOctaves
<1>2. Router!Players = {"local", "remote"}
  BY DEF Router!Players
<1>3. \A o : Router!BindChar(o) = BindChar(o)
  BY DEF Router!BindChar, BindChar, Router!NumKeys, NumKeys, Router!NumOctaves, NumOctaves,
         Router!Comma, Comma
<1>4. Router!CodeTable = CodeTable
  BY <1>1, <1>3 DEF Router!CodeTable, CodeTable
<1>5. \A e : Router!Request(e) = Request(e)
  BY <1>4 DEF Router!Request, Request
<1>6. \A s, w : Router!ApplyWord(s, w) = ApplyWord(s, w)
  BY DEF Router!ApplyWord, ApplyWord
<1>7. \A n, b : Router!SendByte(n, b) = SendByte(n, b)
  BY DEF Router!SendByte, SendByte
<1>8. \A c, b, n : Router!PostNote(c, b, n) = PostNote(c, b, n)
  BY DEF Router!PostNote, PostNote, Router!Bit16, Bit16
<1>9. \A k, b : Router!KeyEvent(k, b) = KeyEvent(k, b) /\ Router!NotePost(k, b) = NotePost(k, b)
  BY DEF Router!KeyEvent, KeyEvent, Router!NotePost, NotePost
<1>10. \A h, b, o : Router!HandleNote(h, b, o) = HandleNote(h, b, o)
  <2> SUFFICES ASSUME NEW h, NEW b, NEW o
               PROVE  Router!HandleNote(h, b, o) = HandleNote(h, b, o)
    OBVIOUS
  <2>1. /\ Router!ReleasesHeldKey(h, b, o) = ReleasesHeldKey(h, b, o)
        /\ Router!DoubleTap(h, b, o) = DoubleTap(h, b, o)
        /\ Router!Nothing(h) = Nothing(h)
    BY DEF Router!ReleasesHeldKey, ReleasesHeldKey, Router!DoubleTap, DoubleTap,
           Router!Nothing, Nothing
  <2>2. ASSUME NEW r
        PROVE  /\ Router!KeyEvents(h, o, r, b) = KeyEvents(h, o, r, b)
               /\ Router!NotePosts(h, o, r, b) = NotePosts(h, o, r, b)
    BY <1>9 DEF Router!KeyEvents, KeyEvents, Router!NotePosts, NotePosts
  <2> QED
    BY <1>1, <2>1, <2>2 DEF Router!HandleNote, HandleNote
<1> QED
  BY <1>1, <1>2, <1>5, <1>6, <1>7, <1>8, <1>9, <1>10

\* Every key of the instrument has a key code.
LEMMA CodeTableType == CodeTable \in [Offsets -> KeyCodes]
<1>1. \A o \in Offsets : BindChar(o) \in BindChars
  BY DEF BindChar, BindChars, Offsets, NumKeys, NumOctaves, LowerCase, Digits, Comma
<1> QED
  BY <1>1, TranslateKeyType DEF CodeTable

KeyEventType == [key : Offsets, press : BOOLEAN]
PostType == [key : Offsets, on : BOOLEAN]

\* Key events become requests one for one.
LEMMA RequestsType ==
  ASSUME NEW es \in Seq(KeyEventType)
  PROVE  /\ [i \in DOMAIN es |-> Request(es[i])] \in Seq(KeyRequests)
         /\ Len([i \in DOMAIN es |-> Request(es[i])]) = Len(es)
         /\ \A i \in 1 .. Len(es) : [j \in DOMAIN es |-> Request(es[j])][i] = Request(es[i])
<1>1. \A i \in 1 .. Len(es) : Request(es[i]) \in KeyRequests
  <2> TAKE i \in 1 .. Len(es)
  <2>1. es[i] \in KeyEventType
    BY ElementOfSeq
  <2> QED
    BY <2>1, CodeTableType DEF Request, KeyRequests, KeyEventType
<1>2. DOMAIN es = 1 .. Len(es) /\ Len(es) \in Nat
  OBVIOUS
<1>3. [i \in 1 .. Len(es) |-> Request(es[i])] \in Seq(KeyRequests)
  BY <1>1, <1>2, IsASeq
<1>4. Len([i \in 1 .. Len(es) |-> Request(es[i])]) = Len(es)
  BY <1>2
<1> QED
  BY <1>2, <1>3, <1>4

LEMMA RequestType ==
  ASSUME NEW e \in KeyEventType
  PROVE  Request(e) \in KeyRequests
BY CodeTableType DEF Request, KeyRequests, KeyEventType

LEMMA OffsetsAreInts == \A o \in Offsets : o \in Int
BY DEF Offsets, NumKeys, NumOctaves

\* A player's half of an iteration: the types of what it leaves and posts, and
\* how much that is.
LEMMA OutcomeType ==
  ASSUME heldNow \in [Router!Players -> Offsets \cup {NoKey}],
         NEW ev \in Router!Events, NEW p \in Router!Players
  PROVE  /\ ev.note \in Int /\ ev.pressed \in BOOLEAN
         /\ Router!Outcome(p, ev).held \in Offsets \cup {NoKey}
         /\ Router!Outcome(p, ev).keys \in Seq(KeyEventType)
         /\ Len(Router!Outcome(p, ev).keys) <= 2
         /\ Router!WordsOf(p, Router!Outcome(p, ev).posts) \in Seq(SynthWords)
         /\ Len(Router!WordsOf(p, Router!Outcome(p, ev).posts)) <= 2
<1> DEFINE out == Router!Outcome(p, ev)
<1>1. ev.note \in Int /\ ev.pressed \in BOOLEAN
  <2>1. \A n \in Notes : n + MidiTranspose \in Int
    BY MainConstants
  <2> QED
    BY <2>1 DEF Router!Events
<1>2. heldNow[p] \in Offsets \cup {NoKey}
  OBVIOUS
<1>3. BaseKey[p] \in Int /\ ActiveOctaves[p] \in Int /\ SynthTranspose[p] \in Int
  BY MainConstants, RouterOperators
<1>4. /\ out.held \in Offsets \cup {NoKey}
      /\ out.keys \in Seq(KeyEventType) /\ Len(out.keys) <= 2
      /\ out.posts \in Seq(PostType) /\ Len(out.posts) <= 2
  <2>1. CASE Router!Handles(p, ev.note)
    <3>1. NoteIsInRange(BaseKey[p], TrackerRange(ActiveOctaves[p]), ev.note)
      BY <2>1 DEF Router!Handles, Router!InRange, Router!NoteIsInRange, NoteIsInRange,
                  Router!TrackerRange, TrackerRange, Router!NumOctaves, NumOctaves
    <3>2. ev.note - BaseKey[p] \in Offsets
      BY <1>1, <1>3, <3>1, WindowOffset
    <3>3. out = HandleNote(heldNow[p], ev.pressed, ev.note - BaseKey[p])
      BY <2>1, RouterOperators DEF Router!Outcome
    <3> QED
      BY <1>1, <1>2, <3>2, <3>3, HandleNoteType DEF KeyEventType, PostType
  <2>2. CASE ~Router!Handles(p, ev.note)
    <3>1. out = [held |-> heldNow[p], keys |-> <<>>, posts |-> <<>>]
      BY <2>2 DEF Router!Outcome, Router!Nothing
    <3> QED
      BY <1>2, <3>1, EmptySeq
  <2> QED
    BY <2>1, <2>2
<1>5. ASSUME NEW posts \in Seq(PostType)
      PROVE  Router!WordsOf(p, posts) \in Seq(SynthWords)
             /\ Len(Router!WordsOf(p, posts)) = Len(posts)
  <2>1. Router!Channel(p) \in Channels
    BY DEF Router!Channel, Channels
  <2>2. \A i \in 1 .. Len(posts) : Router!WordOf(p, posts[i]) \in SynthWords
    <3> TAKE i \in 1 .. Len(posts)
    <3>1. posts[i] \in PostType
      BY ElementOfSeq
    <3>2. posts[i].key + BaseKey[p] + SynthTranspose[p] \in Int /\ posts[i].on \in BOOLEAN
      <4>1. posts[i].key \in Offsets /\ posts[i].on \in BOOLEAN
        BY <3>1 DEF PostType
      <4>2. posts[i].key \in Int
        BY <4>1, OffsetsAreInts
      <4> QED
        BY <1>3, <4>1, <4>2
    <3> QED
      BY <2>1, <3>2, PostNoteType, RouterOperators DEF Router!WordOf
  <2>3. DOMAIN posts = 1 .. Len(posts) /\ Len(posts) \in Nat
    OBVIOUS
  <2>4. [i \in 1 .. Len(posts) |-> Router!WordOf(p, posts[i])] \in Seq(SynthWords)
    BY <2>2, <2>3, IsASeq
  <2>5. Len([i \in 1 .. Len(posts) |-> Router!WordOf(p, posts[i])]) = Len(posts)
    BY <2>3
  <2> QED
    BY <2>3, <2>4, <2>5 DEF Router!WordsOf
<1> HIDE DEF out
<1>6. /\ Router!WordsOf(p, out.posts) \in Seq(SynthWords)
      /\ Len(Router!WordsOf(p, out.posts)) <= 2
  BY <1>4, <1>5
<1> QED
  BY <1>1, <1>4, <1>6 DEF out

-----------------------------------------------------------------------------
(* The inductive invariant.                                                  *)

\* What the event still has to post and to dispatch is gone, and no post is
\* under way, when the loop takes the next one.
Stages == mainPc # "play" => toPost = <<>> /\ toDispatch = <<>> /\ postPc = "idle"

\* The messages of the keyboard that the loop has routed.
routed == messages - Len(sourceQueue) - (IF mainPc = "route" THEN 1 ELSE 0)

\* Each has posted at most four words, dispatched two key events and sent one
\* datagram, so that NoteRouter, with its bound, has room for the next.
Bounds ==
  mainPc \in {"wait", "route", "play"} =>
    /\ Len(posted) + Len(toPost) <= 4 * routed
    /\ Len(keyQueue) + Len(toDispatch) <= 2 * routed
    /\ Len(wire) <= routed

MainInv == TypeOK /\ RingInv /\ Stages /\ Bounds

LEMMA MainLengths ==
  ASSUME TypeOK
  PROVE  /\ Len(posted) \in Nat /\ Len(consumed) \in Nat /\ Len(toPost) \in Nat
         /\ Len(keyQueue) \in Nat /\ Len(toDispatch) \in Nat /\ Len(wire) \in Nat
         /\ Len(sourceQueue) \in Nat
         /\ MaxMessages \in Nat /\ messages \in Nat /\ messages <= MaxMessages
         /\ routed \in Int
<1>1. /\ Len(posted) \in Nat /\ Len(consumed) \in Nat /\ Len(toPost) \in Nat
      /\ Len(keyQueue) \in Nat /\ Len(toDispatch) \in Nat /\ Len(wire) \in Nat
      /\ Len(sourceQueue) \in Nat
  BY LenProperties DEF TypeOK, RingTypeOK, KeySinkTypeOK
<1>2. MaxMessages \in Nat /\ messages \in 0 .. MaxMessages
  BY MainConstants DEF TypeOK
<1> QED
  BY <1>1, <1>2 DEF routed

LEMMA RingAtRest ==
  ASSUME UNCHANGED ringVars
  PROVE  posted' = posted /\ consumed' = consumed /\ postPc' = postPc /\ lapped' = lapped
BY DEF ringVars, postVars, mixVars

LEMMA InitMainInv == Init => MainInv
<1> SUFFICES ASSUME Init PROVE MainInv
  OBVIOUS
<1>1. RingInv
  BY InitRingInv DEF Init
<1>2. /\ keyQueue = <<>> /\ keysDown = {} /\ posted = <<>> /\ postPc = "idle"
      /\ Len(<<>>) = 0
  BY DEF Init, KeySinkInit, RingInit
<1>3. TypeOK
  <2>1. KeySinkTypeOK
    BY <1>2, EmptySeq DEF KeySinkTypeOK
  <2>2. messages \in 0 .. MaxMessages
    BY MainConstants DEF Init
  <2>3. sounding \in [Channels -> SUBSET FmKeys]
    BY DEF Init
  <2>4. heldNow \in [Router!Players -> Offsets \cup {NoKey}]
    BY DEF Init
  <2>5. /\ sourceQueue \in Seq([note : Notes, pressed : BOOLEAN])
        /\ toPost \in Seq(SynthWords)
        /\ toDispatch \in Seq([key : Offsets, press : BOOLEAN])
        /\ wire \in Seq(Bytes)
    BY EmptySeq DEF Init
  <2> QED
    BY <1>1, <2>1, <2>2, <2>3, <2>4, <2>5 DEF Init, TypeOK, RingInv
<1>4. Stages /\ Bounds
  BY <1>2 DEF Init, Stages, Bounds, routed
<1> QED
  BY <1>1, <1>3, <1>4 DEF MainInv

LEMMA PlayInv ==
  ASSUME MainInv, NEW key \in Notes, NEW pressed \in BOOLEAN, Play(key, pressed)
  PROVE  MainInv'
<1> DEFINE e == [note |-> key, pressed |-> pressed]
<1>1. RingInv' /\ posted' = posted /\ postPc' = postPc
  BY StutterRingInv, RingAtRest DEF MainInv, Play
<1>2. UNCHANGED mainVars /\ UNCHANGED keySinkVars /\ UNCHANGED sounding
  BY DEF Play
<1>3. sourceQueue' \in Seq([note : Notes, pressed : BOOLEAN])
      /\ Len(sourceQueue') = Len(sourceQueue) + 1
  <2>1. sourceQueue' = Append(sourceQueue, e) /\ e \in [note : Notes, pressed : BOOLEAN]
    BY DEF Play
  <2> HIDE DEF e
  <2> QED
    BY <2>1, AppendProperties DEF MainInv, TypeOK
<1>4. messages' = messages + 1 /\ messages' \in 0 .. MaxMessages
  BY MainLengths DEF Play, MainInv
<1>5. keyboard' \subseteq Notes
  BY DEF Play, MainInv, TypeOK
<1>6. TypeOK'
  BY <1>1, <1>2, <1>3, <1>4, <1>5 DEF MainInv, TypeOK, KeySinkTypeOK, RingInv, mainVars, keySinkVars
<1>7. Stages' /\ Bounds'
  <2>1. routed' = routed
    BY <1>2, <1>3, <1>4, MainLengths DEF routed, mainVars, MainInv
  <2> QED
    BY <1>1, <1>2, <2>1 DEF MainInv, Stages, Bounds, mainVars, keySinkVars
<1> QED
  BY <1>1, <1>6, <1>7 DEF MainInv

LEMMA TakeEventInv ==
  ASSUME MainInv, TakeEvent
  PROVE  MainInv'
<1>1. RingInv' /\ posted' = posted /\ postPc' = postPc
  BY StutterRingInv, RingAtRest DEF MainInv, TakeEvent
<1>2. UNCHANGED <<keyboard, messages, heldNow, toPost, toDispatch, wire, notesDown, lastPressed,
                  keyQueue, keysDown, sounding>> /\ mainPc' = "route" /\ mainPc = "wait"
  BY DEF TakeEvent, keySinkVars
<1>3. /\ Head(sourceQueue) \in [note : Notes, pressed : BOOLEAN]
      /\ sourceQueue' \in Seq([note : Notes, pressed : BOOLEAN])
      /\ Len(sourceQueue') = Len(sourceQueue) - 1
  BY HeadTailProperties DEF TakeEvent, MainInv, TypeOK
<1>4. event' \subseteq Router!Events
  BY <1>3 DEF TakeEvent, Router!Events
<1>5. TypeOK'
  BY <1>1, <1>2, <1>3, <1>4 DEF MainInv, TypeOK, KeySinkTypeOK, RingInv
<1>6. Stages' /\ Bounds'
  <2>1. routed' = routed
    BY <1>2, <1>3, MainLengths DEF routed, MainInv
  <2> QED
    BY <1>1, <1>2, <2>1 DEF MainInv, Stages, Bounds
<1> QED
  BY <1>1, <1>5, <1>6 DEF MainInv

\* The loop breaks.
LEMMA BreakInv ==
  ASSUME MainInv, SourceFails \/ SendFails
  PROVE  MainInv'
<1>1. RingInv' /\ posted' = posted /\ postPc' = postPc
  BY StutterRingInv, RingAtRest DEF MainInv, SourceFails, SendFails
<1>2. UNCHANGED <<keyboard, messages, sourceQueue, event, heldNow, toPost, toDispatch, wire,
                  notesDown, lastPressed, keyQueue, keysDown, sounding>>
      /\ mainPc' = "exit" /\ mainPc # "play"
  BY DEF SourceFails, SendFails, sourceVars, keySinkVars
<1>3. TypeOK'
  BY <1>1, <1>2 DEF MainInv, TypeOK, KeySinkTypeOK, RingInv
<1>4. Stages' /\ Bounds'
  BY <1>1, <1>2 DEF MainInv, Stages, Bounds
<1> QED
  BY <1>1, <1>3, <1>4 DEF MainInv

\* What Route leaves to be posted and dispatched.
LEMMA RouteLeaves ==
  ASSUME TypeOK, Route
  PROVE  /\ \E ev \in event \cap Router!Events :
              /\ wire' = IF Router!Mirrors(ev) THEN Append(wire, SendByte(ev.note, ev.pressed))
                                               ELSE wire
              /\ heldNow' = [p \in Router!Players |-> Router!Outcome(p, ev).held]
              /\ toPost' = Router!WordsOf("remote", Router!Outcome("remote", ev).posts)
                             \o Router!WordsOf("local", Router!Outcome("local", ev).posts)
              /\ toDispatch' = IF HasKeySink THEN Router!Outcome("local", ev).keys ELSE <<>>
              /\ Router!RecordEvent(ev)
         /\ wire' \in Seq(Bytes) /\ Len(wire') <= Len(wire) + 1
         /\ heldNow' \in [Router!Players -> Offsets \cup {NoKey}]
         /\ toPost' \in Seq(SynthWords) /\ Len(toPost') <= 4
         /\ toDispatch' \in Seq(KeyEventType) /\ Len(toDispatch') <= 2
<1>1. PICK ev \in event \cap Router!Events :
        /\ wire' = IF Router!Mirrors(ev) THEN Append(wire, SendByte(ev.note, ev.pressed))
                                         ELSE wire
        /\ heldNow' = [p \in Router!Players |-> Router!Outcome(p, ev).held]
        /\ toPost' = Router!WordsOf("remote", Router!Outcome("remote", ev).posts)
                       \o Router!WordsOf("local", Router!Outcome("local", ev).posts)
        /\ toDispatch' = IF HasKeySink THEN Router!Outcome("local", ev).keys ELSE <<>>
        /\ Router!RecordEvent(ev)
  BY DEF Route, TypeOK
<1>2. /\ ev \in Router!Events
      /\ "local" \in Router!Players /\ "remote" \in Router!Players
      /\ heldNow \in [Router!Players -> Offsets \cup {NoKey}]
  BY RouterOperators DEF TypeOK
<1>3. \A p \in Router!Players :
        /\ ev.note \in Int /\ ev.pressed \in BOOLEAN
        /\ Router!Outcome(p, ev).held \in Offsets \cup {NoKey}
        /\ Router!Outcome(p, ev).keys \in Seq(KeyEventType)
        /\ Len(Router!Outcome(p, ev).keys) <= 2
        /\ Router!WordsOf(p, Router!Outcome(p, ev).posts) \in Seq(SynthWords)
        /\ Len(Router!WordsOf(p, Router!Outcome(p, ev).posts)) <= 2
  BY <1>2, OutcomeType
<1>4. wire' \in Seq(Bytes) /\ Len(wire') <= Len(wire) + 1
  <2>1. SendByte(ev.note, ev.pressed) \in Bytes
    BY <1>2, <1>3, SendByteType
  <2>2. wire \in Seq(Bytes) /\ Len(wire) \in Nat
    BY MainLengths DEF TypeOK
  <2> QED
    BY <1>1, <2>1, <2>2, AppendProperties
<1>5. heldNow' \in [Router!Players -> Offsets \cup {NoKey}]
  BY <1>1, <1>3
<1>6. toPost' \in Seq(SynthWords) /\ Len(toPost') <= 4
  <2> DEFINE r == Router!WordsOf("remote", Router!Outcome("remote", ev).posts)
             l == Router!WordsOf("local", Router!Outcome("local", ev).posts)
  <2>1. /\ r \in Seq(SynthWords) /\ l \in Seq(SynthWords)
        /\ Len(r) <= 2 /\ Len(l) <= 2 /\ toPost' = r \o l
    BY <1>1, <1>2, <1>3
  <2> HIDE DEF r, l
  <2>2. Len(r) \in Nat /\ Len(l) \in Nat
    BY <2>1, LenProperties
  <2> QED
    BY <2>1, <2>2, ConcatProperties
<1>7. toDispatch' \in Seq(KeyEventType) /\ Len(toDispatch') <= 2
  BY <1>1, <1>2, <1>3, EmptySeq
<1> QED
  BY <1>1, <1>4, <1>5, <1>6, <1>7

LEMMA RouteInv ==
  ASSUME MainInv, Route
  PROVE  MainInv'
<1>1. RingInv' /\ posted' = posted /\ postPc' = postPc
  BY StutterRingInv, RingAtRest DEF MainInv, Route
<1>2. UNCHANGED <<keyboard, messages, sourceQueue, event, keyQueue, keysDown, sounding>>
      /\ mainPc = "route" /\ mainPc' = "play"
  BY DEF Route, sourceVars, keySinkVars
<1>3. /\ wire' \in Seq(Bytes) /\ Len(wire') <= Len(wire) + 1
      /\ heldNow' \in [Router!Players -> Offsets \cup {NoKey}]
      /\ toPost' \in Seq(SynthWords) /\ Len(toPost') <= 4
      /\ toDispatch' \in Seq(KeyEventType) /\ Len(toDispatch') <= 2
  BY RouteLeaves DEF MainInv
<1>4. TypeOK'
  BY <1>1, <1>2, <1>3 DEF MainInv, TypeOK, KeySinkTypeOK, RingInv, KeyEventType
<1>5. Stages'
  BY <1>2 DEF Stages
<1>6. Bounds'
  <2>1. /\ Len(posted) + Len(toPost) <= 4 * routed
        /\ Len(keyQueue) + Len(toDispatch) <= 2 * routed
        /\ Len(wire) <= routed
        /\ Len(toPost) = 0 /\ Len(toDispatch) = 0
    BY <1>2 DEF MainInv, Bounds, Stages
  <2>2. routed' = routed + 1
    BY <1>2, MainLengths DEF routed, MainInv
  <2>3. /\ Len(toPost') \in Nat /\ Len(toDispatch') \in Nat /\ Len(wire') \in Nat
        /\ Len(posted) \in Nat /\ Len(keyQueue) \in Nat /\ Len(wire) \in Nat /\ routed \in Int
    BY <1>3, MainLengths, LenProperties DEF MainInv
  <2>4. /\ Len(posted) + Len(toPost') <= 4 * (routed + 1)
        /\ Len(keyQueue) + Len(toDispatch') <= 2 * (routed + 1)
        /\ Len(wire') <= routed + 1
    BY <1>3, <2>1, <2>3
  <2> QED
    BY <1>1, <1>2, <2>2, <2>4 DEF Bounds
<1> QED
  BY <1>1, <1>4, <1>5, <1>6 DEF MainInv

LEMMA StoreWordInv ==
  ASSUME MainInv, StoreWord
  PROVE  MainInv'
<1>1. /\ Head(toPost) \in SynthWords /\ toPost' \in Seq(SynthWords)
      /\ Len(toPost') = Len(toPost) - 1
  BY HeadTailProperties DEF StoreWord, MainInv, TypeOK
<1>2. RingInv'
  BY <1>1, StoreSlotRingInv, MainConstants DEF StoreWord, MainInv
<1>3. Len(posted') = Len(posted) + 1
  BY <1>1, MainConstants, AppendProperties DEF StoreWord, StoreSlot, MainInv, TypeOK, RingTypeOK
<1>4. UNCHANGED <<keyboard, messages, sourceQueue, event, heldNow, toDispatch, wire, keyQueue,
                  keysDown, sounding>> /\ mainPc = "play" /\ mainPc' = "play"
  BY DEF StoreWord, sourceVars, keySinkVars
<1>5. TypeOK'
  BY <1>1, <1>2, <1>4 DEF MainInv, TypeOK, KeySinkTypeOK, RingInv
<1>6. Stages' /\ Bounds'
  <2>1. routed' = routed
    BY <1>4 DEF routed
  <2>2. Len(posted') + Len(toPost') = Len(posted) + Len(toPost)
    BY <1>1, <1>3, MainLengths DEF MainInv
  <2> QED
    BY <1>4, <2>1, <2>2 DEF MainInv, Stages, Bounds
<1> QED
  BY <1>2, <1>5, <1>6 DEF MainInv

LEMMA PublishWordInv ==
  ASSUME MainInv, PublishWord
  PROVE  MainInv'
<1>1. RingInv' /\ posted' = posted /\ postPc' = "idle"
  BY PublishRingInv DEF MainInv, PublishWord, Publish
<1>2. UNCHANGED <<keyboard, messages, sourceQueue, mainPc, event, heldNow, toPost, toDispatch,
                  wire, keyQueue, keysDown, sounding>>
  BY DEF PublishWord, sourceVars, mainVars, keySinkVars
<1>3. TypeOK'
  BY <1>1, <1>2 DEF MainInv, TypeOK, KeySinkTypeOK, RingInv
<1>4. Stages' /\ Bounds'
  BY <1>1, <1>2 DEF MainInv, Stages, Bounds, routed
<1> QED
  BY <1>1, <1>3, <1>4 DEF MainInv

\* A dispatch appends its requests.
LEMMA DispatchAppends ==
  ASSUME TypeOK, NEW es \in Seq(KeyEventType), Dispatch(es)
  PROVE  /\ KeySinkTypeOK' /\ keysDown' = keysDown
         /\ Len(keyQueue') = Len(keyQueue) + Len(es)
<1>1. /\ keyQueue' = keyQueue \o [i \in DOMAIN es |-> Request(es[i])]
      /\ keysDown' = keysDown
  BY DEF Dispatch
<1> DEFINE rs == [i \in DOMAIN es |-> Request(es[i])]
<1>2. rs \in Seq(KeyRequests) /\ Len(rs) = Len(es)
  BY RequestsType
<1>3. keyQueue \in Seq(KeyRequests) /\ keysDown \in SUBSET KeyCodes /\ keyQueue' = keyQueue \o rs
  BY <1>1 DEF TypeOK, KeySinkTypeOK
<1> HIDE DEF rs
<1>4. keyQueue' \in Seq(KeyRequests) /\ Len(keyQueue') = Len(keyQueue) + Len(rs)
  BY <1>2, <1>3, ConcatProperties
<1> QED
  BY <1>1, <1>2, <1>3, <1>4 DEF KeySinkTypeOK

LEMMA DispatchKeyInv ==
  ASSUME MainInv, DispatchKey
  PROVE  MainInv'
<1>1. RingInv' /\ posted' = posted /\ postPc' = postPc
  BY StutterRingInv, RingAtRest DEF MainInv, DispatchKey
<1>2. /\ Head(toDispatch) \in KeyEventType /\ toDispatch' \in Seq(KeyEventType)
      /\ Len(toDispatch') = Len(toDispatch) - 1
  BY HeadTailProperties DEF DispatchKey, MainInv, TypeOK, KeyEventType
<1>3. KeySinkTypeOK' /\ Len(keyQueue') = Len(keyQueue) + 1
  <2>1. <<Head(toDispatch)>> \in Seq(KeyEventType) /\ Len(<<Head(toDispatch)>>) = 1
    BY <1>2, SmallSeq
  <2> QED
    BY <2>1, DispatchAppends DEF DispatchKey, MainInv
<1>4. UNCHANGED <<keyboard, messages, sourceQueue, mainPc, event, heldNow, toPost, wire,
                  sounding>> /\ mainPc = "play"
  BY DEF DispatchKey, sourceVars
<1>5. TypeOK'
  BY <1>1, <1>2, <1>3, <1>4 DEF MainInv, TypeOK, RingInv, KeyEventType
<1>6. Stages' /\ Bounds'
  <2>1. routed' = routed
    BY <1>4 DEF routed
  <2>2. Len(keyQueue') + Len(toDispatch') = Len(keyQueue) + Len(toDispatch)
    BY <1>2, <1>3, MainLengths DEF MainInv
  <2> QED
    BY <1>1, <1>4, <2>1, <2>2 DEF MainInv, Stages, Bounds
<1> QED
  BY <1>1, <1>5, <1>6 DEF MainInv

LEMMA NextIterationInv ==
  ASSUME MainInv, NextIteration
  PROVE  MainInv'
<1>1. RingInv' /\ posted' = posted /\ postPc' = postPc
  BY StutterRingInv, RingAtRest DEF MainInv, NextIteration
<1>2. /\ UNCHANGED <<keyboard, messages, sourceQueue, heldNow, toPost, toDispatch, wire,
                     keyQueue, keysDown, sounding>>
      /\ mainPc = "play" /\ mainPc' = "wait" /\ event' = {}
      /\ toPost = <<>> /\ postPc = "idle" /\ toDispatch = <<>>
  BY DEF NextIteration, sourceVars, keySinkVars
<1>3. TypeOK'
  BY <1>1, <1>2 DEF MainInv, TypeOK, KeySinkTypeOK, RingInv
<1>4. Stages' /\ Bounds'
  BY <1>1, <1>2 DEF MainInv, Stages, Bounds, routed
<1> QED
  BY <1>1, <1>3, <1>4 DEF MainInv

\* The key events of the exit path.
ExitEvents ==
  IF HasKeySink /\ heldNow["local"] >= 0 THEN <<KeyEvent(heldNow["local"], FALSE)>> ELSE <<>>

LEMMA ExitEventsType ==
  ASSUME TypeOK
  PROVE  ExitEvents \in Seq(KeyEventType)
<1>1. CASE HasKeySink /\ heldNow["local"] >= 0
  <2>1. heldNow["local"] \in Offsets
    BY <1>1, RouterOperators DEF TypeOK, NoKey
  <2>2. KeyEvent(heldNow["local"], FALSE) \in KeyEventType
    BY <2>1 DEF KeyEvent, KeyEventType
  <2> QED
    BY <1>1, <2>2, SmallSeq DEF ExitEvents
<1>2. CASE ~(HasKeySink /\ heldNow["local"] >= 0)
  BY <1>2, EmptySeq DEF ExitEvents
<1> QED
  BY <1>1, <1>2

LEMMA ReleaseOnExitInv ==
  ASSUME MainInv, ReleaseOnExit
  PROVE  MainInv'
<1>1. RingInv' /\ posted' = posted /\ postPc' = postPc
  BY StutterRingInv, RingAtRest DEF MainInv, ReleaseOnExit
<1>2. /\ UNCHANGED <<keyboard, messages, sourceQueue, event, heldNow, toPost, toDispatch, wire,
                     sounding>>
      /\ mainPc = "exit" /\ mainPc' = "done"
  BY DEF ReleaseOnExit, sourceVars
<1>3. KeySinkTypeOK'
  <2>1. Dispatch(ExitEvents)
    BY DEF ReleaseOnExit, ExitEvents
  <2> QED
    BY <2>1, ExitEventsType, DispatchAppends DEF MainInv
<1>4. TypeOK'
  BY <1>1, <1>2, <1>3 DEF MainInv, TypeOK, RingInv
<1>5. Stages' /\ Bounds'
  BY <1>1, <1>2 DEF MainInv, Stages, Bounds
<1> QED
  BY <1>1, <1>4, <1>5 DEF MainInv

LEMMA MixSamplesInv ==
  ASSUME MainInv, MixSamples
  PROVE  MainInv'
<1>1. UNCHANGED <<keyboard, messages, sourceQueue, mainPc, event, heldNow, toPost, toDispatch,
                  wire, keyQueue, keysDown>>
  BY DEF MixSamples, ReadWord, sourceVars, mainVars, keySinkVars
<1>2. RingInv' /\ posted' = posted /\ postPc' = postPc
  <2>1. RingInv'
    BY ReadSlotRingInv, LoadTargetRingInv, LoopEndsRingInv, RenderRingInv
       DEF MixSamples, ReadWord, MainInv
  <2> QED
    BY <2>1 DEF MixSamples, ReadWord, ReadSlot, LoadTarget, LoopEnds, Render, postVars
<1>3. sounding' \in [Channels -> SUBSET FmKeys]
  <2>1. CASE ReadWord
    <3>1. ring[readCount % RingSize] \in SynthWords
      <4>1. ring[readCount % RingSize] \in Words \cup {Zero}
        BY <2>1, ReadSlotReads DEF MainInv, ReadWord
      <4>2. Zero \in SynthWords
        BY MainConstants DEF SynthWords, Channels, FmKeys
      <4> QED
        BY <4>1, <4>2, MainConstants
    <3> DEFINE w == ring[readCount % RingSize]
    <3>2. sounding' = ApplyWord(sounding, w) /\ w \in SynthWords
      BY <2>1, <3>1 DEF ReadWord
    <3> HIDE DEF w
    <3> QED
      BY <3>2 DEF MainInv, TypeOK, ApplyWord, SynthWords
  <2>2. CASE ~ReadWord
    BY <2>2 DEF MixSamples, MainInv, TypeOK
  <2> QED
    BY <2>1, <2>2
<1>4. TypeOK'
  BY <1>1, <1>2, <1>3 DEF MainInv, TypeOK, KeySinkTypeOK, RingInv
<1>5. Stages' /\ Bounds'
  BY <1>1, <1>2 DEF MainInv, Stages, Bounds, routed
<1> QED
  BY <1>2, <1>4, <1>5 DEF MainInv

LEMMA ReplayKeyInv ==
  ASSUME MainInv, ReplayKey
  PROVE  MainInv'
<1>1. RingInv' /\ posted' = posted /\ postPc' = postPc
  BY StutterRingInv, RingAtRest DEF MainInv, ReplayKey
<1>2. UNCHANGED <<keyboard, messages, sourceQueue, mainPc, event, heldNow, toPost, toDispatch,
                  wire, sounding>>
  BY DEF ReplayKey, sourceVars, mainVars
<1>3. /\ Head(keyQueue) \in KeyRequests /\ Tail(keyQueue) \in Seq(KeyRequests)
      /\ Len(keyQueue') = Len(keyQueue) - 1
  BY HeadTailProperties DEF ReplayKey, ReplayRequest, MainInv, TypeOK, KeySinkTypeOK
<1>4. KeySinkTypeOK'
  BY <1>3 DEF ReplayKey, ReplayRequest, MainInv, TypeOK, KeySinkTypeOK, KeyRequests
<1>5. TypeOK'
  BY <1>1, <1>2, <1>4 DEF MainInv, TypeOK, RingInv
<1>6. Stages' /\ Bounds'
  <2>1. routed' = routed /\ routed \in Int
    BY <1>2, MainLengths DEF routed, MainInv
  <2> QED
    BY <1>1, <1>2, <1>3, <2>1, MainLengths DEF MainInv, Stages, Bounds
<1> QED
  BY <1>1, <1>5, <1>6 DEF MainInv

LEMMA TakeDatagramInv ==
  ASSUME MainInv, TakeDatagram
  PROVE  MainInv'
<1>1. RingInv' /\ posted' = posted /\ postPc' = postPc
  BY StutterRingInv, RingAtRest DEF MainInv, TakeDatagram
<1>2. UNCHANGED <<keyboard, messages, sourceQueue, mainPc, event, heldNow, toPost, toDispatch,
                  keyQueue, keysDown, sounding>>
  BY DEF TakeDatagram, sourceVars, keySinkVars
<1>3. wire' \in Seq(Bytes) /\ Len(wire') = Len(wire) - 1
  BY HeadTailProperties DEF TakeDatagram, MainInv, TypeOK
<1>4. TypeOK'
  BY <1>1, <1>2, <1>3 DEF MainInv, TypeOK, KeySinkTypeOK, RingInv
<1>5. Stages' /\ Bounds'
  <2>1. routed' = routed /\ routed \in Int
    BY <1>2, MainLengths DEF routed, MainInv
  <2> QED
    BY <1>1, <1>2, <1>3, <2>1, MainLengths DEF MainInv, Stages, Bounds
<1> QED
  BY <1>1, <1>4, <1>5 DEF MainInv

LEMMA StutterInv ==
  ASSUME MainInv, UNCHANGED vars
  PROVE  MainInv'
<1>1. RingInv' /\ posted' = posted /\ postPc' = postPc
  BY StutterRingInv, RingAtRest DEF MainInv, vars
<1>2. UNCHANGED <<keyboard, messages, sourceQueue, mainPc, event, heldNow, toPost, toDispatch,
                  wire, keyQueue, keysDown, sounding>>
  BY DEF vars, sourceVars, mainVars, keySinkVars
<1>3. TypeOK'
  BY <1>1, <1>2 DEF MainInv, TypeOK, KeySinkTypeOK, RingInv
<1>4. Stages' /\ Bounds'
  BY <1>1, <1>2 DEF MainInv, Stages, Bounds, routed
<1> QED
  BY <1>1, <1>3, <1>4 DEF MainInv

LEMMA NextMainInv == MainInv /\ [Next]_vars => MainInv'
BY PlayInv, TakeEventInv, BreakInv, RouteInv, StoreWordInv, PublishWordInv, DispatchKeyInv,
   NextIterationInv, ReleaseOnExitInv, MixSamplesInv, ReplayKeyInv, TakeDatagramInv, StutterInv
   DEF Next, MainStep

LEMMA MainInvariant == Spec => []MainInv
BY InitMainInv, NextMainInv, PTL DEF Spec

\* The threads together keep the types of their states: no word, no offset, no
\* key code and no datagram out of range reaches a neighbour, in whatever
\* order the threads run.
THEOREM TypeCorrect == Spec => []TypeOK
<1>1. MainInv => TypeOK
  BY DEF MainInv
<1> QED
  BY <1>1, MainInvariant, PTL

-----------------------------------------------------------------------------
(* The refinement: what NoteRouter sees of the state, and which of its       *)
(* actions each step of the threads is.                                      *)

routerPhase == IF mainPc \in {"exit", "done"} THEN mainPc ELSE "loop"
routerNotes == UnreadWords \o toPost
routerKeys == keyQueue \o RequestsToCome

\* A step that NoteRouter does not see.
Hidden ==
  UNCHANGED <<routerPhase, routerNotes, routerKeys, keysDown, wire, heldNow, sounding,
              notesDown, lastPressed>>

LEMMA HiddenStutters == Hidden => UNCHANGED Router!vars
BY DEF Hidden, Router!vars, Router!keySinkVars, Router!routerVars, routerPhase, routerNotes,
       routerKeys

LEMMA Unread ==
  ASSUME MainInv
  PROVE  /\ posted \in Seq(SynthWords) /\ Len(posted) \in Nat /\ Len(consumed) \in 0 .. Len(posted)
         /\ UnreadWords \in Seq(SynthWords) /\ Len(UnreadWords) = Len(posted) - Len(consumed)
<1>1. /\ posted \in Seq(SynthWords) /\ Len(posted) \in Nat /\ Len(consumed) \in Nat
      /\ published \in Nat
  BY MainConstants, MainLengths DEF MainInv, RingInv, RingTypeOK
<1>2. Len(consumed) <= Len(posted)
  BY <1>1 DEF MainInv, RingInv, Counting
<1>3. \A i \in Len(consumed) + 1 .. Len(posted) : posted[i] \in SynthWords
  BY <1>1, <1>2, ElementOfSeq
<1>4. /\ UnreadWords \in Seq(SynthWords)
      /\ Len(UnreadWords) = IF Len(consumed) + 1 <= Len(posted)
                           THEN Len(posted) - (Len(consumed) + 1) + 1 ELSE 0
  BY <1>1, <1>3, SubSeqProperties DEF UnreadWords
<1> QED
  BY <1>1, <1>2, <1>4

\* The queues of NoteRouter, in their types.
LEMMA RouterQueues ==
  ASSUME MainInv
  PROVE  /\ toPost \in Seq(SynthWords) /\ routerNotes \in Seq(SynthWords)
         /\ Len(routerNotes) = Len(UnreadWords) + Len(toPost)
         /\ keyQueue \in Seq(KeyRequests) /\ RequestsToCome \in Seq(KeyRequests)
         /\ Len(RequestsToCome) = Len(toDispatch)
         /\ routerKeys \in Seq(KeyRequests)
         /\ Len(routerKeys) = Len(keyQueue) + Len(toDispatch)
<1>1. toPost \in Seq(SynthWords) /\ keyQueue \in Seq(KeyRequests) /\ toDispatch \in Seq(KeyEventType)
  BY DEF MainInv, TypeOK, KeySinkTypeOK, KeyEventType
<1>2. UnreadWords \in Seq(SynthWords)
  BY Unread
<1>3. RequestsToCome \in Seq(KeyRequests) /\ Len(RequestsToCome) = Len(toDispatch)
  BY <1>1, RequestsType DEF RequestsToCome
<1>4. routerNotes \in Seq(SynthWords) /\ Len(routerNotes) = Len(UnreadWords) + Len(toPost)
  BY <1>1, <1>2, ConcatProperties DEF routerNotes
<1>5. routerKeys \in Seq(KeyRequests) /\ Len(routerKeys) = Len(keyQueue) + Len(RequestsToCome)
  BY <1>1, <1>3, ConcatProperties DEF routerKeys
<1> QED
  BY <1>1, <1>3, <1>4, <1>5

LEMMA InitRefines == Init => Router!Init
<1> SUFFICES ASSUME Init PROVE Router!Init
  OBVIOUS
<1>1. UnreadWords \o toPost = <<>>
  <2>1. posted = <<>> /\ consumed = <<>> /\ toPost = <<>>
    BY DEF Init, RingInit
  <2>2. UnreadWords = <<>>
    BY <2>1, SubSeqEmpty DEF UnreadWords
  <2> QED
    BY <2>1, <2>2
<1>2. keyQueue \o RequestsToCome = <<>>
  BY DEF Init, KeySinkInit, RequestsToCome
<1>3. heldNow = [p \in Router!Players |-> Router!NoKey]
  BY RouterOperators DEF Init
<1> QED
  BY <1>1, <1>2, <1>3 DEF Init, Router!Init, Router!KeySinkInit, KeySinkInit, Router!Channels,
                          Channels

\* The ring and the queue of key requests at rest, with no event under way
\* gone or come, leave NoteRouter's queues as they are.
LEMMA QueuesAtRest ==
  ASSUME UNCHANGED <<posted, consumed, toPost, keyQueue, toDispatch>>
  PROVE  routerNotes' = routerNotes /\ routerKeys' = routerKeys
BY DEF routerNotes, routerKeys, UnreadWords, RequestsToCome

LEMMA PlayHidden ==
  ASSUME NEW key \in Notes, NEW pressed \in BOOLEAN, Play(key, pressed)
  PROVE  Hidden
<1>1. posted' = posted /\ consumed' = consumed
  BY RingAtRest DEF Play
<1> QED
  BY <1>1, QueuesAtRest DEF Play, Hidden, routerPhase, mainVars, keySinkVars

LEMMA TakeEventHidden ==
  ASSUME TakeEvent
  PROVE  Hidden
<1>1. posted' = posted /\ consumed' = consumed
  BY RingAtRest DEF TakeEvent
<1> QED
  BY <1>1, QueuesAtRest DEF TakeEvent, Hidden, routerPhase, keySinkVars

LEMMA NextIterationHidden ==
  ASSUME NextIteration
  PROVE  Hidden
<1>1. posted' = posted /\ consumed' = consumed
  BY RingAtRest DEF NextIteration
<1> QED
  BY <1>1, QueuesAtRest DEF NextIteration, Hidden, routerPhase, keySinkVars

LEMMA PublishWordHidden ==
  ASSUME PublishWord
  PROVE  Hidden
<1>1. posted' = posted /\ consumed' = consumed
  BY DEF PublishWord, Publish, mixVars
<1> QED
  BY <1>1, QueuesAtRest DEF PublishWord, Hidden, routerPhase, mainVars, keySinkVars

\* The audio thread's steps other than the reading of a word.
LEMMA MixHidden ==
  ASSUME MixSamples, ~ReadWord
  PROVE  Hidden
<1>1. posted' = posted /\ consumed' = consumed
  BY DEF MixSamples, LoadTarget, LoopEnds, Render, postVars
<1> QED
  BY <1>1, QueuesAtRest DEF MixSamples, Hidden, routerPhase, mainVars, keySinkVars

\* A word that is stored moves from those to come to those not read yet.
LEMMA StoreWordHidden ==
  ASSUME MainInv, StoreWord
  PROVE  Hidden
<1> DEFINE w == Head(toPost)
           c == Len(consumed)
<1>1. /\ toPost \in Seq(SynthWords) /\ toPost # <<>> /\ toPost' = Tail(toPost)
      /\ w \in SynthWords
  BY HeadTailProperties DEF StoreWord, MainInv, TypeOK
<1>2. posted' = Append(posted, w) /\ consumed' = consumed
  BY DEF StoreWord, StoreSlot, mixVars
<1>3. /\ posted \in Seq(SynthWords) /\ Len(posted) \in Nat /\ c \in 0 .. Len(posted)
      /\ UnreadWords \in Seq(SynthWords)
  BY Unread
<1> HIDE DEF w
<1>4. Len(posted') = Len(posted) + 1
  BY <1>1, <1>2, <1>3, AppendProperties
<1>5. UnreadWords' = Append(UnreadWords, w)
  <2>1. UnreadWords' = SubSeq(posted', c + 1, Len(posted'))
    BY <1>2 DEF UnreadWords
  <2>2. UnreadWords' = SubSeq(Append(posted, w), c + 1, Len(posted) + 1)
    BY <1>2, <1>4, <2>1
  <2>3. UnreadWords' = Append(SubSeq(posted, c + 1, Len(posted)), w)
    BY <1>1, <1>3, <2>2, SuffixGrows
  <2> QED
    BY <2>3 DEF UnreadWords
<1>6. routerNotes' = routerNotes
  <2>1. Append(UnreadWords, Head(toPost)) \o Tail(toPost) = UnreadWords \o toPost
    BY <1>1, <1>3, ConcatMoves
  <2>2. routerNotes' = Append(UnreadWords, Head(toPost)) \o Tail(toPost)
    BY <1>1, <1>5 DEF routerNotes, w
  <2> QED
    BY <2>1, <2>2 DEF routerNotes
<1>7. routerKeys' = routerKeys
  BY DEF StoreWord, keySinkVars, routerKeys, RequestsToCome
<1> QED
  BY <1>6, <1>7 DEF StoreWord, Hidden, routerPhase, keySinkVars

\* So does a key event that is dispatched.
LEMMA DispatchKeyHidden ==
  ASSUME MainInv, DispatchKey
  PROVE  Hidden
<1> DEFINE e == Head(toDispatch)
<1>1. /\ toDispatch \in Seq(KeyEventType) /\ toDispatch # <<>> /\ toDispatch' = Tail(toDispatch)
      /\ e \in KeyEventType /\ Tail(toDispatch) \in Seq(KeyEventType)
  BY HeadTailProperties DEF DispatchKey, MainInv, TypeOK, KeyEventType
<1>2. /\ keyQueue \in Seq(KeyRequests) /\ RequestsToCome \in Seq(KeyRequests)
      /\ Len(RequestsToCome) = Len(toDispatch)
  BY RouterQueues
<1>3. Len(toDispatch) \in Nat \ {0} /\ RequestsToCome # <<>>
  <2>1. Len(toDispatch) \in Nat \ {0}
    BY <1>1, EmptySeq
  <2> QED
    BY <1>2, <2>1
<1>4. Head(RequestsToCome) = Request(e)
  <2>1. Head(RequestsToCome) = RequestsToCome[1] /\ e = toDispatch[1] /\ 1 \in 1 .. Len(toDispatch)
    BY <1>1, <1>2, <1>3
  <2>2. RequestsToCome[1] = Request(toDispatch[1])
    BY <1>1, <2>1, RequestsType DEF RequestsToCome
  <2> QED
    BY <2>1, <2>2
<1>5. Tail(RequestsToCome) = RequestsToCome'
  <2> DEFINE t == Tail(toDispatch)
             rs == RequestsToCome
  <2>1. /\ Tail(rs) \in Seq(KeyRequests) /\ Len(Tail(rs)) = Len(rs) - 1
        /\ \A i \in 1 .. Len(Tail(rs)) : Tail(rs)[i] = rs[i + 1]
    BY <1>2, <1>3, HeadTailProperties
  <2>2. /\ Len(t) = Len(toDispatch) - 1
        /\ \A i \in 1 .. Len(t) : t[i] = toDispatch[i + 1]
    BY <1>1, HeadTailProperties
  <2>3. RequestsToCome' = [i \in DOMAIN t |-> Request(t[i])]
    BY <1>1 DEF RequestsToCome, Request, CodeTable
  <2>4. /\ RequestsToCome' \in Seq(KeyRequests) /\ Len(RequestsToCome') = Len(t)
        /\ \A i \in 1 .. Len(t) : RequestsToCome'[i] = Request(t[i])
    BY <1>1, <2>3, RequestsType
  <2>5. \A i \in 1 .. Len(toDispatch) : rs[i] = Request(toDispatch[i])
    BY <1>1, RequestsType DEF RequestsToCome
  <2> HIDE DEF t, rs
  <2>6. \A i \in 1 .. Len(Tail(rs)) : Tail(rs)[i] = RequestsToCome'[i]
    <3> TAKE i \in 1 .. Len(Tail(rs))
    <3>1. i \in 1 .. Len(t) /\ i + 1 \in 1 .. Len(toDispatch)
      BY <1>2, <1>3, <2>1, <2>2 DEF rs
    <3> QED
      BY <2>1, <2>2, <2>4, <2>5, <3>1
  <2>7. Len(Tail(rs)) = Len(RequestsToCome')
    BY <1>2, <2>1, <2>2, <2>4 DEF rs
  <2> QED
    BY <2>1, <2>4, <2>6, <2>7, SeqEqual DEF rs
<1>6. keyQueue' = Append(keyQueue, Request(e))
  <2>1. keyQueue' = keyQueue \o [i \in DOMAIN <<e>> |-> Request(<<e>>[i])]
    BY DEF DispatchKey, Dispatch
  <2>2. [i \in DOMAIN <<e>> |-> Request(<<e>>[i])] = <<Request(e)>>
    <3> HIDE DEF e
    <3> QED
      OBVIOUS
  <2>3. Request(e) \in KeyRequests
    BY <1>1, RequestType
  <2> HIDE DEF e
  <2> QED
    BY <1>2, <2>1, <2>2, <2>3, AppendIsConcat
<1>7. routerKeys' = routerKeys
  <2>1. Append(keyQueue, Head(RequestsToCome)) \o Tail(RequestsToCome)
          = keyQueue \o RequestsToCome
    BY <1>2, <1>3, ConcatMoves
  <2> QED
    BY <1>4, <1>5, <1>6, <2>1 DEF routerKeys
<1>8. routerNotes' = routerNotes
  <2>1. posted' = posted /\ consumed' = consumed /\ toPost' = toPost
    BY RingAtRest DEF DispatchKey
  <2> QED
    BY <2>1 DEF routerNotes, UnreadWords
<1> QED
  BY <1>7, <1>8 DEF DispatchKey, Dispatch, Hidden, routerPhase

\* The event that is routed is played at once: its words and key events are
\* those still to come, and there were none.
LEMMA RouteRefines ==
  ASSUME MainInv, Route
  PROVE  \E ev \in Router!Events : Router!RouteEvent(ev)
<1>1. /\ mainPc = "route" /\ mainPc' = "play"
      /\ UNCHANGED <<keyQueue, keysDown, sounding>> /\ posted' = posted /\ consumed' = consumed
  BY RingAtRest DEF Route, keySinkVars
<1>2. toPost = <<>> /\ toDispatch = <<>>
  BY <1>1 DEF MainInv, Stages
<1>3. PICK ev \in Router!Events :
        /\ wire' = IF Router!Mirrors(ev) THEN Append(wire, SendByte(ev.note, ev.pressed))
                                         ELSE wire
        /\ heldNow' = [p \in Router!Players |-> Router!Outcome(p, ev).held]
        /\ toPost' = Router!WordsOf("remote", Router!Outcome("remote", ev).posts)
                       \o Router!WordsOf("local", Router!Outcome("local", ev).posts)
        /\ toDispatch' = IF HasKeySink THEN Router!Outcome("local", ev).keys ELSE <<>>
        /\ Router!RecordEvent(ev)
  BY RouteLeaves DEF MainInv
<1> DEFINE r == Router!WordsOf("remote", Router!Outcome("remote", ev).posts)
           l == Router!WordsOf("local", Router!Outcome("local", ev).posts)
           es == IF HasKeySink THEN Router!Outcome("local", ev).keys ELSE <<>>
<1>4. r \in Seq(SynthWords) /\ l \in Seq(SynthWords) /\ es \in Seq(KeyEventType)
  <2>1. /\ "local" \in Router!Players /\ "remote" \in Router!Players
        /\ heldNow \in [Router!Players -> Offsets \cup {NoKey}]
    BY RouterOperators DEF MainInv, TypeOK
  <2> QED
    BY <2>1, OutcomeType, EmptySeq
<1>5. UnreadWords \in Seq(SynthWords) /\ keyQueue \in Seq(KeyRequests)
  BY Unread, RouterQueues
<1>6. Router!QueuesAdmit
  <2>1. /\ Len(posted) + Len(toPost) <= 4 * routed
        /\ Len(keyQueue) + Len(toDispatch) <= 2 * routed
        /\ Len(wire) <= routed
    BY <1>1 DEF MainInv, Bounds
  <2>2. routed \in Int /\ MaxMessages \in Nat /\ routed <= MaxMessages
    BY <1>1, MainLengths DEF MainInv, routed
  <2>3. /\ Len(routerNotes) = Len(posted) - Len(consumed) + Len(toPost)
        /\ Len(routerKeys) = Len(keyQueue) + Len(toDispatch)
    BY Unread, RouterQueues
  <2>4. /\ Len(posted) \in Nat /\ Len(toPost) \in Nat /\ Len(consumed) \in Nat
        /\ Len(keyQueue) \in Nat /\ Len(toDispatch) \in Nat /\ Len(wire) \in Nat
    BY MainLengths DEF MainInv
  <2>5. /\ Len(routerKeys) <= 4 * MaxMessages
        /\ Len(routerNotes) <= 4 * MaxMessages
        /\ Len(wire) <= 4 * MaxMessages
    BY <2>1, <2>2, <2>3, <2>4
  <2> QED
    BY <2>5 DEF Router!QueuesAdmit, routerNotes, routerKeys
<1>7. (UnreadWords \o toPost)' = (UnreadWords \o toPost) \o r \o l
  <2>1. (UnreadWords \o toPost)' = UnreadWords \o (r \o l)
    BY <1>1, <1>3 DEF UnreadWords
  <2>2. UnreadWords \o toPost = UnreadWords
    BY <1>2, <1>5, ConcatEmptySeq
  <2> HIDE DEF r, l
  <2>3. UnreadWords \o (r \o l) = (UnreadWords \o r) \o l
    BY <1>4, <1>5, ConcatAssociative
  <2> QED
    BY <2>1, <2>2, <2>3
<1>8. (keyQueue \o RequestsToCome)'
        = (keyQueue \o RequestsToCome) \o [i \in DOMAIN es |-> Router!Request(es[i])]
  <2>1. RequestsToCome = <<>>
    BY <1>2 DEF RequestsToCome
  <2>2. keyQueue \o RequestsToCome = keyQueue
    BY <1>5, <2>1, ConcatEmptySeq
  <2>3. toDispatch' = es
    BY <1>3
  <2> HIDE DEF es
  <2>4. RequestsToCome' = [i \in DOMAIN es |-> Request(es[i])]
    BY <2>3 DEF RequestsToCome, Request, CodeTable
  <2>5. RequestsToCome' = [i \in DOMAIN es |-> Router!Request(es[i])]
    BY <2>4, RouterOperators
  <2> QED
    BY <1>1, <2>2, <2>5
<1>9. Router!PlayNote(ev)
  <2>1. Router!Dispatch(es)
    BY <1>1, <1>8 DEF Router!Dispatch
  <2> QED
    BY <1>3, <1>7, <2>1 DEF Router!PlayNote
<1>10. wire' = IF Router!Mirrors(ev) THEN Append(wire, Router!SendByte(ev.note, ev.pressed)) ELSE wire
  BY <1>3, RouterOperators
<1>11. Router!RouteEvent(ev)
  BY <1>1, <1>3, <1>6, <1>9, <1>10 DEF Router!RouteEvent
<1> QED
  BY <1>11

LEMMA BreakRefines ==
  ASSUME MainInv, SourceFails \/ SendFails
  PROVE  Router!SourceFails \/ \E ev \in Router!Events : Router!SendFails(ev)
<1>1. /\ mainPc' = "exit" /\ mainPc \in {"wait", "route"}
      /\ UNCHANGED <<wire, heldNow, sounding, notesDown, lastPressed, keysDown>>
      /\ posted' = posted /\ consumed' = consumed
      /\ UNCHANGED <<toPost, keyQueue, toDispatch>>
  BY RingAtRest DEF SourceFails, SendFails, keySinkVars
<1>2. (UnreadWords \o toPost)' = UnreadWords \o toPost
      /\ (keyQueue \o RequestsToCome)' = keyQueue \o RequestsToCome
  BY <1>1, QueuesAtRest DEF routerNotes, routerKeys
<1>3. CASE SourceFails
  BY <1>1, <1>2 DEF Router!SourceFails, Router!keySinkVars
<1>4. CASE SendFails
  <2>1. PICK ev \in Router!Events : Router!Mirrors(ev)
    BY <1>4 DEF SendFails, MainInv, TypeOK
  <2> QED
    BY <1>1, <1>2, <2>1 DEF Router!SendFails, Router!keySinkVars
<1> QED
  BY <1>3, <1>4

LEMMA ReleaseRefines ==
  ASSUME MainInv, ReleaseOnExit
  PROVE  Router!ReleaseOnExit
<1>1. /\ mainPc = "exit" /\ mainPc' = "done"
      /\ UNCHANGED <<wire, heldNow, sounding, notesDown, lastPressed, toPost, toDispatch>>
      /\ posted' = posted /\ consumed' = consumed
      /\ Dispatch(ExitEvents)
  BY RingAtRest DEF ReleaseOnExit, ExitEvents
<1>2. toPost = <<>> /\ toDispatch = <<>>
  BY <1>1 DEF MainInv, Stages
<1>3. (UnreadWords \o toPost)' = UnreadWords \o toPost
  BY <1>1 DEF UnreadWords
<1>4. (keyQueue \o RequestsToCome)'
        = (keyQueue \o RequestsToCome)
            \o [i \in DOMAIN ExitEvents |-> Router!Request(ExitEvents[i])]
  <2> DEFINE rs == [i \in DOMAIN ExitEvents |-> Request(ExitEvents[i])]
  <2>1. /\ keyQueue \in Seq(KeyRequests) /\ rs \in Seq(KeyRequests)
        /\ keyQueue' = keyQueue \o rs
    BY <1>1, RouterQueues, ExitEventsType, RequestsType DEF Dispatch, MainInv
  <2>2. rs = [i \in DOMAIN ExitEvents |-> Router!Request(ExitEvents[i])]
    BY RouterOperators
  <2> HIDE DEF rs
  <2>3. RequestsToCome = <<>> /\ RequestsToCome' = <<>>
    BY <1>1, <1>2 DEF RequestsToCome
  <2>4. keyQueue \o <<>> = keyQueue /\ (keyQueue \o rs) \o <<>> = keyQueue \o rs
    BY <2>1, ConcatProperties, ConcatEmptySeq
  <2> QED
    BY <2>1, <2>2, <2>3, <2>4
<1>5. Router!Dispatch(ExitEvents)
  BY <1>1, <1>4 DEF Router!Dispatch, Dispatch
<1>6. ExitEvents = IF HasKeySink /\ heldNow["local"] >= 0
                   THEN <<Router!KeyEvent(heldNow["local"], FALSE)>> ELSE <<>>
  BY RouterOperators DEF ExitEvents
<1> QED
  BY <1>1, <1>3, <1>5, <1>6 DEF Router!ReleaseOnExit

\* Unless the ring was lapped the word that is read is the oldest one unread.
LEMMA ReadWordRefines ==
  ASSUME MainInv, ReadWord, ~lapped
  PROVE  Router!ApplyNote
<1> DEFINE c == Len(consumed)
           w == ring[readCount % RingSize]
<1>1. ReadSlot /\ UNCHANGED <<mainPc, wire, heldNow, notesDown, lastPressed, toPost, keyQueue,
                              keysDown, toDispatch>>
  BY DEF ReadWord, mainVars, keySinkVars
<1>2. c < loaded /\ w = posted[c + 1]
  BY <1>1, ReadSlotReads DEF MainInv
<1>3. /\ posted \in Seq(SynthWords) /\ Len(posted) \in Nat /\ c \in Nat
      /\ UnreadWords \in Seq(SynthWords) /\ toPost \in Seq(SynthWords)
  BY Unread, RouterQueues
<1>4. c \in 0 .. Len(posted) - 1
  BY <1>2, <1>3 DEF MainInv, RingInv, RingTypeOK, Counting
<1>5. /\ UnreadWords # <<>> /\ Head(UnreadWords) = w
      /\ Tail(UnreadWords) = SubSeq(posted, (c + 1) + 1, Len(posted))
  BY <1>2, <1>3, <1>4, SuffixShrinks DEF UnreadWords
<1>6. UnreadWords' = Tail(UnreadWords)
  <2>1. Len(consumed') = c + 1 /\ posted' = posted
    <3>1. consumed' = Append(consumed, w) /\ consumed \in Seq(Words \cup {Zero})
          /\ w \in Words \cup {Zero}
      BY <1>1, ReadSlotReads DEF ReadSlot, MainInv, RingInv, RingTypeOK
    <3> HIDE DEF w
    <3>2. Len(consumed') = c + 1
      BY <3>1, AppendProperties
    <3> QED
      BY <1>1, <3>2 DEF ReadSlot, postVars
  <2> QED
    BY <1>5, <2>1 DEF UnreadWords
<1>7. /\ UnreadWords \o toPost # <<>> /\ Head(UnreadWords \o toPost) = w
      /\ (UnreadWords \o toPost)' = Tail(UnreadWords \o toPost)
  <2> HIDE DEF w
  <2> QED
    BY <1>1, <1>3, <1>5, <1>6, ConcatHead
<1>8. sounding' = Router!ApplyWord(sounding, Head(UnreadWords \o toPost))
  BY <1>7, RouterOperators DEF ReadWord
<1>9. (keyQueue \o RequestsToCome)' = keyQueue \o RequestsToCome
  BY <1>1 DEF RequestsToCome
<1> QED
  BY <1>1, <1>7, <1>8, <1>9 DEF Router!ApplyNote, Router!keySinkVars

LEMMA ReplayRefines ==
  ASSUME MainInv, ReplayKey
  PROVE  Router!ReplayKey
<1>1. /\ UNCHANGED <<mainPc, wire, heldNow, notesDown, lastPressed, toPost, toDispatch, sounding>>
      /\ posted' = posted /\ consumed' = consumed
  BY RingAtRest DEF ReplayKey, mainVars
<1>2. /\ keyQueue # <<>> /\ keyQueue' = Tail(keyQueue)
      /\ keysDown' = IF Head(keyQueue).press THEN keysDown \cup {Head(keyQueue).code}
                                             ELSE keysDown \ {Head(keyQueue).code}
  BY DEF ReplayKey, ReplayRequest
<1>3. keyQueue \in Seq(KeyRequests) /\ RequestsToCome \in Seq(KeyRequests)
  BY RouterQueues
<1>4. RequestsToCome' = RequestsToCome
  BY <1>1 DEF RequestsToCome
<1>5. /\ keyQueue \o RequestsToCome # <<>>
      /\ Head(keyQueue \o RequestsToCome) = Head(keyQueue)
      /\ (keyQueue \o RequestsToCome)' = Tail(keyQueue \o RequestsToCome)
  BY <1>2, <1>3, <1>4, ConcatHead
<1>6. (UnreadWords \o toPost)' = UnreadWords \o toPost
  BY <1>1 DEF UnreadWords
<1> QED
  BY <1>1, <1>2, <1>5, <1>6 DEF Router!ReplayKey, Router!ReplayRequest, Router!routerVars

LEMMA DatagramRefines ==
  ASSUME MainInv, TakeDatagram
  PROVE  Router!TakeDatagram
<1>1. /\ UNCHANGED <<mainPc, heldNow, notesDown, lastPressed, toPost, toDispatch, sounding,
                     keyQueue, keysDown>>
      /\ posted' = posted /\ consumed' = consumed
      /\ wire # <<>> /\ wire' = Tail(wire)
  BY RingAtRest DEF TakeDatagram, keySinkVars
<1>2. (UnreadWords \o toPost)' = UnreadWords \o toPost
      /\ (keyQueue \o RequestsToCome)' = keyQueue \o RequestsToCome
  BY <1>1, QueuesAtRest DEF routerNotes, routerKeys
<1> QED
  BY <1>1, <1>2 DEF Router!TakeDatagram, Router!keySinkVars

LEMMA NextRefines ==
  ASSUME MainInv, [Next]_vars, ~lapped
  PROVE  Router!Next \/ UNCHANGED Router!vars
<1>1. ASSUME NEW key \in Notes, NEW pressed \in BOOLEAN, Play(key, pressed)
      PROVE  Hidden
  BY <1>1, PlayHidden
<1>2. CASE TakeEvent \/ StoreWord \/ PublishWord \/ DispatchKey \/ NextIteration
  BY <1>2, TakeEventHidden, StoreWordHidden, PublishWordHidden, DispatchKeyHidden,
     NextIterationHidden, HiddenStutters
<1>3. CASE Route
  BY <1>3, RouteRefines DEF Router!Next
<1>4. CASE ReleaseOnExit
  BY <1>4, ReleaseRefines DEF Router!Next
<1>5. CASE SourceFails \/ SendFails
  BY <1>5, BreakRefines DEF Router!Next
<1>6. CASE MixSamples
  <2>1. CASE ReadWord
    BY <2>1, ReadWordRefines DEF Router!Next
  <2>2. CASE ~ReadWord
    BY <1>6, <2>2, MixHidden, HiddenStutters
  <2> QED
    BY <2>1, <2>2
<1>7. CASE ReplayKey
  BY <1>7, ReplayRefines DEF Router!Next
<1>8. CASE TakeDatagram
  BY <1>8, DatagramRefines DEF Router!Next
<1>9. CASE UNCHANGED vars
  <2>1. posted' = posted /\ consumed' = consumed
    BY <1>9, RingAtRest DEF vars
  <2>2. Hidden
    BY <1>9, <2>1, QueuesAtRest DEF vars, Hidden, routerPhase, mainVars, keySinkVars
  <2> QED
    BY <2>2, HiddenStutters
<1> QED
  BY <1>1, <1>2, <1>3, <1>4, <1>5, <1>6, <1>7, <1>8, <1>9, HiddenStutters DEF Next, MainStep

\* As long as the ring is not lapped the threads implement NoteRouter, whatever
\* the sizes of the ring and of its counters, the arguments and the key map:
\* its theorems are theorems of the threads.
THEOREM ThreadsRefineRouter == Spec => RefinesRouter
<1>1. MainInv /\ [Next]_vars => [Router!Next \/ lapped']_(Router!vars)
  <2> SUFFICES ASSUME MainInv, [Next]_vars, ~lapped'
               PROVE  Router!Next \/ UNCHANGED Router!vars
    OBVIOUS
  <2>1. ~lapped
    <3>1. CASE lapped
      BY <3>1 DEF Next, MainStep, Play, TakeEvent, SourceFails, Route, SendFails, StoreWord,
           StoreSlot, PublishWord, Publish, DispatchKey, NextIteration, ReleaseOnExit, MixSamples,
           ReadWord, ReadSlot, LoadTarget, LoopEnds, Render, ReplayKey, TakeDatagram, ringVars,
           vars
    <3> QED
      BY <3>1
  <2> QED
    BY <2>1, NextRefines
<1> QED
  BY <1>1, InitRefines, MainInvariant, PTL DEF Spec, RefinesRouter
=============================================================================
