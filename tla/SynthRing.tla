------------------------------ MODULE SynthRing ------------------------------
(***************************************************************************)
(* The ring buffer of Synth (synth.cpp, synth.hpp): one thread posts words *)
(* (post_note_on, post_note_off), the audio thread consumes them at the    *)
(* start of mix_samples.  A post stores the slot and then publishes the    *)
(* new count (a release store); a mix loads the count once (acquire) and   *)
(* reads the slots up to it.  The counters are 32-bit and wrap; nothing    *)
(* stops a post when the ring is full.  Each access of shared memory is a  *)
(* step.                                                                   *)
(***************************************************************************)
EXTENDS Integers, Sequences

CONSTANTS
  Words,           \* the words posted
  Zero,            \* the word of a slot that was never stored
  RingSize,        \* slots of the ring
  CounterModulus,  \* 2^32: the counters are uint32_t
  MaxPosts         \* bound: posts in a behaviour

ASSUME RingConstants ==
  /\ RingSize \in Nat \ {0}
  /\ CounterModulus \in Nat \ {0}
  /\ CounterModulus % RingSize = 0
  /\ RingSize < CounterModulus
  /\ MaxPosts \in Nat

Slots == 0 .. RingSize - 1
Counters == 0 .. CounterModulus - 1

VARIABLES
  ring,             \* the slots
  writeCount,       \* write_count, of the posting thread
  atomicWriteCount, \* atomic_write_count
  readCount,        \* read_count, of the audio thread
  target,           \* the count mix_samples has loaded
  postPc,           \* "idle", or "publish" between the two stores of a post
  mixPc,            \* "idle", "read" in the loop, "render" after it
  posted,           \* history: every word stored
  published,        \* history: how many of them have been published
  loaded,           \* history: the value of published at the last load
  consumed,         \* history: every word read
  lapped            \* history: a slot was stored before it was read

postVars == <<writeCount, postPc, posted>>
mixVars == <<readCount, target, mixPc, loaded, consumed>>
ringVars == <<ring, atomicWriteCount, postVars, mixVars, published, lapped>>

\* Plausible bugs of a post: the index incremented before the slot is stored,
\* the counter kept out of its 32 bits, the count published before it is
\* incremented.
StoreNextSlot(w) ==
  /\ postPc = "idle"
  /\ Len(posted) < MaxPosts
  /\ ring' = [ring EXCEPT ![(writeCount + 1) % RingSize] = w]
  /\ writeCount' = (writeCount + 1) % CounterModulus
  /\ postPc' = "publish"
  /\ posted' = Append(posted, w)
  /\ lapped' = (lapped \/ Len(posted) - Len(consumed) >= RingSize)
  /\ UNCHANGED <<atomicWriteCount, published, mixVars>>

StoreWideCount(w) ==
  /\ postPc = "idle"
  /\ Len(posted) < MaxPosts
  /\ ring' = [ring EXCEPT ![writeCount % RingSize] = w]
  /\ writeCount' = writeCount + 1
  /\ postPc' = "publish"
  /\ posted' = Append(posted, w)
  /\ lapped' = (lapped \/ Len(posted) - Len(consumed) >= RingSize)
  /\ UNCHANGED <<atomicWriteCount, published, mixVars>>

PublishOldCount ==
  /\ postPc = "publish"
  /\ atomicWriteCount' = (writeCount + CounterModulus - 1) % CounterModulus
  /\ published' = Len(posted)
  /\ postPc' = "idle"
  /\ UNCHANGED <<ring, writeCount, posted, mixVars, lapped>>

\* Plausible bugs of mix_samples: the posting thread's own counter read in
\* place of the published one, and one word per call instead of all of them.
LoadPrivateCount ==
  /\ mixPc = "idle"
  /\ target' = writeCount
  /\ loaded' = published
  /\ mixPc' = "read"
  /\ UNCHANGED <<ring, atomicWriteCount, postVars, readCount, consumed, published, lapped>>

ReadOneSlot ==
  /\ mixPc = "read"
  /\ readCount < target
  /\ consumed' = Append(consumed, ring[readCount % RingSize])
  /\ readCount' = (readCount + 1) % CounterModulus
  /\ mixPc' = "render"
  /\ UNCHANGED <<ring, atomicWriteCount, postVars, target, loaded, published, lapped>>

-----------------------------------------------------------------------------
\* on_backend_start.
RingInit ==
  /\ ring = [s \in Slots |-> Zero]
  /\ writeCount = 0 /\ atomicWriteCount = 0 /\ readCount = 0 /\ target = 0
  /\ postPc = "idle" /\ mixPc = "idle"
  /\ posted = <<>> /\ published = 0 /\ loaded = 0 /\ consumed = <<>>
  /\ lapped = FALSE

\* ring[(write_count++) % RingSize] = word
StoreSlot(w) ==
  /\ postPc = "idle"
  /\ Len(posted) < MaxPosts
  /\ ring' = [ring EXCEPT ![writeCount % RingSize] = w]
  /\ writeCount' = (writeCount + 1) % CounterModulus
  /\ postPc' = "publish"
  /\ posted' = Append(posted, w)
  /\ lapped' = (lapped \/ Len(posted) - Len(consumed) >= RingSize)
  /\ UNCHANGED <<atomicWriteCount, published, mixVars>>

\* atomic_write_count.store(write_count, release)
Publish ==
  /\ postPc = "publish"
  /\ atomicWriteCount' = writeCount
  /\ published' = Len(posted)
  /\ postPc' = "idle"
  /\ UNCHANGED <<ring, writeCount, posted, mixVars, lapped>>

\* target = atomic_write_count.load(acquire), when the backend asks for frames.
LoadTarget ==
  /\ mixPc = "idle"
  /\ target' = atomicWriteCount
  /\ loaded' = published
  /\ mixPc' = "read"
  /\ UNCHANGED <<ring, atomicWriteCount, postVars, readCount, consumed, published, lapped>>

\* The body of "for (; read_count < target; read_count++)".
ReadSlot ==
  /\ mixPc = "read"
  /\ readCount < target
  /\ consumed' = Append(consumed, ring[readCount % RingSize])
  /\ readCount' = (readCount + 1) % CounterModulus
  /\ UNCHANGED <<ring, atomicWriteCount, postVars, target, mixPc, loaded, published, lapped>>

LoopEnds ==
  /\ mixPc = "read"
  /\ ~(readCount < target)
  /\ mixPc' = "render"
  /\ UNCHANGED <<ring, atomicWriteCount, postVars, readCount, target, loaded, consumed,
                 published, lapped>>

\* The rest of mix_samples: the frames are rendered with the notes read.
Render ==
  /\ mixPc = "render"
  /\ mixPc' = "idle"
  /\ UNCHANGED <<ring, atomicWriteCount, postVars, readCount, target, loaded, consumed,
                 published, lapped>>

RingNext ==
  \/ \E w \in Words : StoreSlot(w)
  \/ Publish
  \/ LoadTarget \/ ReadSlot \/ LoopEnds \/ Render

RingSpec == RingInit /\ [][RingNext]_ringVars

\* A post that has begun completes, and the backend keeps asking for frames.
RingFairness == WF_ringVars(Publish) /\ WF_ringVars(LoadTarget \/ ReadSlot \/ LoopEnds \/ Render)

RingFairSpec == RingSpec /\ RingFairness

-----------------------------------------------------------------------------
\* Types of the state.
RingTypeOK ==
  /\ ring \in [Slots -> Words \cup {Zero}]
  /\ writeCount \in Counters /\ atomicWriteCount \in Counters
  /\ readCount \in Counters /\ target \in Counters
  /\ postPc \in {"idle", "publish"} /\ mixPc \in {"idle", "read", "render"}
  /\ posted \in Seq(Words)
  /\ published \in Nat /\ loaded \in Nat
  /\ consumed \in Seq(Words \cup {Zero})
  /\ lapped \in BOOLEAN

\* As long as the main thread is never a whole ring ahead of the audio
\* thread, the audio thread reads the words posted, each once and in order,
\* and none before it is published: even across a wrap of the counters, where
\* it stalls (synth.cpp:43-46, 61-62).
NothingLostUntilLapped ==
  ~lapped => /\ Len(consumed) <= published
             /\ consumed = SubSeq(posted, 1, Len(consumed))

\* Frames are rendered with every note that was published when the call
\* began, until the counters wrap (synth.cpp:41-56).
RendersWhatWasPublished ==
  mixPc = "render" /\ ~lapped /\ Len(posted) < CounterModulus => Len(consumed) = loaded

\* The ring is a FIFO until the main thread laps the audio thread.
Fifo == INSTANCE NoteFifo
          WITH queue <- SubSeq(posted, Len(consumed) + 1, published), heard <- consumed
FifoUntilLapped ==
  Fifo!Init /\ [][Fifo!Next \/ lapped']_<<SubSeq(posted, Len(consumed) + 1, published), consumed>>

\* Every note is heard, unless the ring has been lapped or the counters have
\* wrapped, which stalls the loop of mix_samples.
EveryPostIsHeard ==
  \A n \in 1 .. MaxPosts :
    Len(posted) >= n ~> (Len(consumed) >= n \/ lapped \/ Len(posted) >= CounterModulus)
=============================================================================
