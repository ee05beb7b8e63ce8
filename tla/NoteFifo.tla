------------------------------- MODULE NoteFifo -------------------------------
(***************************************************************************)
(* What the main thread may expect of the way to the synthesizer: a word   *)
(* posted is heard once, after every word posted before it and before      *)
(* every word posted after it.                                             *)
(***************************************************************************)
EXTENDS Sequences

CONSTANT Words
VARIABLES
  queue,   \* words posted and not heard yet, the oldest first
  heard    \* words heard, in order

Init == queue = <<>> /\ heard = <<>>

Post(w) == queue' = Append(queue, w) /\ UNCHANGED heard

Hear ==
  /\ queue # <<>>
  /\ heard' = Append(heard, Head(queue))
  /\ queue' = Tail(queue)

Next == (\E w \in Words : Post(w)) \/ Hear

Spec == Init /\ [][Next]_<<queue, heard>>
=============================================================================
