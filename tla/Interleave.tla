----------------------------- MODULE Interleave -----------------------------
(***************************************************************************)
(* interleave_stereo_f32 (dsp.hpp): a block of frames, rendered into one   *)
(* array per channel, is stored into the output left and right in turn, by *)
(* a vector loop that takes four frames and a scalar loop for the rest.  A *)
(* sample is named by its channel and by its frame in the whole request.   *)
(***************************************************************************)
EXTENDS Integers, Sequences

LeastOf(a, b) == IF a < b THEN a ELSE b

Sample(channel, frame) == [channel |-> channel, frame |-> frame]
Left(frame) == Sample("left", frame)
Right(frame) == Sample("right", frame)
Silence == Sample("silence", 0)

Samples == [channel : {"left", "right", "silence"}, frame : Nat]

\* A plausible bug: whole groups of four up to the end.
RoundedUp(count) == 4 * ((count + 3) \div 4)

\* count & ~3
Rounded(count) == 4 * (count \div 4)

\* A plausible bug: the halves in the wrong order.
UnpackedHighFirst(frame, k) ==
  LET lane == (k \div 2 + 2) % 4
  IN  IF k % 2 = 0 THEN Left(frame + lane) ELSE Right(frame + lane)

\* Float k of the two vectors of unpacklo and unpackhi: l0 r0 l1 r1, l2 r2 l3 r3.
UnpackedFour(frame, k) ==
  IF k % 2 = 0 THEN Left(frame + k \div 2) ELSE Right(frame + k \div 2)

\* Float k of an iteration of the scalar loop.
InterleavedOne(frame, k) == IF k = 0 THEN Left(frame) ELSE Right(frame)

\* What is stored of the count frames from frame first on.
InterleaveStereo(count, first) ==
  LET vector == Rounded(count)
      stored == IF count > vector THEN count ELSE vector
  IN  [j \in 1 .. 2 * stored |->
         LET k == j - 1
         IN  IF j <= 2 * vector THEN UnpackedFour(first + 4 * (k \div 8), k % 8)
                                ELSE InterleavedOne(first + k \div 2, k % 2)]

-----------------------------------------------------------------------------
\* The output a whole request must have.
Interleaved(frames) ==
  [j \in 1 .. 2 * frames |-> IF j % 2 = 1 THEN Left(j \div 2) ELSE Right(j \div 2 - 1)]

Silent(frames) == [j \in 1 .. 2 * frames |-> Silence]
=============================================================================
