----------------------------- MODULE MCUdpMirror -----------------------------
(***************************************************************************)
(* An instance of UdpMirror: a sender whose remote window starts at C7, so *)
(* that its highest keys do not fit in a datagram, and a receiver that     *)
(* transposes it down to its own window from C2.                           *)
(***************************************************************************)
EXTENDS UdpMirror

\* Transposed up by an octave: the window's lowest key, an inner one, the last
\* that fits in a datagram, the next, the highest, and the next.
WindowNotes == {84, 91, 115, 116, 120, 121}
FiveOctavesDown == -60
=============================================================================
