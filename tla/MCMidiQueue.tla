----------------------------- MODULE MCMidiQueue -----------------------------
(***************************************************************************)
(* Instances of MidiQueue: two keys.                                       *)
(***************************************************************************)
EXTENDS MidiQueue

TwoKeys == {60, 64}
=============================================================================
