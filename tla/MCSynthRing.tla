----------------------------- MODULE MCSynthRing -----------------------------
(***************************************************************************)
(* An instance of SynthRing: two words, a ring of two slots and counters   *)
(* that wrap after two rounds of it.                                       *)
(***************************************************************************)
EXTENDS SynthRing

CONSTANTS w1, w2
WordPair == {w1, w2}
=============================================================================
