----------------------------- MODULE MCAlsaSource -----------------------------
(***************************************************************************)
(* An instance of AlsaSource: one key and a pool of two events.            *)
(***************************************************************************)
EXTENDS AlsaSource

OneKey == {60}
=============================================================================
