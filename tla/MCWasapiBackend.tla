--------------------------- MODULE MCWasapiBackend ---------------------------
(***************************************************************************)
(* An instance of WasapiBackend: a buffer of seven frames in blocks of     *)
(* five, so that an acquired buffer takes a full block, a partial one or   *)
(* both, and a block a vector of four frames, single frames or both.       *)
(***************************************************************************)
EXTENDS WasapiBackend
=============================================================================
