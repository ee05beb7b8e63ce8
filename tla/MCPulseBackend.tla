---------------------------- MODULE MCPulseBackend ----------------------------
(***************************************************************************)
(* Instances of PulseBackend: requests of up to ten frames in blocks of    *)
(* six, so that a request takes a full block, a partial one or both, and a *)
(* block a vector of four frames, single frames or both.                   *)
(***************************************************************************)
EXTENDS PulseBackend
=============================================================================
