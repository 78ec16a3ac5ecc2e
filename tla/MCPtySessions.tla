----------------------------- MODULE MCPtySessions -----------------------------
(* Instances of PtySessions for TLC. *)
EXTENDS PtySessions
=============================================================================
