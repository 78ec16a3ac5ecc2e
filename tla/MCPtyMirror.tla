----------------------------- MODULE MCPtyMirror -----------------------------
(* Instances of PtyMirror for TLC. *)
EXTENDS PtyMirror
=============================================================================
