----------------------------- MODULE MCSshBridge -----------------------------
(* Instances of SshBridge for TLC. *)
EXTENDS SshBridge, TLC
MCSymmetry == Permutations(Conn) \union Permutations(Flow) \union Permutations(Poll)
=============================================================================
