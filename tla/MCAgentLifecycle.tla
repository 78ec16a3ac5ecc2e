--------------------------- MODULE MCAgentLifecycle ---------------------------
(* Instances of AgentLifecycle for TLC. *)
EXTENDS AgentLifecycle, TLC
MCSymmetry == Permutations(Flow) \union Permutations(Handle)
=============================================================================
