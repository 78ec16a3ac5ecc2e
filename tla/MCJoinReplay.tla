----------------------------- MODULE MCJoinReplay -----------------------------
(* Instances of JoinReplay for TLC. *)
EXTENDS JoinReplay, TLC
MCSymmetry == Permutations(Client)
=============================================================================
