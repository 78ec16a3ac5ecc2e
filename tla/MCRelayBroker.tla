----------------------------- MODULE MCRelayBroker -----------------------------
(* Instances of RelayBroker for TLC. *)
EXTENDS RelayBroker, TLC

CONSTANTS p, s, h1

MCId == {p, s}
MCMeta == {0, 1}
\* nothing; one session in two versions; another session; both.
MCLists == {{}, {<<p, 0>>}, {<<p, 1>>}, {<<p, 1>>, <<s, 0>>}}
MCName == {h1}
MCSymmetry == Permutations(Agent) \union Permutations(Client)
=============================================================================
