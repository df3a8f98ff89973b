------------------------------- MODULE MCNodes -------------------------------
(* Two changes of any kind and an agent that comes back as often as it     *)
(* likes, on two connections in turn (safety); one change of the switch or *)
(* a deletion, a registration and a crash (liveness).                      *)
EXTENDS Nodes, TLC

CONSTANTS c1, c2, p1, p2, r1, a, b

\* Connections are alike, and so are changes and names.
Symmetry == Permutations(Conns) \cup Permutations(Changes) \cup Permutations(Aliases)
=============================================================================
