------------------------------- MODULE MCHub -------------------------------
(* One node dials twice while one call runs.                               *)
EXTENDS Hub, TLC

CONSTANTS k1, c1, c2, m1

OneNode == {k1}
TwoDials == {c1, c2}
OneCall == {m1}
AllFrom == [c \in Conns |-> k1]
AllTo == [m \in Cmds |-> k1]
=============================================================================
