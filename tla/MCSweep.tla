------------------------------- MODULE MCSweep -------------------------------
(* The daily job sweeps owner a, then owner b, who has no nodes, while a   *)
(* user asks for the sweep of a, whose two nodes have one slot.            *)
EXTENDS Sweep, TLC

CONSTANTS a, b, n1, n2, user1, dailyA, dailyB

MCOwnerOf  == [n \in Nodes |-> a]
MCFor      == [s \in Sweeps |-> IF s = dailyB THEN b ELSE a]
MCDaily    == <<dailyA, dailyB>>
=============================================================================
