------------------------------ MODULE MCTopics ------------------------------
(* Two nodes, topics ensured twice, after an auth and after a              *)
(* registration, and one rebuild, at any time, of the bound group or of    *)
(* another; one of the two groups has a topic of somebody else's.          *)
EXTENDS Topics, TLC

CONSTANTS n1, n2, auth, registration, rebuild

\* Nodes are alike, and so are the runs of ensureNodeForumTopic.
Symmetry == Permutations(Nodes) \cup Permutations(Ensurers)

MCForeign == {t \in Topic : t.group = "g2" /\ t.thread = 1}
=============================================================================
