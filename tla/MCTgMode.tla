------------------------------ MODULE MCTgMode ------------------------------
(* Two updates, the first of which may finish the wizard, and one crash of *)
(* the Master: enough for a batch that switches to the webhook halfway, a  *)
(* POST that overlaps the fallback and a restart in every state.           *)
EXTENDS TgMode, TLC

CONSTANTS t1, t2

MCTasks == {t1, t2}
Slots == Permutations(MCTasks)
=============================================================================
