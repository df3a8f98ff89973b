------------------------------- MODULE Command -------------------------------
(***************************************************************************)
(* What the Master's command channel promises to a caller of SendCommand,  *)
(* whatever happens to connections, agents and messages underneath:        *)
(*   - an agent executes a command at most once, and only if it was        *)
(*     issued to a connection;                                             *)
(*   - a caller gets exactly one reply: FAILED, or the very result the     *)
(*     agent's execution produced;                                         *)
(*   - every call is answered.                                             *)
(* FAILED says nothing about execution: the agent may have executed the    *)
(* command, be executing it, or execute it later.  Module Hub implements   *)
(* this specification.                                                     *)
(***************************************************************************)
CONSTANT Cmds   \* the calls of SendCommand, one fresh request id each

VARIABLES
  ran,     \* ran[m]: the result of executing m at the agent, or "no"
  reply    \* reply[m]: "idle", "refused", "open", or the caller's answer

cvars == <<ran, reply>>

Results == {"ok", "err"}

Answered == {"refused", "FAILED"} \cup Results

Init ==
  /\ ran = [m \in Cmds |-> "no"]
  /\ reply = [m \in Cmds |-> "idle"]

\* No connection for the node: the caller gets FAILED and nothing was issued.
Refuse(m) ==
  /\ reply[m] = "idle"
  /\ reply' = [reply EXCEPT ![m] = "refused"]
  /\ UNCHANGED ran

Issue(m) ==
  /\ reply[m] = "idle"
  /\ reply' = [reply EXCEPT ![m] = "open"]
  /\ UNCHANGED ran

\* The agent may execute an issued command once, even after its caller gave up.
Execute(m) ==
  /\ reply[m] \in {"open", "FAILED"}
  /\ ran[m] = "no"
  /\ \E r \in Results : ran' = [ran EXCEPT ![m] = r]
  /\ UNCHANGED reply

Answer(m) ==
  /\ reply[m] = "open"
  /\ \E r \in {"FAILED"} \cup ({ran[m]} \ {"no"}) : reply' = [reply EXCEPT ![m] = r]
  /\ UNCHANGED ran

Next ==
  \E m \in Cmds : Refuse(m) \/ Issue(m) \/ Execute(m) \/ Answer(m)

SafetySpec == Init /\ [][Next]_cvars

Spec == SafetySpec /\ \A m \in Cmds : WF_cvars(Answer(m))
=============================================================================
