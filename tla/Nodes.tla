-------------------------------- MODULE Nodes --------------------------------
(***************************************************************************)
(* One node's settings, kept twice: in its row of the Master's table nodes *)
(* and in its agent's configuration file.  The owner's toggle or rename    *)
(* writes the row and sends the value to the agent; every auth of the      *)
(* agent writes the values its session was started with over the row; a    *)
(* confirmed registration writes those it was sent with.  Deleting the     *)
(* node asks the agent to uninstall itself and drops the row.  Sources:    *)
(* internal/master/{handlers,wshub,db}.go, internal/agent/{wsclient,       *)
(* commands,config}.go.                                                    *)
(*                                                                         *)
(* One step is one statement of the database, one access to the file, one  *)
(* critical section or one frame.  Connections are used again once their   *)
(* handler has ended; statements and writes of files do not fail.          *)
(***************************************************************************)
EXTENDS Naturals

CONSTANTS
  Conns,       \* connections of the node's agent
  Changes,     \* toggles, renames and deletions by the owner
  Requests,    \* registration requests
  Aliases,     \* display names
  Kinds,       \* bound: the kinds of changes the owner makes
  NoRow,       \* the node has no row
  None,        \* Go's nil
  MaxCrashes   \* bound: crashes of the Master

ASSUME NodesAssumption ==
  /\ None \notin Conns
  /\ Aliases # {}
  /\ Kinds \subseteq {"google", "alias", "uninstall"}
  /\ NoRow \notin [google : BOOLEAN, alias : Aliases]
  /\ MaxCrashes \in Nat

VARIABLES
  row,       \* the node's row: enable_google and node_alias, or NoRow
  current,   \* Hub.conns for this node
  handler,   \* control state of ServeHTTP, per connection
  req,       \* registration requests: Handlers.reg and confirmRegister
  change,    \* control state of toggleMod, handleRenameReply, deleteNode
  order,     \* what the owner asked for
  via,       \* the connection SendCommand has looked up
  crashes,
  file,      \* the agent's config.conf: ENABLE_GOOGLE and NODE_ALIAS
  alive,     \* the agent: running, being uninstalled, uninstalled
  sess,      \* the connection of the agent's session, or None
  phase,     \* the session waits for the answer to its auth, or serves
  loaded,    \* the configuration a session was started with
  cmd,       \* a change's command, on its way and at the agent
  dirty,     \* history: settings changed while an auth was under way
  mixed      \* history: settings two writers worked on at the same time

masterVars == <<row, current, handler, req, change, order, via, crashes>>
agentVars  == <<file, alive, sess, phase, loaded, cmd>>
vars       == <<masterVars, agentVars, dirty, mixed>>

Settings == [google : BOOLEAN, alias : Aliases]
Fields   == {"google", "alias"}
Orders   == [kind : {"google"}, value : BOOLEAN]
              \cup [kind : {"alias"}, value : Aliases]
              \cup {[kind |-> "uninstall"]}

TypeOK ==
  /\ row \in Settings \cup {NoRow}
  /\ current \in Conns \cup {None}
  /\ handler \in [Conns -> {"idle", "dialed", "published", "upserted", "serving"}]
  /\ req \in [Requests -> [state : {"new", "pending", "taken", "over"}, alias : Aliases]]
  /\ change \in [Changes -> {"idle", "store", "lookup", "send", "wait", "erase", "done"}]
  /\ order \in [Changes -> Orders]
  /\ via \in [Changes -> Conns \cup {None}]
  /\ \A p \in Changes : change[p] \in {"send", "wait"} => via[p] # None
  /\ crashes \in 0..MaxCrashes
  /\ file \in Settings
  /\ alive \in {"yes", "doomed", "no"}
  /\ sess \in Conns \cup {None}
  /\ phase \in {"auth", "up"}
  /\ loaded \in [Conns -> Settings]
  /\ cmd \in [Changes -> {"none", "early", "wire", "running", "over"}]
  /\ dirty \in [Conns -> SUBSET Fields]
  /\ mixed \in SUBSET Fields

-----------------------------------------------------------------------------
(* What the history variables record.                                      *)

InProgress(p) == change[p] \notin {"idle", "done"} \/ cmd[p] \in {"early", "wire", "running"}

Busy(f) == \E p \in Changes : order[p].kind = f /\ InProgress(p)

\* An auth is under way for a setting from the load of the agent's file to
\* the statement that writes it.
Window(c, f) ==
  handler[c] \in {"dialed", "published"} \cup IF f = "google" THEN {"upserted"} ELSE {}

\* The statement of connection c that writes f over the row.
WroteOver(c, f) == IF f \in dirty[c] THEN mixed \cup {f} ELSE mixed \ {f}

-----------------------------------------------------------------------------
(* The agent: WSClient.Run, session and ExecuteCommand.                    *)

\* The session ends; the frames on their way to it are lost.
CutSession ==
  /\ sess' = None
  /\ cmd' = [p \in Changes |-> IF cmd[p] \in {"early", "wire"} THEN "over" ELSE cmd[p]]

\* Run loads the file, dials and sends the auth frame.
Connect(c) ==
  /\ alive # "no" /\ sess = None /\ handler[c] = "idle"
  /\ \A p \in Changes : via[p] = c => ~InProgress(p)
  /\ loaded' = [loaded EXCEPT ![c] = file]
  /\ sess' = c /\ phase' = "auth"
  /\ handler' = [handler EXCEPT ![c] = "dialed"]
  /\ dirty' = [dirty EXCEPT ![c] = {f \in Fields : Busy(f)}]
  /\ UNCHANGED <<row, current, req, change, order, via, crashes, file, alive, cmd, mixed>>

\* The first frame must be auth_ok: a command that overtook it ends the session.
ReadFirst(c) ==
  /\ sess = c /\ phase = "auth"
  /\ IF \E p \in Changes : via[p] = c /\ cmd[p] = "early"
     THEN CutSession /\ UNCHANGED phase
     ELSE /\ handler[c] = "serving"
          /\ phase' = "up"
          /\ UNCHANGED <<sess, cmd>>
  /\ UNCHANGED <<masterVars, file, alive, loaded, dirty, mixed>>

\* The network fails, a deadline passes or the Master closes the socket.
EndSession ==
  /\ sess # None
  /\ CutSession
  /\ UNCHANGED <<masterVars, file, alive, phase, loaded, dirty, mixed>>

\* The agent process ends and with it its goroutines; systemd starts it again.
AgentRestart ==
  /\ alive # "no"
  /\ sess' = None
  /\ cmd' = [p \in Changes |-> IF cmd[p] = "none" THEN "none" ELSE "over"]
  /\ UNCHANGED <<masterVars, file, alive, phase, loaded, dirty, mixed>>

\* The session reads a command and starts a goroutine for it.
Deliver(p) ==
  /\ cmd[p] = "wire" /\ sess = via[p] /\ phase = "up"
  /\ cmd' = [cmd EXCEPT ![p] = "running"]
  /\ UNCHANGED <<masterVars, file, alive, sess, phase, loaded, dirty, mixed>>

\* The goroutine writes the file, or starts the uninstall script; the session
\* it came from may have ended.
Execute(p) ==
  /\ cmd[p] = "running"
  /\ cmd' = [cmd EXCEPT ![p] = "over"]
  /\ IF order[p].kind = "uninstall"
     THEN alive' = "doomed" /\ UNCHANGED file
     ELSE file' = [file EXCEPT ![order[p].kind] = order[p].value] /\ UNCHANGED alive
  /\ UNCHANGED <<masterVars, sess, phase, loaded, dirty, mixed>>

\* The script stops the service and removes the package.
Uninstalled ==
  /\ alive = "doomed"
  /\ alive' = "no" /\ sess' = None
  /\ cmd' = [p \in Changes |-> IF cmd[p] = "none" THEN "none" ELSE "over"]
  /\ UNCHANGED <<masterVars, file, phase, loaded, dirty, mixed>>

-----------------------------------------------------------------------------
(* The hub's handler of one connection.                                    *)

\* The auth frame never came.
AuthLost(c) ==
  /\ handler[c] = "dialed" /\ sess # c
  /\ handler' = [handler EXCEPT ![c] = "idle"]
  /\ UNCHANGED <<row, current, req, change, order, via, crashes, agentVars, dirty, mixed>>

\* A bug to rule out: the older connection stays open.
PublishKeepOld(c) ==
  /\ handler[c] = "dialed"
  /\ current' = c
  /\ handler' = [handler EXCEPT ![c] = "published"]
  /\ UNCHANGED <<row, req, change, order, via, crashes, agentVars, dirty, mixed>>

\* The connection takes the node's place in conns and closes the one that had it.
Publish(c) ==
  /\ handler[c] = "dialed"
  /\ current' = c
  /\ handler' = [handler EXCEPT ![c] = "published"]
  /\ IF current # None /\ sess = current THEN CutSession ELSE UNCHANGED <<sess, cmd>>
  /\ UNCHANGED <<row, req, change, order, via, crashes, file, alive, phase, loaded, dirty, mixed>>

\* UpsertNode: a new row gets the column's default for the switch.
Upserted(alias) ==
  [google |-> IF row = NoRow THEN TRUE ELSE row.google, alias |-> alias]

UpsertNode(c) ==
  /\ handler[c] = "published"
  /\ row' = Upserted(loaded[c].alias)
  /\ mixed' = WroteOver(c, "alias") \cup IF row = NoRow THEN {"google"} ELSE {}
  /\ handler' = [handler EXCEPT ![c] = "upserted"]
  /\ UNCHANGED <<current, req, change, order, via, crashes, agentVars, dirty>>

\* A bug to rule out: an auth leaves the row's switches alone.
StoreNoSwitches(c) ==
  /\ handler[c] = "upserted"
  /\ mixed' = WroteOver(c, "google")
  /\ handler' = [handler EXCEPT ![c] = "serving"]
  /\ UNCHANGED <<row, current, req, change, order, via, crashes, agentVars, dirty>>

\* The row's switches are set to those of the auth frame, then auth_ok is sent.
StoreSwitches(c) ==
  /\ handler[c] = "upserted"
  /\ row' = IF row = NoRow THEN NoRow ELSE [row EXCEPT !.google = loaded[c].google]
  /\ mixed' = WroteOver(c, "google")
  /\ handler' = [handler EXCEPT ![c] = "serving"]
  /\ UNCHANGED <<current, req, change, order, via, crashes, agentVars, dirty>>

HandlerEnd(c) ==
  /\ handler[c] = "serving" /\ sess # c
  /\ handler' = [handler EXCEPT ![c] = "idle"]
  /\ current' = IF current = c THEN None ELSE current
  /\ UNCHANGED <<row, req, change, order, via, crashes, agentVars, dirty, mixed>>

-----------------------------------------------------------------------------
(* The owner's changes: toggleMod, handleRenameReply and deleteNode, with  *)
(* the steps of SendCommand they take.                                     *)

Begin(p, o) ==
  /\ change[p] = "idle" /\ o.kind \in Kinds
  /\ change' = [change EXCEPT ![p] = IF o.kind = "uninstall" THEN "lookup" ELSE "store"]
  /\ order' = [order EXCEPT ![p] = o]
  /\ LET set == {o.kind} \cap Fields
     IN  /\ mixed' = mixed \cup {f \in set : Busy(f)}
         /\ dirty' = [c \in Conns |-> dirty[c] \cup {f \in set : Window(c, f)}]
  /\ UNCHANGED <<row, current, handler, req, via, crashes, agentVars>>

\* A button names the state to go to; it may be an old message's button.
Press(p) == \E o \in Orders : Begin(p, o)

\* Without a state, toggleMod reads the row and takes the other one.
Flip(p) ==
  Begin(p, [kind |-> "google", value |-> ~(row # NoRow /\ row.google)])

\* The UPDATE of the row, if there is one.
StoreChange(p) ==
  /\ change[p] = "store"
  /\ row' = IF row = NoRow THEN NoRow ELSE [row EXCEPT ![order[p].kind] = order[p].value]
  /\ change' = [change EXCEPT ![p] = "lookup"]
  /\ UNCHANGED <<current, handler, req, order, via, crashes, agentVars, dirty, mixed>>

\* After SendCommand, whatever it returned, deleteNode drops the row.
AfterCommand(p) == IF order[p].kind = "uninstall" THEN "erase" ELSE "done"

\* A bug to rule out: a node without a connection is not noticed.
LookupUnchecked(p) ==
  /\ change[p] = "lookup"
  /\ change' = [change EXCEPT ![p] = "send"]
  /\ via' = [via EXCEPT ![p] = current]
  /\ UNCHANGED <<row, current, handler, req, order, crashes, agentVars, dirty, mixed>>

Lookup(p) ==
  /\ change[p] = "lookup"
  /\ change' = [change EXCEPT ![p] = IF current = None THEN AfterCommand(p) ELSE "send"]
  /\ via' = [via EXCEPT ![p] = current]
  /\ UNCHANGED <<row, current, handler, req, order, crashes, agentVars, dirty, mixed>>

\* A command sent before auth_ok comes before it.
Send(p) ==
  /\ change[p] = "send"
  /\ IF sess = via[p]
     THEN /\ cmd' = [cmd EXCEPT ![p] = IF handler[sess] = "serving" THEN "wire" ELSE "early"]
          /\ change' = [change EXCEPT ![p] = "wait"]
     ELSE change' = [change EXCEPT ![p] = AfterCommand(p)] /\ UNCHANGED cmd
  /\ UNCHANGED <<row, current, handler, req, order, via, crashes,
                 file, alive, sess, phase, loaded, dirty, mixed>>

\* The result arrives, or the time is up; the callers do not tell one from the other.
Return(p) ==
  /\ change[p] = "wait"
  /\ change' = [change EXCEPT ![p] = AfterCommand(p)]
  /\ UNCHANGED <<row, current, handler, req, order, via, crashes, agentVars, dirty, mixed>>

EraseRow(p) ==
  /\ change[p] = "erase"
  /\ row' = NoRow
  /\ change' = [change EXCEPT ![p] = "done"]
  /\ UNCHANGED <<current, handler, req, order, via, crashes, agentVars, dirty, mixed>>

-----------------------------------------------------------------------------
(* Registration requests wait in memory for the owner's button.            *)

PromptRegister(r) ==
  /\ req[r].state = "new"
  /\ \E a \in Aliases : req' = [req EXCEPT ![r] = [state |-> "pending", alias |-> a]]
  /\ UNCHANGED <<row, current, handler, change, order, via, crashes, agentVars, dirty, mixed>>

\* The buttons could not be sent, or the owner declined.
DropRequest(r) ==
  /\ req[r].state = "pending"
  /\ req' = [req EXCEPT ![r].state = "over"]
  /\ UNCHANGED <<row, current, handler, change, order, via, crashes, agentVars, dirty, mixed>>

ConfirmRegister(r) ==
  /\ req[r].state = "pending"
  /\ req' = [req EXCEPT ![r].state = "taken"]
  /\ UNCHANGED <<row, current, handler, change, order, via, crashes, agentVars, dirty, mixed>>

\* The request's alias is as old as the request, a new row's switch the default.
StoreRegistration(r) ==
  /\ req[r].state = "taken"
  /\ req' = [req EXCEPT ![r].state = "over"]
  /\ row' = Upserted(req[r].alias)
  /\ mixed' = IF row = NoRow THEN Fields ELSE mixed \cup {"alias"}
  /\ UNCHANGED <<current, handler, change, order, via, crashes, agentVars, dirty>>

\* The Master dies and starts again: all but the table is gone.
MasterCrash ==
  /\ crashes < MaxCrashes
  /\ crashes' = crashes + 1
  /\ current' = None
  /\ handler' = [c \in Conns |-> "idle"]
  /\ req' = [r \in Requests |->
              [req[r] EXCEPT !.state = IF @ \in {"pending", "taken"} THEN "over" ELSE @]]
  /\ change' = [p \in Changes |-> IF change[p] = "idle" THEN "idle" ELSE "done"]
  /\ CutSession
  /\ UNCHANGED <<row, order, via, file, alive, phase, loaded, dirty, mixed>>

-----------------------------------------------------------------------------
Init ==
  /\ row = NoRow /\ current = None
  /\ handler = [c \in Conns |-> "idle"]
  /\ \E a \in Aliases : req = [r \in Requests |-> [state |-> "new", alias |-> a]]
  /\ change = [p \in Changes |-> "idle"]
  /\ order = [p \in Changes |-> [kind |-> "uninstall"]]
  /\ via = [p \in Changes |-> None]
  /\ crashes = 0
  /\ file \in Settings
  /\ alive = "yes" /\ sess = None /\ phase = "auth"
  /\ loaded = [c \in Conns |-> file]
  /\ cmd = [p \in Changes |-> "none"]
  /\ dirty = [c \in Conns |-> {}]
  /\ mixed = {}

HandlerStep(c) ==
  AuthLost(c) \/ Publish(c) \/ UpsertNode(c) \/ StoreSwitches(c) \/ HandlerEnd(c)

ChangeStep(p) ==
  StoreChange(p) \/ Lookup(p) \/ Send(p) \/ Return(p) \/ EraseRow(p)

Next ==
  \/ \E c \in Conns : Connect(c) \/ ReadFirst(c) \/ HandlerStep(c)
  \/ EndSession \/ AgentRestart \/ Uninstalled \/ MasterCrash
  \/ \E p \in Changes : Press(p) \/ Flip(p) \/ ChangeStep(p) \/ Deliver(p) \/ Execute(p)
  \/ \E r \in Requests : PromptRegister(r) \/ DropRequest(r) \/ ConfirmRegister(r)
                         \/ StoreRegistration(r)

Spec == Init /\ [][Next]_vars

\* Started handlers and goroutines go on: every statement, send and wait in
\* them ends, by its deadline if by nothing else.
Fairness ==
  /\ \A c \in Conns : WF_vars(HandlerStep(c))
  /\ \A p \in Changes : WF_vars(ChangeStep(p)) /\ WF_vars(Execute(p))
  /\ \A r \in Requests : WF_vars(StoreRegistration(r))

LiveSpec == Spec /\ Fairness

-----------------------------------------------------------------------------
\* The agent's session is the node's connection and its auth is done.
Up == sess # None /\ phase = "up" /\ handler[sess] = "serving"

\* When the session is up and no change is under way, row and file agree on
\* every setting, unless two changes of it overlapped, an auth that was under
\* way during a change wrote last, a registration did, or an auth has inserted
\* the row and not yet stored its switches.  (wshub.go:134-141,
\* handlers.go:678-679, commands.go:80-88)
AgreeAtRest ==
  Up /\ row # NoRow =>
    \A f \in Fields : ~Busy(f) /\ f \notin mixed => row[f] = file[f]

\* Whatever overlapped: once the owner leaves the node alone, row and file
\* agree for good, if only the agent's auths go on coming in.  (wsclient.go:64,
\* wshub.go:134-139)
Heals ==
  []<>(\E c \in Conns : handler[c] = "upserted") => <>[](row \in {NoRow, file})
=============================================================================
