--------------------------------- MODULE Hub ---------------------------------
(***************************************************************************)
(* The Master's WebSocket hub and the agent sessions at its other end:     *)
(* registration of connections by node, replacement of a node's older      *)
(* connection, SendCommand with its table of pending results, and the      *)
(* agent that executes commands and answers on the session they came in    *)
(* on.  Sources: internal/master/wshub.go, internal/agent/wsclient.go.     *)
(*                                                                         *)
(* One step is what a goroutine does between two points where another one  *)
(* can run: a critical section of Hub.mu, one frame written or read, one   *)
(* channel operation.  A connection is dialled once, a command is sent     *)
(* once; the node of each is fixed by KeyOf and Target.                    *)
(***************************************************************************)
EXTENDS Naturals, Sequences

CONSTANTS
  Keys,      \* connKey: (owner, node) pairs
  Conns,     \* WebSocket connections, one per dial of an agent
  Cmds,      \* calls of SendCommand, one fresh request id each
  KeyOf,     \* KeyOf[c]: the node whose agent dials c
  Target,    \* Target[m]: the node call m is addressed to
  None       \* Go's nil

ASSUME HubAssumption ==
  /\ KeyOf \in [Conns -> Keys]
  /\ Target \in [Cmds -> Keys]
  /\ None \notin Conns

VARIABLES
  conns,     \* Hub.conns: node -> its current connection, or None
  pending,   \* Hub.pending: request ids that wait for a result
  handler,   \* control state of ServeHTTP, per connection
  srvOpen,   \* the Master's end of the socket is open
  agent,     \* control state of WSClient.session, per connection
  agtOpen,   \* the agent's end of the socket is open
  down,      \* frames in flight to the agent
  up,        \* frames in flight to the Master
  taken,     \* results onMessage has looked up and not yet handed over
  call,      \* control state of SendCommand, per call
  ac,        \* the connection SendCommand has looked up
  chan,      \* pendingResult.ch, a channel of capacity 1
  outcome,   \* what SendCommand returns
  exec,      \* ExecuteCommand at the agent, per command
  sess       \* the session whose writer the executing goroutine holds

hubVars  == <<conns, pending, handler, srvOpen, taken>>
callVars == <<call, ac, chan, outcome>>
agtVars  == <<agent, agtOpen, exec, sess>>
netVars  == <<down, up>>
vars     == <<hubVars, callVars, agtVars, netVars>>

Results  == {"ok", "err"}     \* status < 400, status >= 400
AuthOK   == [op |-> "auth_ok"]
AuthErr  == [op |-> "auth_err"]
Cmd(m)   == [op |-> "cmd", id |-> m]
Result(m, r) == [id |-> m, status |-> r]

DownMsgs == {AuthOK, AuthErr} \cup {Cmd(m) : m \in Cmds}
UpMsgs   == [id : Cmds, status : Results]

TypeOK ==
  /\ conns \in [Keys -> Conns \cup {None}]
  /\ pending \in SUBSET Cmds
  /\ handler \in [Conns -> {"none", "reading", "registered", "live", "closing", "done"}]
  /\ srvOpen \in [Conns -> BOOLEAN]
  /\ agent \in [Conns -> {"none", "dialed", "session", "ended"}]
  /\ agtOpen \in [Conns -> BOOLEAN]
  /\ down \in [Conns -> Seq(DownMsgs)]
  /\ up \in [Conns -> Seq(UpMsgs)]
  /\ taken \in [Conns -> SUBSET UpMsgs]
  /\ call \in [Cmds -> {"idle", "found", "added", "waiting", "returning", "returned"}]
  /\ ac \in [Cmds -> Conns \cup {None}]
  /\ chan \in [Cmds -> Results \cup {"empty"}]
  /\ outcome \in [Cmds -> Results \cup {"none", "FAILED"}]
  /\ exec \in [Cmds -> Results \cup {"no", "running", "killed"}]
  /\ sess \in [Cmds -> Conns \cup {None}]
  /\ \A m \in Cmds :
       /\ call[m] \notin {"idle", "returned"} => ac[m] \in Conns
       /\ exec[m] \in Results \cup {"running"} => sess[m] \in Conns

Init ==
  /\ conns = [k \in Keys |-> None]
  /\ pending = {}
  /\ handler = [c \in Conns |-> "none"]
  /\ srvOpen = [c \in Conns |-> FALSE]
  /\ agent = [c \in Conns |-> "none"]
  /\ agtOpen = [c \in Conns |-> FALSE]
  /\ down = [c \in Conns |-> <<>>]
  /\ up = [c \in Conns |-> <<>>]
  /\ taken = [c \in Conns |-> {}]
  /\ call = [m \in Cmds |-> "idle"]
  /\ ac = [m \in Cmds |-> None]
  /\ chan = [m \in Cmds |-> "empty"]
  /\ outcome = [m \in Cmds |-> "none"]
  /\ exec = [m \in Cmds |-> "no"]
  /\ sess = [m \in Cmds |-> None]

-----------------------------------------------------------------------------
(* The network.  Each direction is FIFO and lossless while both ends are   *)
(* open; what is in flight to an end that closes, or written towards an    *)
(* end that has closed, is lost.  The writer learns of it late or never.   *)

Broken(c) == ~srvOpen[c] \/ ~agtOpen[c]

ToAgent(c, msg)  == down' = IF agtOpen[c] THEN [down EXCEPT ![c] = Append(@, msg)] ELSE down
ToMaster(c, msg) == up' = IF Broken(c) THEN up ELSE [up EXCEPT ![c] = Append(@, msg)]

-----------------------------------------------------------------------------
(* ServeHTTP: one goroutine per connection.                                *)

\* The upgrade has succeeded and the agent has written its auth frame.
Dial(c) ==
  /\ agent[c] = "none"
  /\ \A d \in Conns : KeyOf[d] = KeyOf[c] => agent[d] \in {"none", "ended"}
  /\ agent' = [agent EXCEPT ![c] = "dialed"]
  /\ handler' = [handler EXCEPT ![c] = "reading"]
  /\ srvOpen' = [srvOpen EXCEPT ![c] = TRUE]
  /\ agtOpen' = [agtOpen EXCEPT ![c] = TRUE]
  /\ UNCHANGED <<conns, pending, taken, callVars, exec, sess, netVars>>

\* No auth frame within AuthTimeout (nothing is sent), or one that is
\* malformed, wrongly signed or outside the clock skew (auth_err is sent).
Reject(c) ==
  /\ handler[c] = "reading"
  /\ handler' = [handler EXCEPT ![c] = "done"]
  /\ srvOpen' = [srvOpen EXCEPT ![c] = FALSE]
  /\ \/ UNCHANGED down
     \/ ToAgent(c, AuthErr)
  /\ UNCHANGED <<conns, pending, taken, callVars, agtVars, up>>

\* Auth verified: under h.mu the node's older connection is closed and the
\* new one takes its place, before auth_ok is written.
Register(c) ==
  /\ handler[c] = "reading"
  /\ handler' = [handler EXCEPT ![c] = "registered"]
  /\ srvOpen' = [d \in Conns |-> srvOpen[d] /\ d # conns[KeyOf[c]]]
  /\ conns' = [conns EXCEPT ![KeyOf[c]] = c]
  /\ UNCHANGED <<pending, taken, callVars, agtVars, netVars>>

\* auth_ok is written (an error is ignored) and the read loop begins.
SendAuthOK(c) ==
  /\ handler[c] = "registered"
  /\ handler' = [handler EXCEPT ![c] = "live"]
  /\ IF srvOpen[c] THEN ToAgent(c, AuthOK) ELSE UNCHANGED down
  /\ UNCHANGED <<conns, pending, srvOpen, taken, callVars, agtVars, up>>

\* pingLoop could not write its ping and closes the socket.
PingFails(c) ==
  /\ handler[c] = "live"
  /\ srvOpen[c]
  /\ srvOpen' = [srvOpen EXCEPT ![c] = FALSE]
  /\ UNCHANGED <<conns, pending, handler, taken, callVars, agtVars, netVars>>

\* onMessage, cmd_result: take the pending entry of the result's id.  A frame
\* already buffered is still read after another goroutine closed the socket.
TakeResult(c) ==
  /\ handler[c] = "live"
  /\ taken[c] = {}
  /\ up[c] # <<>>
  /\ up' = [up EXCEPT ![c] = Tail(@)]
  /\ LET res == Head(up[c]) IN
       /\ taken' = [taken EXCEPT ![c] = IF res.id \in pending THEN {res} ELSE {}]
       /\ pending' = pending \ {res.id}
  /\ UNCHANGED <<conns, handler, srvOpen, callVars, agtVars, down>>

\* onMessage, after h.mu is released: hand the result over without blocking.
PushResult(c) ==
  \E res \in taken[c] :
    /\ taken' = [taken EXCEPT ![c] = {}]
    /\ chan' = IF chan[res.id] = "empty" THEN [chan EXCEPT ![res.id] = res.status] ELSE chan
    /\ UNCHANGED <<conns, pending, handler, srvOpen, call, ac, outcome, agtVars, netVars>>

\* Two bugs to rule out: the entry is deleted whoever owns it, or never.
HandlerExitAny(c) ==
  /\ handler[c] = "live"
  /\ taken[c] = {}
  /\ handler' = [handler EXCEPT ![c] = "closing"]
  /\ conns' = [conns EXCEPT ![KeyOf[c]] = None]
  /\ UNCHANGED <<pending, srvOpen, taken, callVars, agtVars, netVars>>

HandlerExitKeep(c) ==
  /\ handler[c] = "live"
  /\ taken[c] = {}
  /\ handler' = [handler EXCEPT ![c] = "closing"]
  /\ UNCHANGED <<conns, pending, srvOpen, taken, callVars, agtVars, netVars>>

\* A read fails: either end has closed, or WSDeadAfter passed without a frame.
\* The deferred cleanup removes the registry entry if it is still this one's.
HandlerExit(c) ==
  /\ handler[c] = "live"
  /\ taken[c] = {}
  /\ handler' = [handler EXCEPT ![c] = "closing"]
  /\ conns' = IF conns[KeyOf[c]] = c THEN [conns EXCEPT ![KeyOf[c]] = None] ELSE conns
  /\ UNCHANGED <<pending, srvOpen, taken, callVars, agtVars, netVars>>

\* The deferred cleanup closes the socket after it released h.mu.
CloseConn(c) ==
  /\ handler[c] = "closing"
  /\ handler' = [handler EXCEPT ![c] = "done"]
  /\ srvOpen' = [srvOpen EXCEPT ![c] = FALSE]
  /\ up' = [up EXCEPT ![c] = <<>>]
  /\ UNCHANGED <<conns, pending, taken, callVars, agtVars, down>>

-----------------------------------------------------------------------------
(* SendCommand: one goroutine per call.                                    *)

\* A bug to rule out: a node without a connection is not noticed.
LookupUnchecked(m) ==
  /\ call[m] = "idle"
  /\ call' = [call EXCEPT ![m] = "found"]
  /\ ac' = [ac EXCEPT ![m] = conns[Target[m]]]
  /\ UNCHANGED <<hubVars, chan, outcome, agtVars, netVars>>

Lookup(m) ==
  /\ call[m] = "idle"
  /\ IF conns[Target[m]] = None
       THEN /\ call' = [call EXCEPT ![m] = "returned"]
            /\ outcome' = [outcome EXCEPT ![m] = "FAILED"]
            /\ UNCHANGED ac
       ELSE /\ call' = [call EXCEPT ![m] = "found"]
            /\ ac' = [ac EXCEPT ![m] = conns[Target[m]]]
            /\ UNCHANGED outcome
  /\ UNCHANGED <<hubVars, chan, agtVars, netVars>>

AddPending(m) ==
  /\ call[m] = "found"
  /\ call' = [call EXCEPT ![m] = "added"]
  /\ pending' = pending \cup {m}
  /\ UNCHANGED <<conns, handler, srvOpen, taken, ac, chan, outcome, agtVars, netVars>>

SendOK(m) ==
  /\ call[m] = "added"
  /\ srvOpen[ac[m]]
  /\ call' = [call EXCEPT ![m] = "waiting"]
  /\ ToAgent(ac[m], Cmd(m))
  /\ UNCHANGED <<hubVars, ac, chan, outcome, agtVars, up>>

SendFails(m) ==
  /\ call[m] = "added"
  /\ Broken(ac[m])
  /\ call' = [call EXCEPT ![m] = "returning"]
  /\ outcome' = [outcome EXCEPT ![m] = "FAILED"]
  /\ UNCHANGED <<hubVars, ac, chan, agtVars, netVars>>

\* A bug to rule out: the call waits for its result without a deadline.
TimeoutNever(m) ==
  /\ call[m] = "waiting"
  /\ chan[m] # "empty"
  /\ call' = [call EXCEPT ![m] = "returning"]
  /\ outcome' = [outcome EXCEPT ![m] = "FAILED"]
  /\ UNCHANGED <<hubVars, ac, chan, agtVars, netVars>>

\* The context's deadline can win the select even when a result is ready.
Timeout(m) ==
  /\ call[m] = "waiting"
  /\ call' = [call EXCEPT ![m] = "returning"]
  /\ outcome' = [outcome EXCEPT ![m] = "FAILED"]
  /\ UNCHANGED <<hubVars, ac, chan, agtVars, netVars>>

Receive(m) ==
  /\ call[m] = "waiting"
  /\ chan[m] # "empty"
  /\ call' = [call EXCEPT ![m] = "returning"]
  /\ outcome' = [outcome EXCEPT ![m] = chan[m]]
  /\ chan' = [chan EXCEPT ![m] = "empty"]
  /\ UNCHANGED <<hubVars, ac, agtVars, netVars>>

\* A bug to rule out: the entry of a call that timed out stays in the table.
ReturnKeepPending(m) ==
  /\ call[m] = "returning"
  /\ call' = [call EXCEPT ![m] = "returned"]
  /\ UNCHANGED <<hubVars, ac, chan, outcome, agtVars, netVars>>

\* The deferred delete of the pending entry, then the return.
Return(m) ==
  /\ call[m] = "returning"
  /\ call' = [call EXCEPT ![m] = "returned"]
  /\ pending' = pending \ {m}
  /\ UNCHANGED <<conns, handler, srvOpen, taken, ac, chan, outcome, agtVars, netVars>>

-----------------------------------------------------------------------------
(* WSClient.session and the goroutines it starts, at the agent.            *)

Ended(c) ==
  /\ agent' = [agent EXCEPT ![c] = "ended"]
  /\ agtOpen' = [agtOpen EXCEPT ![c] = FALSE]
  /\ down' = [down EXCEPT ![c] = <<>>]

\* The first frame must be auth_ok; any other ends the session.
ReadFirst(c) ==
  /\ agent[c] = "dialed"
  /\ down[c] # <<>>
  /\ IF Head(down[c]) = AuthOK
       THEN /\ agent' = [agent EXCEPT ![c] = "session"]
            /\ down' = [down EXCEPT ![c] = Tail(@)]
            /\ UNCHANGED agtOpen
       ELSE Ended(c)
  /\ UNCHANGED <<hubVars, callVars, exec, sess, up>>

\* A cmd frame starts a goroutine of its own.
StartCommand(c) ==
  /\ agent[c] = "session"
  /\ down[c] # <<>>
  /\ down' = [down EXCEPT ![c] = Tail(@)]
  /\ IF Head(down[c]).op = "cmd"
       THEN /\ exec' = [exec EXCEPT ![Head(down[c]).id] = "running"]
            /\ sess' = [sess EXCEPT ![Head(down[c]).id] = c]
       ELSE UNCHANGED <<exec, sess>>
  /\ UNCHANGED <<hubVars, callVars, agent, agtOpen, up>>

\* A bug to rule out: the answer does not carry what the command returned.
FinishCommandOK(m) ==
  /\ exec[m] = "running"
  /\ \E r \in Results :
       /\ exec' = [exec EXCEPT ![m] = r]
       /\ ToMaster(sess[m], Result(m, "ok"))
  /\ UNCHANGED <<hubVars, callVars, agent, agtOpen, sess, down>>

\* ExecuteCommand returns and the result is written on the session the
\* command came in on, which may have ended; the error is ignored.
FinishCommand(m) ==
  /\ exec[m] = "running"
  /\ \E r \in Results :
       /\ exec' = [exec EXCEPT ![m] = r]
       /\ ToMaster(sess[m], Result(m, r))
  /\ UNCHANGED <<hubVars, callVars, agent, agtOpen, sess, down>>

\* Read error, write error, pong timeout, or Stop.
EndSession(c) ==
  /\ agent[c] \in {"dialed", "session"}
  /\ Ended(c)
  /\ UNCHANGED <<hubVars, callVars, exec, sess, up>>

\* The agent process dies (uninstall, upgrade, reboot) with what it runs.
AgentCrash(k) ==
  LET mine == {c \in Conns : KeyOf[c] = k /\ agent[c] \in {"dialed", "session"}}
      running == {m \in Cmds : exec[m] = "running" /\ KeyOf[sess[m]] = k}
  IN /\ mine \cup running # {}
     /\ agent' = [c \in Conns |-> IF c \in mine THEN "ended" ELSE agent[c]]
     /\ agtOpen' = [c \in Conns |-> agtOpen[c] /\ c \notin mine]
     /\ down' = [c \in Conns |-> IF c \in mine THEN <<>> ELSE down[c]]
     /\ exec' = [m \in Cmds |-> IF m \in running THEN "killed" ELSE exec[m]]
  /\ UNCHANGED <<hubVars, callVars, sess, up>>

-----------------------------------------------------------------------------
HandlerStep(c) ==
  \/ Dial(c) \/ Reject(c) \/ Register(c) \/ SendAuthOK(c) \/ PingFails(c)
  \/ TakeResult(c) \/ PushResult(c) \/ HandlerExit(c) \/ CloseConn(c)

CallStep(m) ==
  \/ Lookup(m) \/ AddPending(m) \/ SendOK(m) \/ SendFails(m)
  \/ Timeout(m) \/ Receive(m) \/ Return(m)

AgentStep(c) == ReadFirst(c) \/ StartCommand(c) \/ EndSession(c)

Next ==
  \/ \E c \in Conns : HandlerStep(c) \/ AgentStep(c)
  \/ \E m \in Cmds : CallStep(m) \/ FinishCommand(m)
  \/ \E k \in Keys : AgentCrash(k)

(* Goroutines that can run do run: a call always reaches its deadline, a   *)
(* handler always finishes what it began and notices a socket that either  *)
(* end has closed (its read deadline is WSDeadAfter).  Nothing is assumed  *)
(* of agents, of the network, or of the arrival of calls.                  *)
Fairness ==
  /\ \A m \in Cmds : WF_vars(CallStep(m) /\ call[m] # "idle")
  /\ \A c \in Conns :
       /\ WF_vars(Register(c) \/ Reject(c))
       /\ WF_vars(SendAuthOK(c))
       /\ WF_vars(PushResult(c))
       /\ WF_vars(Broken(c) /\ HandlerExit(c))
       /\ WF_vars(CloseConn(c))

Spec == Init /\ [][Next]_vars /\ Fairness

-----------------------------------------------------------------------------
(* Properties.                                                             *)

\* A connection the hub still serves and has not closed is the one its node
\* is registered under: a late cleanup of an older connection never takes a
\* newer one out of the table, and a replaced one is closed.  At most one open
\* connection per node follows.  (wshub.go:117-122, 160-169)
OpenIsRegistered ==
  \A c \in Conns :
    handler[c] \in {"registered", "live"} /\ srvOpen[c] => conns[KeyOf[c]] = c

\* The table never names a connection whose handler has ended, nor one of
\* another node: SendCommand and IsConnected see no ghost.  (wshub.go:163-166)
NoGhost ==
  \A k \in Keys : conns[k] # None =>
    /\ conns[k] \in Conns
    /\ KeyOf[conns[k]] = k
    /\ handler[conns[k]] \in {"registered", "live"}

\* Only a call that has not returned has an entry in the pending table: calls
\* that time out, fail or lose their connection leave nothing behind.
\* (wshub.go:299-306, 221-225)
NoPendingLeak ==
  \A m \in pending : call[m] \in {"added", "waiting", "returning"}

\* A caller that gets a result gets the one its own command produced at the
\* agent, through any number of timeouts, replacements and late answers.
\* (wshub.go:217-233, 319-325)
ReplyIsOwn ==
  \A m \in Cmds : outcome[m] \in Results => exec[m] = outcome[m]

\* The hub forgets a connection one of whose ends has closed, so IsConnected
\* does not report a node that is gone for ever.  (wshub.go:149, 160-175)
DeadIsForgotten ==
  \A c \in Conns : (conns[KeyOf[c]] = c /\ Broken(c)) ~> (conns[KeyOf[c]] # c)

\* The refinement mapping: a command has run when ExecuteCommand has returned;
\* a call is answered when SendCommand returns.
ranBar == [m \in Cmds |-> IF exec[m] \in Results THEN exec[m] ELSE "no"]

replyBar == [m \in Cmds |->
  CASE call[m] = "idle" -> "idle"
    [] call[m] = "returned" /\ ac[m] = None -> "refused"
    [] call[m] = "returned" /\ ac[m] # None -> outcome[m]
    [] OTHER -> "open"]

\* What callers of SendCommand may rely on (module Command): at most one
\* execution, a reply that is FAILED or the execution's result, and an
\* answer to every call.  (wshub.go:281-326)
Promise == INSTANCE Command WITH ran <- ranBar, reply <- replyBar

ImplementsCommand == Promise!Spec

\* The first frame an agent reads on a connection answers its auth frame, as
\* the session and the hub's own test expect.  (wsclient.go:135-142,
\* wshub_test.go:65-71)
FirstFrameAnswersAuth ==
  \A c \in Conns :
    agent[c] = "dialed" /\ down[c] # <<>> => Head(down[c]) \in {AuthOK, AuthErr}
=============================================================================
