------------------------------ MODULE HubProofs ------------------------------
(***************************************************************************)
(* Proofs about Hub, for every set of nodes, connections and calls.        *)
(***************************************************************************)
EXTENDS Hub, TLAPS

\* What the hub and the agents write on a socket are frames of the protocol.
LEMMA FramesAreTyped ==
  /\ AuthOK \in DownMsgs
  /\ AuthErr \in DownMsgs
  /\ \A m \in Cmds : Cmd(m) \in DownMsgs
  /\ \A m \in Cmds, r \in Results : Result(m, r) \in UpMsgs
BY DEF DownMsgs, UpMsgs, Result

\* Writing one frame keeps the queue of every connection a queue of frames.
LEMMA ToAgentTyped ==
  ASSUME TypeOK, NEW c \in Conns, NEW msg \in DownMsgs, ToAgent(c, msg)
  PROVE  down' \in [Conns -> Seq(DownMsgs)]
BY DEF TypeOK, ToAgent

\* A frame written towards the Master keeps up typed.
LEMMA ToMasterTyped ==
  ASSUME TypeOK, NEW c \in Conns, NEW msg \in UpMsgs, ToMaster(c, msg)
  PROVE  up' \in [Conns -> Seq(UpMsgs)]
BY DEF TypeOK, ToMaster

\* Every variable keeps its type; a call past its lookup holds a connection,
\* and a command that runs or has run knows the session it came in on.
THEOREM TypeCorrect == Spec => []TypeOK
<1>1. Init => TypeOK
  <2> SUFFICES ASSUME Init PROVE TypeOK
    OBVIOUS
  <2>1. /\ down \in [Conns -> Seq(DownMsgs)]
        /\ up \in [Conns -> Seq(UpMsgs)]
        /\ taken \in [Conns -> SUBSET UpMsgs]
    BY DEF Init
  <2> QED
    BY <2>1 DEF Init, TypeOK, Results
<1>2. TypeOK /\ [Next]_vars => TypeOK'
  <2> SUFFICES ASSUME TypeOK, [Next]_vars PROVE TypeOK'
    OBVIOUS
  <2> USE HubAssumption, FramesAreTyped DEF TypeOK, vars, hubVars, callVars, agtVars, netVars
  <2>1. ASSUME NEW c \in Conns, Dial(c) PROVE TypeOK'
    BY <2>1 DEF Dial
  <2>2. ASSUME NEW c \in Conns, Reject(c) PROVE TypeOK'
    BY <2>2, ToAgentTyped DEF Reject
  <2>3. ASSUME NEW c \in Conns, Register(c) PROVE TypeOK'
    BY <2>3 DEF Register
  <2>4. ASSUME NEW c \in Conns, SendAuthOK(c) PROVE TypeOK'
    BY <2>4, ToAgentTyped DEF SendAuthOK
  <2>5. ASSUME NEW c \in Conns, PingFails(c) PROVE TypeOK'
    BY <2>5 DEF PingFails
  <2>6. ASSUME NEW c \in Conns, TakeResult(c) PROVE TypeOK'
    BY <2>6 DEF TakeResult
  <2>7. ASSUME NEW c \in Conns, PushResult(c) PROVE TypeOK'
    <3>1. PICK res \in taken[c] : PushResult(c)!(res)
      BY <2>7 DEF PushResult
    <3>2. res.id \in Cmds /\ res.status \in Results /\ taken' \in [Conns -> SUBSET UpMsgs]
      BY <3>1 DEF UpMsgs
    <3>3. chan' \in [Cmds -> Results \cup {"empty"}]
      BY <3>1, <3>2
    <3> QED
      BY <3>1, <3>2, <3>3
  <2>8. ASSUME NEW c \in Conns, HandlerExit(c) PROVE TypeOK'
    BY <2>8 DEF HandlerExit
  <2>9. ASSUME NEW c \in Conns, CloseConn(c) PROVE TypeOK'
    BY <2>9 DEF CloseConn
  <2>10. ASSUME NEW m \in Cmds, Lookup(m) PROVE TypeOK'
    <3>1. CASE conns[Target[m]] = None
      <4>1. /\ call' = [call EXCEPT ![m] = "returned"]
            /\ outcome' = [outcome EXCEPT ![m] = "FAILED"]
            /\ UNCHANGED <<hubVars, chan, agtVars, netVars, ac>>
        BY <2>10, <3>1 DEF Lookup
      <4> QED
        BY <4>1
    <3>2. CASE conns[Target[m]] # None
      <4>1. conns[Target[m]] \in Conns
        BY <3>2
      <4> QED
        <5>1. /\ call' \in [Cmds -> {"idle", "found", "added", "waiting", "returning", "returned"}]
              /\ ac' \in [Cmds -> Conns \cup {None}]
              /\ \A n \in Cmds : call'[n] \notin {"idle", "returned"} => ac'[n] \in Conns
          <6>1. /\ call' = [call EXCEPT ![m] = "found"]
                /\ ac' = [ac EXCEPT ![m] = conns[Target[m]]]
            BY <2>10, <3>2 DEF Lookup
          <6> QED
            BY <6>1, <4>1
        <5>2. UNCHANGED <<hubVars, chan, agtVars, netVars, outcome>>
          BY <2>10, <3>2, <4>1 DEF Lookup
        <5> QED
          BY <5>1, <5>2
    <3> QED
      BY <3>1, <3>2
  <2>11. ASSUME NEW m \in Cmds, AddPending(m) PROVE TypeOK'
    BY <2>11 DEF AddPending
  <2>12. ASSUME NEW m \in Cmds, SendOK(m) PROVE TypeOK'
    <3>1. /\ call[m] = "added" /\ call' = [call EXCEPT ![m] = "waiting"]
          /\ UNCHANGED <<hubVars, ac, chan, outcome, agtVars, up>>
      BY <2>12 DEF SendOK
    <3>2. ac[m] \in Conns
      BY <3>1
    <3>3. down' \in [Conns -> Seq(DownMsgs)]
      BY <2>12, <3>2, ToAgentTyped DEF SendOK
    <3>4. \A n \in Cmds : call'[n] \notin {"idle", "returned"} => ac'[n] \in Conns
      BY <3>1, <3>2
    <3> QED
      BY <3>1, <3>3, <3>4
  <2>13. ASSUME NEW m \in Cmds, SendFails(m) PROVE TypeOK'
    BY <2>13 DEF SendFails
  <2>14. ASSUME NEW m \in Cmds, Timeout(m) PROVE TypeOK'
    BY <2>14 DEF Timeout
  <2>15. ASSUME NEW m \in Cmds, Receive(m) PROVE TypeOK'
    BY <2>15 DEF Receive
  <2>16. ASSUME NEW m \in Cmds, Return(m) PROVE TypeOK'
    BY <2>16 DEF Return
  <2>17. ASSUME NEW c \in Conns, ReadFirst(c) PROVE TypeOK'
    <3>1. CASE Head(down[c]) = AuthOK
      <4>1. /\ agent' \in [Conns -> {"none", "dialed", "session", "ended"}]
            /\ down' \in [Conns -> Seq(DownMsgs)]
        <5>1. /\ agent' = [agent EXCEPT ![c] = "session"]
              /\ down' = [down EXCEPT ![c] = Tail(@)]
              /\ down[c] # <<>>
          BY <2>17, <3>1 DEF ReadFirst
        <5> QED
          BY <5>1
      <4>2. UNCHANGED <<hubVars, callVars, exec, sess, up, agtOpen>>
        BY <2>17, <3>1 DEF ReadFirst
      <4> QED
        BY <4>1, <4>2
    <3>2. CASE Head(down[c]) # AuthOK
      <4>1. /\ agent' \in [Conns -> {"none", "dialed", "session", "ended"}]
            /\ agtOpen' \in [Conns -> BOOLEAN]
            /\ down' \in [Conns -> Seq(DownMsgs)]
        <5>1. Ended(c)
          BY <2>17, <3>2 DEF ReadFirst
        <5> QED
          BY <5>1 DEF Ended
      <4>2. UNCHANGED <<hubVars, callVars, exec, sess, up>>
        BY <2>17, <3>2 DEF ReadFirst
      <4> QED
        BY <4>1, <4>2
    <3> QED
      BY <3>1, <3>2
  <2>18. ASSUME NEW c \in Conns, StartCommand(c) PROVE TypeOK'
    <3>1. down' \in [Conns -> Seq(DownMsgs)] /\ Head(down[c]) \in DownMsgs
      BY <2>18 DEF StartCommand
    <3>2. CASE Head(down[c]).op = "cmd"
      <4>1. Head(down[c]).id \in Cmds
        BY <3>1, <3>2 DEF DownMsgs, AuthOK, AuthErr, Cmd
      <4> QED
        <5> DEFINE id == Head(down[c]).id
        <5>0. exec' = [exec EXCEPT ![id] = "running"] /\ sess' = [sess EXCEPT ![id] = c]
          BY <2>18, <3>2 DEF StartCommand
        <5>a. id \in Cmds
          BY <4>1
        <5> HIDE DEF id
        <5>1. exec' \in [Cmds -> Results \cup {"no", "running", "killed"}]
          BY <5>0, <5>a
        <5>2. sess' \in [Cmds -> Conns \cup {None}]
          BY <5>0, <5>a
        <5>3. \A m \in Cmds : exec'[m] \in Results \cup {"running"} => sess'[m] \in Conns
          BY <5>0, <5>a
        <5>4. UNCHANGED <<hubVars, callVars, agent, agtOpen, up>>
          BY <2>18 DEF StartCommand
        <5> QED
          BY <3>1, <5>1, <5>2, <5>3, <5>4
    <3>3. CASE Head(down[c]).op # "cmd"
      BY <2>18, <3>1, <3>3 DEF StartCommand
    <3> QED
      BY <3>2, <3>3
  <2>19. ASSUME NEW m \in Cmds, FinishCommand(m) PROVE TypeOK'
    BY <2>19, ToMasterTyped DEF FinishCommand
  <2>20. ASSUME NEW c \in Conns, EndSession(c) PROVE TypeOK'
    BY <2>20 DEF EndSession, Ended
  <2>21. ASSUME NEW k \in Keys, AgentCrash(k) PROVE TypeOK'
    BY <2>21 DEF AgentCrash, Results
  <2>22. CASE UNCHANGED vars
    BY <2>22
  <2> QED
    BY <2>1, <2>2, <2>3, <2>4, <2>5, <2>6, <2>7, <2>8, <2>9, <2>10, <2>11, <2>12,
       <2>13, <2>14, <2>15, <2>16, <2>17, <2>18, <2>19, <2>20, <2>21, <2>22
    DEF Next, HandlerStep, CallStep, AgentStep
<1> QED
  BY <1>1, <1>2, PTL DEF Spec


-----------------------------------------------------------------------------
(* The registry.                                                           *)

\* A connection that has not been dialled has no handler yet, so a dial never
\* resets the handler of a connection the table names.
DialIsFresh == \A c \in Conns : agent[c] = "none" => handler[c] = "none"

RegistryInv == DialIsFresh /\ NoGhost /\ OpenIsRegistered

\* The steps of calls and of agents leave the registry alone.
LEMMA RegistryFrame ==
  ASSUME RegistryInv, UNCHANGED <<conns, handler, srvOpen>>,
         \A c \in Conns : agent'[c] = "none" => agent[c] = "none"
  PROVE  RegistryInv'
BY DEF RegistryInv, DialIsFresh, NoGhost, OpenIsRegistered

\* A connection that is served and open is the registered one of its node, and
\* the table names no connection whose handler has ended.
THEOREM RegistrySound == Spec => [](OpenIsRegistered /\ NoGhost)
<1>1. Init => RegistryInv
  BY HubAssumption DEF Init, RegistryInv, DialIsFresh, NoGhost, OpenIsRegistered
<1>2. TypeOK /\ RegistryInv /\ [Next]_vars => RegistryInv'
  <2> SUFFICES ASSUME TypeOK, RegistryInv, [Next]_vars PROVE RegistryInv'
    OBVIOUS
  <2> USE HubAssumption
  <2> USE DEF vars, hubVars, callVars, agtVars, netVars
  <2>1. ASSUME NEW c \in Conns, Dial(c) PROVE RegistryInv'
    BY <2>1 DEF Dial, TypeOK, RegistryInv, DialIsFresh, NoGhost, OpenIsRegistered
  <2>2. ASSUME NEW c \in Conns, Reject(c) PROVE RegistryInv'
    BY <2>2 DEF Reject, TypeOK, RegistryInv, DialIsFresh, NoGhost, OpenIsRegistered
  <2>3. ASSUME NEW c \in Conns, Register(c) PROVE RegistryInv'
    <3>1. DialIsFresh'
      BY <2>3 DEF Register, TypeOK, RegistryInv, DialIsFresh
    <3>2. NoGhost'
      BY <2>3 DEF Register, TypeOK, RegistryInv, NoGhost
    <3>3. OpenIsRegistered'
      <4> SUFFICES ASSUME NEW d \in Conns, handler'[d] \in {"registered", "live"}, srvOpen'[d]
                   PROVE  conns'[KeyOf[d]] = d
        BY DEF OpenIsRegistered
      <4>1. CASE d = c
        BY <2>3, <4>1 DEF Register, TypeOK
      <4>2. CASE d # c
        <5>1. srvOpen[d] /\ d # conns[KeyOf[c]] /\ conns[KeyOf[d]] = d
          BY <2>3, <4>2 DEF Register, TypeOK, RegistryInv, OpenIsRegistered
        <5> QED
          BY <2>3, <5>1 DEF Register, TypeOK
      <4> QED
        BY <4>1, <4>2
    <3> QED
      BY <3>1, <3>2, <3>3 DEF RegistryInv
  <2>4. ASSUME NEW c \in Conns, SendAuthOK(c) PROVE RegistryInv'
    BY <2>4 DEF SendAuthOK, TypeOK, RegistryInv, DialIsFresh, NoGhost, OpenIsRegistered
  <2>5. ASSUME NEW c \in Conns, PingFails(c) PROVE RegistryInv'
    BY <2>5 DEF PingFails, TypeOK, RegistryInv, DialIsFresh, NoGhost, OpenIsRegistered
  <2>6. ASSUME NEW c \in Conns, TakeResult(c) \/ PushResult(c) PROVE RegistryInv'
    BY <2>6, RegistryFrame DEF TakeResult, PushResult
  <2>7. ASSUME NEW c \in Conns, HandlerExit(c) PROVE RegistryInv'
    BY <2>7 DEF HandlerExit, TypeOK, RegistryInv, DialIsFresh, NoGhost, OpenIsRegistered
  <2>8. ASSUME NEW c \in Conns, CloseConn(c) PROVE RegistryInv'
    BY <2>8 DEF CloseConn, TypeOK, RegistryInv, DialIsFresh, NoGhost, OpenIsRegistered
  <2>9. ASSUME NEW m \in Cmds, CallStep(m) PROVE RegistryInv'
    BY <2>9, RegistryFrame
    DEF CallStep, Lookup, AddPending, SendOK, SendFails, Timeout, Receive, Return
  <2>10. ASSUME NEW c \in Conns, AgentStep(c) PROVE RegistryInv'
    BY <2>10, RegistryFrame DEF TypeOK, AgentStep, ReadFirst, StartCommand, EndSession, Ended
  <2>11. ASSUME NEW m \in Cmds, FinishCommand(m) PROVE RegistryInv'
    BY <2>11, RegistryFrame DEF FinishCommand
  <2>12. ASSUME NEW k \in Keys, AgentCrash(k) PROVE RegistryInv'
    BY <2>12, RegistryFrame DEF AgentCrash
  <2>13. CASE UNCHANGED vars
    BY <2>13, RegistryFrame
  <2> QED
    BY <2>1, <2>2, <2>3, <2>4, <2>5, <2>6, <2>7, <2>8, <2>9, <2>10, <2>11, <2>12, <2>13
    DEF Next, HandlerStep
<1>3. RegistryInv => OpenIsRegistered /\ NoGhost
  BY DEF RegistryInv
<1> QED
  BY <1>1, <1>2, <1>3, TypeCorrect, PTL DEF Spec

-----------------------------------------------------------------------------
(* The table of pending results.                                           *)

\* A request id is in the table only while its call has not returned.
THEOREM PendingSound == Spec => []NoPendingLeak
<1>1. Init => NoPendingLeak
  BY DEF Init, NoPendingLeak
<1>2. TypeOK /\ NoPendingLeak /\ [Next]_vars => NoPendingLeak'
  <2> SUFFICES ASSUME TypeOK, NoPendingLeak, [Next]_vars PROVE NoPendingLeak'
    OBVIOUS
  <2> USE DEF NoPendingLeak, TypeOK, vars, hubVars, callVars, agtVars, netVars
  <2>1. ASSUME NEW c \in Conns, HandlerStep(c) PROVE NoPendingLeak'
    BY <2>1 DEF HandlerStep, Dial, Reject, Register, SendAuthOK, PingFails, TakeResult,
                PushResult, HandlerExit, CloseConn
  <2>2. ASSUME NEW m \in Cmds, CallStep(m) PROVE NoPendingLeak'
    BY <2>2
    DEF CallStep, Lookup, AddPending, SendOK, SendFails, Timeout, Receive, Return
  <2>3. ASSUME NEW c \in Conns, AgentStep(c) PROVE NoPendingLeak'
    BY <2>3 DEF AgentStep, ReadFirst, StartCommand, EndSession
  <2>4. ASSUME NEW m \in Cmds, FinishCommand(m) PROVE NoPendingLeak'
    BY <2>4 DEF FinishCommand
  <2>5. ASSUME NEW k \in Keys, AgentCrash(k) PROVE NoPendingLeak'
    BY <2>5 DEF AgentCrash
  <2>6. CASE UNCHANGED vars
    BY <2>6
  <2> QED
    BY <2>1, <2>2, <2>3, <2>4, <2>5, <2>6 DEF Next
<1> QED
  BY <1>1, <1>2, TypeCorrect, PTL DEF Spec

-----------------------------------------------------------------------------
(* Commands and their results.                                             *)

\* A command frame is never mistaken for another frame or another command.
LEMMA CmdFacts ==
  /\ \A m, n \in Cmds : Cmd(m) = Cmd(n) => m = n
  /\ \A m \in Cmds : Cmd(m) # AuthOK /\ Cmd(m) # AuthErr
  /\ \A m \in Cmds : Cmd(m).id = m /\ Cmd(m).op = "cmd"
  /\ \A msg \in DownMsgs : msg.op = "cmd" => msg.id \in Cmds /\ msg = Cmd(msg.id)
BY DEF Cmd, AuthOK, AuthErr, DownMsgs

\* A command in flight was sent by a call that has passed its send, sits in one
\* queue once, and has not been started; a call that has not sent has started
\* nothing.
CommandInv ==
  /\ \A c \in Conns, m \in Cmds : \A i \in 1..Len(down[c]) :
       down[c][i] = Cmd(m) => exec[m] = "no" /\ call[m] \in {"waiting", "returning", "returned"}
                              /\ ac[m] # None
  /\ \A c, d \in Conns, m \in Cmds : \A i \in 1..Len(down[c]), j \in 1..Len(down[d]) :
       down[c][i] = Cmd(m) /\ down[d][j] = Cmd(m) => c = d /\ i = j
  /\ \A m \in Cmds :
       /\ exec[m] # "no" => ac[m] # None
       /\ call[m] \in {"idle", "found", "added"} => exec[m] = "no"
       /\ call[m] = "idle" => ac[m] = None

\* Wherever a result is on its way to its caller, it is the one the agent's
\* execution of that command produced.
ResultInv ==
  /\ \A c \in Conns : \A i \in 1..Len(up[c]) : exec[up[c][i].id] = up[c][i].status
  /\ \A c \in Conns : \A res \in taken[c] : exec[res.id] = res.status
  /\ \A m \in Cmds : chan[m] \in Results => exec[m] = chan[m]
  /\ ReplyIsOwn

\* A call has an outcome exactly from the moment it is about to return.
OutcomeInv ==
  \A m \in Cmds :
    outcome[m] = "none" <=> call[m] \in {"idle", "found", "added", "waiting"}

ReplyInv == CommandInv /\ ResultInv /\ OutcomeInv

\* The handlers of connections, but for cmd_result, leave all this alone.
LEMMA ReplyFrame ==
  ASSUME ReplyInv, UNCHANGED <<down, up, taken, call, ac, chan, outcome, exec>>
  PROVE  ReplyInv'
BY DEF ReplyInv, CommandInv, ResultInv, OutcomeInv, ReplyIsOwn

\* What holds of the commands in flight goes on to hold when a queue loses its
\* first frames, or gets a frame that is no command.
LEMMA FramesMoved ==
  ASSUME CommandInv, UNCHANGED <<call, ac, exec>>,
         NEW shift \in [Conns -> Nat],
         \A d \in Conns : \A i \in 1..Len(down'[d]) :
           \/ \A m \in Cmds : down'[d][i] # Cmd(m)
           \/ i + shift[d] \in 1..Len(down[d]) /\ down'[d][i] = down[d][i + shift[d]],
         \A d \in Conns : Len(down'[d]) \in Nat
  PROVE  CommandInv'
<1>1. \A d \in Conns, m \in Cmds : \A i \in 1..Len(down'[d]) :
        down'[d][i] = Cmd(m) =>
          exec'[m] = "no" /\ call'[m] \in {"waiting", "returning", "returned"} /\ ac'[m] # None
  BY DEF CommandInv
<1>2. ASSUME NEW d \in Conns, NEW e \in Conns, NEW m \in Cmds,
             NEW i \in 1..Len(down'[d]), NEW j \in 1..Len(down'[e]),
             down'[d][i] = Cmd(m), down'[e][j] = Cmd(m)
      PROVE  d = e /\ i = j
  <2>1. i + shift[d] \in 1..Len(down[d]) /\ down[d][i + shift[d]] = Cmd(m)
    BY <1>2
  <2>2. j + shift[e] \in 1..Len(down[e]) /\ down[e][j + shift[e]] = Cmd(m)
    BY <1>2
  <2>3. d = e /\ i + shift[d] = j + shift[e]
    <3> DEFINE k == i + shift[d]
               l == j + shift[e]
    <3>1. /\ k \in 1..Len(down[d]) /\ down[d][k] = Cmd(m)
          /\ l \in 1..Len(down[e]) /\ down[e][l] = Cmd(m)
      BY <2>1, <2>2
    <3> HIDE DEF k, l
    <3>2. d = e /\ k = l
      BY <3>1 DEF CommandInv
    <3> QED
      BY <3>2 DEF k, l
  <2> QED
    BY <2>3
<1>3. \A m \in Cmds :
        /\ exec'[m] # "no" => ac'[m] # None
        /\ call'[m] \in {"idle", "found", "added"} => exec'[m] = "no"
        /\ call'[m] = "idle" => ac'[m] = None
  BY DEF CommandInv
<1> QED
  BY <1>1, <1>2, <1>3 DEF CommandInv

\* So does a frame to the agent that is not a command, and the loss of frames.
LEMMA CommandFrame ==
  ASSUME TypeOK, CommandInv, UNCHANGED <<call, ac, exec>>, NEW c \in Conns,
         \/ ToAgent(c, AuthOK) \/ ToAgent(c, AuthErr) \/ UNCHANGED down
         \/ down' = [down EXCEPT ![c] = <<>>]
         \/ down[c] # <<>> /\ down' = [down EXCEPT ![c] = Tail(@)]
  PROVE  CommandInv'
<1>1. CASE UNCHANGED down
  BY <1>1 DEF CommandInv
<1>2. CASE down' = [down EXCEPT ![c] = <<>>]
  <2> DEFINE none == [d \in Conns |-> 0]
  <2>1. \A d \in Conns : Len(down'[d]) \in Nat
    BY <1>2 DEF TypeOK
  <2>2. \A d \in Conns : \A i \in 1..Len(down'[d]) :
          i + none[d] \in 1..Len(down[d]) /\ down'[d][i] = down[d][i + none[d]]
    BY <1>2 DEF TypeOK
  <2> QED
    BY <2>1, <2>2, FramesMoved
<1>3. CASE down[c] # <<>> /\ down' = [down EXCEPT ![c] = Tail(@)]
  <2> DEFINE first == [d \in Conns |-> IF d = c THEN 1 ELSE 0]
  <2>1. \A d \in Conns : Len(down'[d]) \in Nat
    BY <1>3 DEF TypeOK
  <2>2. ASSUME NEW d \in Conns, NEW i \in 1..Len(down'[d])
        PROVE  i + first[d] \in 1..Len(down[d]) /\ down'[d][i] = down[d][i + first[d]]
    BY <1>3 DEF TypeOK
  <2> QED
    BY <2>1, <2>2, FramesMoved
<1>4. ASSUME NEW msg \in {AuthOK, AuthErr}, ToAgent(c, msg) PROVE CommandInv'
  <2>1. CASE agtOpen[c]
    <3> DEFINE none == [d \in Conns |-> 0]
    <3>1. down' = [down EXCEPT ![c] = Append(@, msg)]
      BY <1>4, <2>1 DEF ToAgent
    <3>2. \A d \in Conns : Len(down'[d]) \in Nat
      BY <3>1 DEF TypeOK
    <3>3. \A m \in Cmds : msg # Cmd(m)
      BY CmdFacts
    <3>4. ASSUME NEW d \in Conns, NEW i \in 1..Len(down'[d])
          PROVE  \/ down'[d][i] = msg
                 \/ i \in 1..Len(down[d]) /\ down'[d][i] = down[d][i]
      <4>1. down[d] \in Seq(DownMsgs)
        BY DEF TypeOK
      <4>2. CASE d = c
        <5>1. down'[d] = Append(down[d], msg)
          BY <3>1, <4>2 DEF TypeOK
        <5> QED
          BY <4>1, <5>1
      <4>3. CASE d # c
        BY <3>1, <4>3 DEF TypeOK
      <4> QED
        BY <4>2, <4>3
    <3>5. \A d \in Conns : \A i \in 1..Len(down'[d]) :
            \/ \A m \in Cmds : down'[d][i] # Cmd(m)
            \/ i + none[d] \in 1..Len(down[d]) /\ down'[d][i] = down[d][i + none[d]]
      <4> SUFFICES ASSUME NEW d \in Conns, NEW i \in 1..Len(down'[d])
                   PROVE  \/ \A m \in Cmds : down'[d][i] # Cmd(m)
                          \/ i + none[d] \in 1..Len(down[d]) /\ down'[d][i] = down[d][i + none[d]]
        OBVIOUS
      <4>1. CASE down'[d][i] = msg
        BY <3>3, <4>1
      <4>2. CASE i \in 1..Len(down[d]) /\ down'[d][i] = down[d][i]
        <5>1. i + none[d] = i
          BY <4>2
        <5> QED
          BY <4>2, <5>1
      <4> QED
        BY <3>4, <4>1, <4>2
    <3>6. none \in [Conns -> Nat]
      OBVIOUS
    <3> HIDE DEF none
    <3> QED
      BY <3>2, <3>5, <3>6, FramesMoved
  <2>2. CASE ~agtOpen[c]
    BY <1>4, <2>2 DEF ToAgent, CommandInv
  <2> QED
    BY <2>1, <2>2
<1> QED
  BY <1>1, <1>2, <1>3, <1>4

\* Every result in flight is a status of a command.
LEMMA UpTyped ==
  ASSUME TypeOK
  PROVE  /\ \A c \in Conns : \A i \in 1..Len(up[c]) :
                up[c][i].id \in Cmds /\ up[c][i].status \in Results
         /\ \A c \in Conns : \A res \in taken[c] : res.id \in Cmds /\ res.status \in Results
<1>1. \A c \in Conns : \A i \in 1..Len(up[c]) : up[c][i] \in UpMsgs
  BY DEF TypeOK
<1>2. \A c \in Conns : \A res \in taken[c] : res \in UpMsgs
  BY DEF TypeOK
<1> QED
  BY <1>1, <1>2 DEF UpMsgs

\* Results keep their value, so what is on its way stays right.
LEMMA ResultFrame ==
  ASSUME TypeOK, ResultInv, UNCHANGED <<up, taken, chan>>,
         \A n \in Cmds : exec[n] \in Results => exec'[n] = exec[n],
         \A n \in Cmds : outcome'[n] \in Results => outcome'[n] = outcome[n]
  PROVE  ResultInv'
BY UpTyped DEF ResultInv, ReplyIsOwn

\* ReplyInv holds before anything is dialled or called.
LEMMA ReplyInvInit == Init => ReplyInv
BY DEF Init, ReplyInv, CommandInv, ResultInv, OutcomeInv, ReplyIsOwn, Results

\* ReplyInv is preserved by the steps of ServeHTTP, of which only TakeResult and
\* PushResult move results.
LEMMA ReplyInvHandler ==
  ASSUME TypeOK, ReplyInv, NEW c \in Conns, HandlerStep(c)
  PROVE  ReplyInv'
<1> USE DEF hubVars, callVars, agtVars, netVars
<1>1. CASE Dial(c) \/ Register(c) \/ PingFails(c) \/ HandlerExit(c)
  BY <1>1, ReplyFrame DEF Dial, Register, PingFails, HandlerExit
<1>2. CASE Reject(c) \/ SendAuthOK(c)
  <2>1. CommandInv'
    BY <1>2, CommandFrame DEF Reject, SendAuthOK, ReplyInv
  <2>2. ResultInv' /\ OutcomeInv'
    BY <1>2 DEF Reject, SendAuthOK, ReplyInv, ResultInv, OutcomeInv, ReplyIsOwn
  <2> QED
    BY <2>1, <2>2 DEF ReplyInv
<1>3. CASE TakeResult(c)
  <2>1. CommandInv' /\ OutcomeInv'
    BY <1>3 DEF TakeResult, ReplyInv, CommandInv, OutcomeInv
  <2>2. \A d \in Conns : \A i \in 1..Len(up'[d]) : exec[up'[d][i].id] = up'[d][i].status
    BY <1>3 DEF TakeResult, ReplyInv, ResultInv, TypeOK
  <2>3. exec[Head(up[c]).id] = Head(up[c]).status
    <3>1. Head(up[c]) = up[c][1] /\ 1 \in 1..Len(up[c])
      BY <1>3 DEF TakeResult, TypeOK
    <3> QED
      BY <3>1 DEF ReplyInv, ResultInv
  <2>4. \A d \in Conns : \A res \in taken'[d] : exec[res.id] = res.status
    <3> SUFFICES ASSUME NEW d \in Conns, NEW res \in taken'[d], res \notin taken[d]
                 PROVE  res = Head(up[c])
      BY <2>3 DEF ReplyInv, ResultInv
    <3> QED
      BY <1>3 DEF TakeResult, TypeOK
  <2>5. UNCHANGED <<chan, outcome, exec>>
    BY <1>3 DEF TakeResult
  <2>6. ResultInv'
    BY <2>2, <2>4, <2>5 DEF ReplyInv, ResultInv, ReplyIsOwn
  <2> QED
    BY <2>1, <2>6 DEF ReplyInv
<1>4. CASE PushResult(c)
  <2>1. CommandInv' /\ OutcomeInv'
    BY <1>4 DEF PushResult, ReplyInv, CommandInv, OutcomeInv
  <2>2. ResultInv'
    BY <1>4 DEF PushResult, ReplyInv, ResultInv, ReplyIsOwn, TypeOK
  <2> QED
    BY <2>1, <2>2 DEF ReplyInv
<1>5. CASE CloseConn(c)
  <2>1. CommandInv' /\ OutcomeInv'
    BY <1>5 DEF CloseConn, ReplyInv, CommandInv, OutcomeInv
  <2>2. ResultInv'
    BY <1>5 DEF CloseConn, ReplyInv, ResultInv, ReplyIsOwn, TypeOK
  <2> QED
    BY <2>1, <2>2 DEF ReplyInv
<1> QED
  BY <1>1, <1>2, <1>3, <1>4, <1>5 DEF HandlerStep

\* ReplyInv is preserved by the steps of SendCommand.
LEMMA ReplyInvCall ==
  ASSUME TypeOK, ReplyInv, NEW m \in Cmds, CallStep(m)
  PROVE  ReplyInv'
<1> USE HubAssumption DEF hubVars, callVars, agtVars, netVars
<1>1. CASE Lookup(m)
  <2>1. UNCHANGED <<down, up, taken, chan, exec>> /\ call[m] = "idle"
    BY <1>1 DEF Lookup
  <2>2. CASE conns[Target[m]] = None
    <3>1. /\ call' = [call EXCEPT ![m] = "returned"]
          /\ outcome' = [outcome EXCEPT ![m] = "FAILED"]
          /\ UNCHANGED ac
      BY <1>1, <2>2 DEF Lookup
    <3>2. CommandInv'
      BY <2>1, <3>1 DEF ReplyInv, CommandInv, TypeOK
    <3>3. OutcomeInv'
      BY <3>1 DEF ReplyInv, OutcomeInv, TypeOK
    <3>4. ResultInv'
      BY <2>1, <3>1, ResultFrame DEF ReplyInv, TypeOK, Results
    <3> QED
      BY <3>2, <3>3, <3>4 DEF ReplyInv
  <2>3. CASE conns[Target[m]] # None
    <3>1. /\ call' = [call EXCEPT ![m] = "found"]
          /\ ac' = [ac EXCEPT ![m] = conns[Target[m]]]
          /\ UNCHANGED outcome
      BY <1>1, <2>3 DEF Lookup
    <3>2. CommandInv'
      BY <2>1, <2>3, <3>1 DEF ReplyInv, CommandInv, TypeOK
    <3>3. OutcomeInv'
      BY <2>1, <3>1 DEF ReplyInv, OutcomeInv, TypeOK
    <3>4. ResultInv'
      BY <2>1, <3>1, ResultFrame DEF ReplyInv
    <3> QED
      BY <3>2, <3>3, <3>4 DEF ReplyInv
  <2> QED
    BY <2>2, <2>3
<1>2. CASE AddPending(m)
  BY <1>2 DEF AddPending, ReplyInv, CommandInv, ResultInv, OutcomeInv, ReplyIsOwn, TypeOK
<1>3. CASE SendOK(m)
  <2>1. ResultInv' /\ OutcomeInv'
    BY <1>3 DEF SendOK, ReplyInv, ResultInv, OutcomeInv, ReplyIsOwn, TypeOK
  <2>2. CommandInv'
    <3>1. CASE agtOpen[ac[m]]
      <4>1. /\ down' = [down EXCEPT ![ac[m]] = Append(@, Cmd(m))]
            /\ call' = [call EXCEPT ![m] = "waiting"]
            /\ UNCHANGED <<ac, exec>>
            /\ ac[m] \in Conns /\ ac[m] # None /\ exec[m] = "no"
        <5>1. call[m] = "added" /\ ToAgent(ac[m], Cmd(m))
              /\ call' = [call EXCEPT ![m] = "waiting"] /\ UNCHANGED <<ac, exec>>
          BY <1>3 DEF SendOK
        <5>2. ac[m] \in Conns /\ ac[m] # None
          BY <5>1, HubAssumption DEF TypeOK
        <5>3. exec[m] = "no"
          BY <5>1 DEF ReplyInv, CommandInv
        <5> QED
          BY <3>1, <5>1, <5>2, <5>3 DEF ToAgent
      <4>2. \A c \in Conns : \A i \in 1..Len(down[c]) : down[c][i] # Cmd(m)
        BY <1>3 DEF SendOK, ReplyInv, CommandInv
      <4>3. \A c \in Conns : \A i \in 1..Len(down'[c]) :
              \/ i \in 1..Len(down[c]) /\ down'[c][i] = down[c][i]
              \/ c = ac[m] /\ i = Len(down[c]) + 1 /\ down'[c][i] = Cmd(m)
        BY <4>1 DEF TypeOK
      <4>4. \A n \in Cmds : n # m => Cmd(n) # Cmd(m)
        BY CmdFacts
      <4>5. \A n \in Cmds : call'[n] = IF n = m THEN "waiting" ELSE call[n]
        BY <4>1 DEF TypeOK
      <4>6. \A c \in Conns, n \in Cmds : \A i \in 1..Len(down'[c]) :
              down'[c][i] = Cmd(n) =>
                exec'[n] = "no" /\ call'[n] \in {"waiting", "returning", "returned"} /\ ac'[n] # None
        BY <4>1, <4>3, <4>4, <4>5 DEF ReplyInv, CommandInv
      <4>7. \A c, d \in Conns, n \in Cmds : \A i \in 1..Len(down'[c]), j \in 1..Len(down'[d]) :
              down'[c][i] = Cmd(n) /\ down'[d][j] = Cmd(n) => c = d /\ i = j
        <5> SUFFICES ASSUME NEW c \in Conns, NEW d \in Conns, NEW n \in Cmds,
                            NEW i \in 1..Len(down'[c]), NEW j \in 1..Len(down'[d]),
                            down'[c][i] = Cmd(n), down'[d][j] = Cmd(n)
                     PROVE  c = d /\ i = j
          OBVIOUS
        <5>1. CASE n = m
          <6>1. c = ac[m] /\ i = Len(down[c]) + 1
            BY <4>2, <4>3, <5>1
          <6>2. d = ac[m] /\ j = Len(down[d]) + 1
            BY <4>2, <4>3, <5>1
          <6> QED
            BY <6>1, <6>2
        <5>2. CASE n # m
          <6>1. i \in 1..Len(down[c]) /\ down[c][i] = Cmd(n)
            BY <4>3, <4>4, <5>2
          <6>2. j \in 1..Len(down[d]) /\ down[d][j] = Cmd(n)
            BY <4>3, <4>4, <5>2
          <6> QED
            BY <6>1, <6>2 DEF ReplyInv, CommandInv
        <5> QED
          BY <5>1, <5>2
      <4>8. \A n \in Cmds :
              /\ exec'[n] # "no" => ac'[n] # None
              /\ call'[n] \in {"idle", "found", "added"} => exec'[n] = "no"
              /\ call'[n] = "idle" => ac'[n] = None
        BY <4>1, <4>5 DEF ReplyInv, CommandInv
      <4> QED
        BY <4>6, <4>7, <4>8 DEF CommandInv
    <3>2. CASE ~agtOpen[ac[m]]
      BY <1>3, <3>2 DEF SendOK, ToAgent, ReplyInv, CommandInv, TypeOK
    <3> QED
      BY <3>1, <3>2
  <2> QED
    BY <2>1, <2>2 DEF ReplyInv
<1>4. CASE SendFails(m)
  BY <1>4 DEF SendFails, ReplyInv, CommandInv, ResultInv, OutcomeInv, ReplyIsOwn, TypeOK, Results
<1>5. CASE Timeout(m)
  BY <1>5 DEF Timeout, ReplyInv, CommandInv, ResultInv, OutcomeInv, ReplyIsOwn, TypeOK, Results
<1>6. CASE Receive(m)
  <2>1. CommandInv' /\ OutcomeInv'
    <3>1. chan[m] \in Results /\ chan[m] # "none"
      BY <1>6 DEF Receive, TypeOK, Results
    <3>2. CommandInv'
      BY <1>6 DEF Receive, ReplyInv, CommandInv, TypeOK
    <3>3. OutcomeInv'
      BY <1>6, <3>1 DEF Receive, ReplyInv, OutcomeInv, TypeOK
    <3> QED
      BY <3>2, <3>3
  <2>2. ResultInv'
    BY <1>6 DEF Receive, ReplyInv, ResultInv, ReplyIsOwn, TypeOK, Results
  <2> QED
    BY <2>1, <2>2 DEF ReplyInv
<1>7. CASE Return(m)
  BY <1>7 DEF Return, ReplyInv, CommandInv, ResultInv, OutcomeInv, ReplyIsOwn, TypeOK
<1> QED
  BY <1>1, <1>2, <1>3, <1>4, <1>5, <1>6, <1>7 DEF CallStep

\* ReplyInv is preserved by the agent's session, which starts a command only once.
LEMMA ReplyInvAgent ==
  ASSUME TypeOK, ReplyInv, NEW c \in Conns, AgentStep(c)
  PROVE  ReplyInv'
<1> USE DEF hubVars, callVars, agtVars, netVars
<1>1. CASE ReadFirst(c) \/ EndSession(c)
  <2>1. CommandInv'
    BY <1>1, CommandFrame DEF ReadFirst, EndSession, Ended, ReplyInv
  <2>2. ResultInv' /\ OutcomeInv'
    BY <1>1 DEF ReadFirst, EndSession, ReplyInv, ResultInv, OutcomeInv, ReplyIsOwn
  <2> QED
    BY <2>1, <2>2 DEF ReplyInv
<1>2. CASE StartCommand(c)
  <2>1. down[c] # <<>> /\ down' = [down EXCEPT ![c] = Tail(@)]
    BY <1>2 DEF StartCommand
  <2>2. CASE Head(down[c]).op # "cmd"
    <3>1. UNCHANGED <<up, taken, call, ac, chan, outcome, exec>>
      BY <1>2, <2>2 DEF StartCommand
    <3>2. CommandInv'
      BY <2>1, <3>1, CommandFrame DEF ReplyInv
    <3>3. ResultInv' /\ OutcomeInv'
      BY <3>1 DEF ReplyInv, ResultInv, OutcomeInv, ReplyIsOwn
    <3> QED
      BY <3>2, <3>3 DEF ReplyInv
  <2>3. CASE Head(down[c]).op = "cmd"
    <3> DEFINE m == Head(down[c]).id
    <3>1. m \in Cmds /\ down[c][1] = Cmd(m) /\ 1 \in 1..Len(down[c])
      BY <2>1, <2>3, CmdFacts DEF TypeOK
    <3>2. /\ exec' = [exec EXCEPT ![m] = "running"]
          /\ UNCHANGED <<up, taken, call, ac, chan, outcome>>
      BY <1>2, <2>3 DEF StartCommand
    <3>3. exec[m] = "no" /\ ac[m] # None /\ call[m] \in {"waiting", "returning", "returned"}
      BY <3>1 DEF ReplyInv, CommandInv
    <3> HIDE DEF m
    <3>4. CommandInv'
      <4> DEFINE first(d) == IF d = c THEN 1 ELSE 0
      <4>1. ASSUME NEW d \in Conns, NEW i \in 1..Len(down'[d])
            PROVE  i + first(d) \in 1..Len(down[d]) /\ down'[d][i] = down[d][i + first(d)]
        BY <2>1 DEF TypeOK
      <4>2. ASSUME NEW d \in Conns, NEW i \in 1..Len(down'[d])
            PROVE  down'[d][i] # Cmd(m)
        <5>1. CASE d = c
          BY <3>1, <4>1, <5>1 DEF ReplyInv, CommandInv
        <5>2. CASE d # c
          BY <3>1, <4>1, <5>2 DEF ReplyInv, CommandInv
        <5> QED
          BY <5>1, <5>2
      <4>3. \A n \in Cmds : exec'[n] = IF n = m THEN "running" ELSE exec[n]
        BY <3>2 DEF TypeOK
      <4>4. \A d \in Conns, n \in Cmds : \A i \in 1..Len(down'[d]) :
              down'[d][i] = Cmd(n) =>
                exec'[n] = "no" /\ call'[n] \in {"waiting", "returning", "returned"} /\ ac'[n] # None
        <5> SUFFICES ASSUME NEW d \in Conns, NEW n \in Cmds, NEW i \in 1..Len(down'[d]),
                            down'[d][i] = Cmd(n)
                     PROVE  exec'[n] = "no" /\ call'[n] \in {"waiting", "returning", "returned"}
                            /\ ac'[n] # None
          OBVIOUS
        <5>1. n # m
          BY <4>2
        <5>2. exec[n] = "no" /\ call[n] \in {"waiting", "returning", "returned"} /\ ac[n] # None
          BY <4>1 DEF ReplyInv, CommandInv
        <5> QED
          BY <3>2, <4>3, <5>1, <5>2
      <4>5. ASSUME NEW d \in Conns, NEW e \in Conns, NEW n \in Cmds,
                   NEW i \in 1..Len(down'[d]), NEW j \in 1..Len(down'[e]),
                   down'[d][i] = Cmd(n), down'[e][j] = Cmd(n)
            PROVE  d = e /\ i = j
        <5>1. i + first(d) \in 1..Len(down[d]) /\ down[d][i + first(d)] = Cmd(n)
          BY <4>1, <4>5
        <5>2. j + first(e) \in 1..Len(down[e]) /\ down[e][j + first(e)] = Cmd(n)
          BY <4>1, <4>5
        <5> DEFINE k == i + first(d)
                   l == j + first(e)
        <5>3. /\ k \in 1..Len(down[d]) /\ down[d][k] = Cmd(n)
              /\ l \in 1..Len(down[e]) /\ down[e][l] = Cmd(n)
          BY <5>1, <5>2
        <5> HIDE DEF k, l
        <5>4. d = e /\ k = l
          BY <5>3 DEF ReplyInv, CommandInv
        <5> QED
          BY <5>4 DEF k, l
      <4>6. \A n \in Cmds :
              /\ exec'[n] # "no" => ac'[n] # None
              /\ call'[n] \in {"idle", "found", "added"} => exec'[n] = "no"
              /\ call'[n] = "idle" => ac'[n] = None
        BY <3>2, <3>3, <4>3 DEF ReplyInv, CommandInv
      <4> QED
        BY <4>4, <4>5, <4>6 DEF CommandInv
    <3>5. ResultInv' /\ OutcomeInv'
      <4>1. \A n \in Cmds : exec[n] \in Results => exec'[n] = exec[n]
        BY <3>1, <3>2, <3>3 DEF TypeOK, Results
      <4>2. ResultInv'
        BY <3>2, <4>1, ResultFrame DEF ReplyInv
      <4> QED
        BY <3>2, <4>2 DEF ReplyInv, OutcomeInv
    <3> QED
      BY <3>4, <3>5 DEF ReplyInv
  <2> QED
    BY <2>2, <2>3
<1> QED
  BY <1>1, <1>2 DEF AgentStep

\* ReplyInv is preserved when ExecuteCommand returns and its result is written.
LEMMA ReplyInvFinish ==
  ASSUME TypeOK, ReplyInv, NEW m \in Cmds, FinishCommand(m)
  PROVE  ReplyInv'
<1> USE DEF hubVars, callVars, agtVars, netVars
<1>1. PICK r \in Results : exec' = [exec EXCEPT ![m] = r] /\ ToMaster(sess[m], Result(m, r))
  BY DEF FinishCommand
<1>2. exec[m] = "running" /\ UNCHANGED <<down, taken, call, ac, chan, outcome>>
  BY DEF FinishCommand
<1>3. CommandInv' /\ OutcomeInv'
  BY <1>1, <1>2 DEF ReplyInv, CommandInv, OutcomeInv, TypeOK, Results
<1>4. ResultInv'
  <2>1. \A n \in Cmds : exec[n] \in Results => n # m /\ exec'[n] = exec[n]
    BY <1>1, <1>2 DEF TypeOK, Results
  <2>2. \A c \in Conns : \A i \in 1..Len(up'[c]) : exec'[up'[c][i].id] = up'[c][i].status
    <3>1. CASE Broken(sess[m])
      <4>1. UNCHANGED up
        BY <1>1, <3>1 DEF ToMaster
      <4> QED
        BY <2>1, <4>1, UpTyped DEF ReplyInv, ResultInv
    <3>2. CASE ~Broken(sess[m])
      <4>1. up' = [up EXCEPT ![sess[m]] = Append(@, Result(m, r))]
        BY <1>1, <3>2 DEF ToMaster
      <4>2. \A c \in Conns : \A i \in 1..Len(up'[c]) :
              \/ i \in 1..Len(up[c]) /\ up'[c][i] = up[c][i]
              \/ up'[c][i] = Result(m, r)
        BY <4>1 DEF TypeOK
      <4>3. exec'[m] = r /\ Result(m, r).id = m /\ Result(m, r).status = r
        BY <1>1 DEF TypeOK, Result
      <4> QED
        BY <2>1, <4>2, <4>3, UpTyped DEF ReplyInv, ResultInv
    <3> QED
      BY <3>1, <3>2
  <2>3. \A c \in Conns : \A res \in taken'[c] : exec'[res.id] = res.status
    BY <1>2, <2>1 DEF ReplyInv, ResultInv, TypeOK, UpMsgs
  <2> QED
    BY <1>2, <2>1, <2>2, <2>3 DEF ReplyInv, ResultInv, ReplyIsOwn
<1> QED
  BY <1>3, <1>4 DEF ReplyInv

\* ReplyInv is preserved when an agent dies with what it runs.
LEMMA ReplyInvCrash ==
  ASSUME TypeOK, ReplyInv, NEW k \in Keys, AgentCrash(k)
  PROVE  ReplyInv'
<1> USE DEF hubVars, callVars, agtVars, netVars
<1>1. \A c \in Conns : down'[c] = down[c] \/ down'[c] = <<>>
  BY DEF AgentCrash
<1>2. UNCHANGED <<up, taken, call, ac, chan, outcome>>
  BY DEF AgentCrash
<1>3. \A n \in Cmds : exec'[n] = exec[n] \/ (exec[n] = "running" /\ exec'[n] = "killed")
  BY DEF AgentCrash
<1>4. CommandInv' /\ OutcomeInv'
  BY <1>1, <1>2, <1>3 DEF ReplyInv, CommandInv, OutcomeInv, TypeOK
<1>5. ResultInv'
  <2>1. \A n \in Cmds : exec[n] \in Results => exec'[n] = exec[n]
    BY <1>3 DEF Results
  <2> QED
    BY <1>2, <2>1, ResultFrame DEF ReplyInv
<1> QED
  BY <1>4, <1>5 DEF ReplyInv

\* ReplyInv is an invariant, with TypeOK for the types of what is in flight.
LEMMA ReplyInvariant == Spec => []ReplyInv
<1>1. TypeOK /\ ReplyInv /\ [Next]_vars => ReplyInv'
  <2> SUFFICES ASSUME TypeOK, ReplyInv, [Next]_vars PROVE ReplyInv'
    OBVIOUS
  <2>1. CASE UNCHANGED vars
    BY <2>1, ReplyFrame DEF vars, hubVars, callVars, agtVars, netVars
  <2> QED
    BY <2>1, ReplyInvHandler, ReplyInvCall, ReplyInvAgent, ReplyInvFinish, ReplyInvCrash
    DEF Next
<1> QED
  BY <1>1, ReplyInvInit, TypeCorrect, PTL DEF Spec

\* A caller that gets a result gets its own command's.
THEOREM ReplySound == Spec => []ReplyIsOwn
BY ReplyInvariant, PTL DEF ReplyInv, ResultInv

-----------------------------------------------------------------------------
(* The hub and its agents implement the promise of module Command.         *)

\* Every step of Hub is a step of Command under the refinement mapping, or a
\* stutter of it.
LEMMA CommandStep ==
  ASSUME TypeOK, ReplyInv, [Next]_vars
  PROVE  [Promise!Next]_(Promise!cvars)
<1> USE DEF Promise!cvars
<1>1. ASSUME UNCHANGED <<exec, call, ac, outcome>> PROVE UNCHANGED <<ranBar, replyBar>>
  BY <1>1 DEF ranBar, replyBar
<1>2. ASSUME NEW c \in Conns, HandlerStep(c) PROVE UNCHANGED <<ranBar, replyBar>>
  BY <1>1, <1>2
  DEF HandlerStep, Dial, Reject, Register, SendAuthOK, PingFails, TakeResult, PushResult,
      HandlerExit, CloseConn, callVars, agtVars
<1>3. ASSUME NEW c \in Conns, AgentStep(c) PROVE UNCHANGED <<ranBar, replyBar>>
  <2>1. CASE ReadFirst(c) \/ EndSession(c)
    BY <1>1, <2>1 DEF ReadFirst, EndSession, callVars
  <2>2. CASE StartCommand(c)
    <3>1. UNCHANGED <<call, ac, outcome>>
      BY <2>2 DEF StartCommand, callVars
    <3>2. \A n \in Cmds : exec'[n] = exec[n] \/ (exec[n] = "no" /\ exec'[n] = "running")
      <4>1. CASE Head(down[c]).op # "cmd"
        BY <2>2, <4>1 DEF StartCommand
      <4>2. CASE Head(down[c]).op = "cmd"
        <5> DEFINE m == Head(down[c]).id
        <5>1. m \in Cmds /\ down[c][1] = Cmd(m) /\ 1 \in 1..Len(down[c])
          BY <2>2, <4>2, CmdFacts DEF TypeOK, StartCommand
        <5>2. exec[m] = "no"
          BY <5>1 DEF ReplyInv, CommandInv
        <5>3. exec' = [exec EXCEPT ![m] = "running"]
          BY <2>2, <4>2 DEF StartCommand
        <5> QED
          BY <5>1, <5>2, <5>3 DEF TypeOK
      <4> QED
        BY <4>1, <4>2
    <3> QED
      BY <3>1, <3>2 DEF ranBar, replyBar, Results
  <2> QED
    BY <1>3, <2>1, <2>2 DEF AgentStep
<1>4. ASSUME NEW k \in Keys, AgentCrash(k) PROVE UNCHANGED <<ranBar, replyBar>>
  BY <1>4 DEF AgentCrash, callVars, ranBar, replyBar, Results
<1>5. ASSUME NEW m \in Cmds, Lookup(m) PROVE Promise!Refuse(m) \/ Promise!Issue(m)
  <2>1. call[m] = "idle" /\ ac[m] = None /\ UNCHANGED exec
    BY <1>5 DEF Lookup, agtVars, ReplyInv, CommandInv
  <2>2. CASE conns[Target[m]] = None
    <3>1. call' = [call EXCEPT ![m] = "returned"] /\ UNCHANGED ac
          /\ outcome' = [outcome EXCEPT ![m] = "FAILED"]
      BY <1>5, <2>2 DEF Lookup
    <3>2. UNCHANGED ranBar /\ replyBar[m] = "idle"
      BY <2>1 DEF ranBar, replyBar
    <3>3. ac'[m] = None /\ ac' = ac
      BY <2>1, <3>1
    <3>4. call'[m] = "returned" /\ \A n \in Cmds : n # m =>
                                     call'[n] = call[n] /\ outcome'[n] = outcome[n]
      BY <3>1 DEF TypeOK
    <3>5. \A n \in Cmds : replyBar'[n] = IF n = m THEN "refused" ELSE replyBar[n]
      BY <3>3, <3>4 DEF replyBar
    <3>6. replyBar' = [replyBar EXCEPT ![m] = "refused"]
      BY <3>5 DEF replyBar
    <3> QED
      BY <3>2, <3>6 DEF Promise!Refuse
  <2>3. CASE conns[Target[m]] # None
    <3>1. call' = [call EXCEPT ![m] = "found"] /\ UNCHANGED outcome
          /\ ac' = [ac EXCEPT ![m] = conns[Target[m]]]
      BY <1>5, <2>3 DEF Lookup
    <3>2. UNCHANGED ranBar
      BY <2>1 DEF ranBar
    <3>3. replyBar[m] = "idle"
      BY <2>1 DEF replyBar
    <3>4. replyBar' = [replyBar EXCEPT ![m] = "open"]
      <4>1. \A n \in Cmds : replyBar'[n] = IF n = m THEN "open" ELSE replyBar[n]
        BY <3>1 DEF replyBar, TypeOK
      <4> QED
        BY <4>1 DEF replyBar
    <3> QED
      BY <3>2, <3>3, <3>4 DEF Promise!Issue
  <2> QED
    BY <2>2, <2>3
<1>6. ASSUME NEW m \in Cmds, AddPending(m) \/ SendOK(m) \/ SendFails(m) \/ Timeout(m) \/ Receive(m)
      PROVE  UNCHANGED <<ranBar, replyBar>>
  <2>1. /\ UNCHANGED <<exec, ac>>
        /\ call[m] \in {"found", "added", "waiting"} /\ call'[m] \in {"added", "waiting", "returning"}
        /\ \A n \in Cmds : n # m => call'[n] = call[n] /\ outcome'[n] = outcome[n]
    BY <1>6 DEF AddPending, SendOK, SendFails, Timeout, Receive, agtVars, TypeOK
  <2> QED
    BY <2>1 DEF ranBar, replyBar
<1>7. ASSUME NEW m \in Cmds, Return(m) PROVE Promise!Answer(m)
  <2>1. /\ call[m] = "returning" /\ call' = [call EXCEPT ![m] = "returned"]
        /\ UNCHANGED <<ac, outcome, exec>> /\ ac[m] # None
    BY <1>7, HubAssumption DEF Return, agtVars, TypeOK
  <2>2. outcome[m] = "FAILED" \/ (outcome[m] \in Results /\ exec[m] = outcome[m])
    BY <2>1 DEF ReplyInv, OutcomeInv, ResultInv, ReplyIsOwn, TypeOK
  <2>3. outcome[m] \in {"FAILED"} \cup ({ranBar[m]} \ {"no"})
    BY <2>2 DEF ranBar, Results
  <2>4. replyBar[m] = "open" /\ replyBar' = [replyBar EXCEPT ![m] = outcome[m]] /\ UNCHANGED ranBar
    <3>1. replyBar[m] = "open" /\ UNCHANGED ranBar
      BY <2>1 DEF ranBar, replyBar
    <3>2. \A n \in Cmds : call'[n] = IF n = m THEN "returned" ELSE call[n]
      BY <2>1 DEF TypeOK
    <3>3. \A n \in Cmds : replyBar'[n] = IF n = m THEN outcome[m] ELSE replyBar[n]
      BY <2>1, <3>2 DEF replyBar
    <3> QED
      BY <3>1, <3>3 DEF replyBar
  <2> QED
    BY <2>3, <2>4 DEF Promise!Answer
<1>8. ASSUME NEW m \in Cmds, FinishCommand(m) PROVE Promise!Execute(m)
  <2>1. PICK r \in Results : exec' = [exec EXCEPT ![m] = r]
    BY <1>8 DEF FinishCommand
  <2>2. exec[m] = "running" /\ UNCHANGED <<call, ac, outcome>>
    BY <1>8 DEF FinishCommand, callVars
  <2>3. ac[m] # None /\ call[m] \in {"waiting", "returning", "returned"} /\ outcome[m] \notin Results
    BY <2>2 DEF ReplyInv, CommandInv, ResultInv, ReplyIsOwn, TypeOK, Results
  <2>4. replyBar[m] \in {"open", "FAILED"}
    BY <2>3 DEF replyBar, ReplyInv, OutcomeInv, TypeOK
  <2>5. ranBar[m] = "no" /\ ranBar' = [ranBar EXCEPT ![m] = r] /\ UNCHANGED replyBar
    <3>1. ranBar[m] = "no"
      BY <2>2 DEF ranBar, Results
    <3>2. \A n \in Cmds : ranBar'[n] = IF n = m THEN r ELSE ranBar[n]
      BY <2>1 DEF ranBar, TypeOK
    <3>3. ranBar' = [ranBar EXCEPT ![m] = r]
      BY <3>2 DEF ranBar
    <3>4. UNCHANGED replyBar
      BY <2>2 DEF replyBar
    <3> QED
      BY <3>1, <3>3, <3>4
  <2> QED
    BY <2>4, <2>5 DEF Promise!Execute, Promise!Results, Results
<1>9. CASE UNCHANGED vars
  BY <1>1, <1>9 DEF vars, callVars, agtVars
<1> QED
  BY <1>2, <1>3, <1>4, <1>5, <1>6, <1>7, <1>8, <1>9 DEF Next, CallStep, Promise!Next

\* At most one execution, and a reply that is FAILED or the execution's result,
\* for any number of nodes, connections and calls.
THEOREM ImplementsCommandSafely == Spec => Promise!SafetySpec
<1>1. Init => Promise!Init
  BY DEF Init, Promise!Init, ranBar, replyBar, Results
<1> QED
  BY <1>1, CommandStep, TypeCorrect, ReplyInvariant, PTL
  DEF Spec, Promise!SafetySpec
=============================================================================
