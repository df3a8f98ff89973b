----------------------------- MODULE NodesProofs -----------------------------
(***************************************************************************)
(* Type correctness of Nodes and the agreement of row and file, for any    *)
(* number of connections, changes, requests, names and crashes.  TypeOK is *)
(* inductive once it is known that a change of the row is never a          *)
(* deletion.  The agreement needs Agreeing: what an auth and a change      *)
(* under way know while nothing overlaps with them.                        *)
(***************************************************************************)
EXTENDS Nodes, TLAPS

\* What waits to be stored in the row is a setting.
StoresSetting == \A p \in Changes : change[p] = "store" => order[p].kind \in Fields

\* The components of an order, by its kind.
LEMMA OrderFacts ==
  ASSUME NEW o \in Orders
  PROVE  /\ o.kind \in {"google", "alias", "uninstall"}
         /\ o.kind = "google" => o.value \in BOOLEAN
         /\ o.kind = "alias" => o.value \in Aliases
BY DEF Orders

\* Writing a value of its kind into a setting leaves a setting.
LEMMA SettingWritten ==
  ASSUME NEW s \in Settings, NEW o \in Orders, o.kind \in Fields
  PROVE  [s EXCEPT ![o.kind] = o.value] \in Settings
<1>1. CASE o.kind = "google"
  BY <1>1, OrderFacts DEF Settings
<1>2. CASE o.kind = "alias"
  BY <1>2, OrderFacts DEF Settings
<1> QED
  BY <1>1, <1>2 DEF Fields

\* UpsertNode leaves a setting whatever the row was.
LEMMA UpsertedTyped ==
  ASSUME row \in Settings \cup {NoRow}, NEW alias \in Aliases
  PROVE  Upserted(alias) \in Settings
BY DEF Upserted, Settings

\* WroteOver is a set of settings.
LEMMA WroteOverTyped ==
  ASSUME mixed \in SUBSET Fields, NEW c, NEW f \in Fields
  PROVE  WroteOver(c, f) \in SUBSET Fields
BY DEF WroteOver

\* Connecting and reading the first frame keep the types.
LEMMA SessionTyped ==
  ASSUME TypeOK, StoresSetting, NEW c \in Conns, Connect(c) \/ ReadFirst(c)
  PROVE  TypeOK' /\ StoresSetting'
<1> USE DEF masterVars
<1>1. CASE Connect(c)
  BY <1>1 DEF Connect, TypeOK, StoresSetting
<1>2. CASE ReadFirst(c)
  BY <1>2 DEF ReadFirst, CutSession, TypeOK, StoresSetting
<1> QED
  BY <1>1, <1>2

\* The ends of a session, of the agent's process and of its package keep the types.
LEMMA EndTyped ==
  ASSUME TypeOK, StoresSetting, EndSession \/ AgentRestart \/ Uninstalled
  PROVE  TypeOK' /\ StoresSetting'
<1> USE DEF masterVars
<1>1. CASE EndSession
  BY <1>1 DEF EndSession, CutSession, TypeOK, StoresSetting
<1>2. CASE AgentRestart
  BY <1>2 DEF AgentRestart, TypeOK, StoresSetting
<1>3. CASE Uninstalled
  BY <1>3 DEF Uninstalled, TypeOK, StoresSetting
<1> QED
  BY <1>1, <1>2, <1>3

\* A command's delivery and execution keep the types.
LEMMA CommandTyped ==
  ASSUME TypeOK, StoresSetting, NEW p \in Changes, Deliver(p) \/ Execute(p)
  PROVE  TypeOK' /\ StoresSetting'
<1> USE DEF masterVars
<1>1. CASE Deliver(p)
  BY <1>1 DEF Deliver, TypeOK, StoresSetting
<1>2. CASE Execute(p)
  <2>1. file' \in Settings /\ alive' \in {"yes", "doomed", "no"}
    <3>1. CASE order[p].kind = "uninstall"
      BY <1>2, <3>1 DEF Execute, TypeOK
    <3>2. CASE order[p].kind # "uninstall"
      <4>1. order[p] \in Orders /\ order[p].kind \in Fields
        BY <3>2, OrderFacts DEF TypeOK, Fields
      <4>2. file' = [file EXCEPT ![order[p].kind] = order[p].value] /\ UNCHANGED alive
        BY <1>2, <3>2 DEF Execute
      <4> QED
        BY <4>1, <4>2, SettingWritten DEF TypeOK
    <3> QED
      BY <3>1, <3>2
  <2>2. cmd' \in [Changes -> {"none", "early", "wire", "running", "over"}]
    BY <1>2 DEF Execute, TypeOK
  <2>3. UNCHANGED <<masterVars, sess, phase, loaded, dirty, mixed>>
    BY <1>2 DEF Execute
  <2> QED
    BY <2>1, <2>2, <2>3 DEF TypeOK, StoresSetting
<1> QED
  BY <1>1, <1>2

\* The steps of a connection's handler keep the types.
LEMMA HandlerTyped ==
  ASSUME TypeOK, StoresSetting, NEW c \in Conns, HandlerStep(c)
  PROVE  TypeOK' /\ StoresSetting'
<1> USE DEF agentVars
<1>1. CASE AuthLost(c)
  BY <1>1 DEF AuthLost, TypeOK, StoresSetting
<1>2. CASE Publish(c)
  BY <1>2 DEF Publish, CutSession, TypeOK, StoresSetting
<1>3. CASE UpsertNode(c)
  <2>1. row' \in Settings
    BY <1>3, UpsertedTyped DEF UpsertNode, TypeOK, Settings
  <2>2. mixed' \in SUBSET Fields
    BY <1>3, WroteOverTyped DEF UpsertNode, TypeOK, Fields
  <2> QED
    BY <1>3, <2>1, <2>2 DEF UpsertNode, TypeOK, StoresSetting
<1>4. CASE StoreSwitches(c)
  <2>1. row' \in Settings \cup {NoRow}
    BY <1>4 DEF StoreSwitches, TypeOK, Settings
  <2>2. mixed' \in SUBSET Fields
    BY <1>4, WroteOverTyped DEF StoreSwitches, TypeOK, Fields
  <2> QED
    BY <1>4, <2>1, <2>2 DEF StoreSwitches, TypeOK, StoresSetting
<1>5. CASE HandlerEnd(c)
  BY <1>5 DEF HandlerEnd, TypeOK, StoresSetting
<1> QED
  BY <1>1, <1>2, <1>3, <1>4, <1>5 DEF HandlerStep

\* The owner's changes keep the types.
LEMMA ChangeTyped ==
  ASSUME TypeOK, StoresSetting, NEW p \in Changes, Press(p) \/ Flip(p) \/ ChangeStep(p)
  PROVE  TypeOK' /\ StoresSetting'
<1> USE DEF agentVars
<1>1. CASE Press(p) \/ Flip(p)
  <2>1. PICK o \in Orders : Begin(p, o)
    BY <1>1 DEF Press, Flip, Orders
  <2>2. order' \in [Changes -> Orders] /\ change' \in
          [Changes -> {"idle", "store", "lookup", "send", "wait", "erase", "done"}]
    BY <2>1 DEF Begin, TypeOK
  <2>3. mixed' \in SUBSET Fields /\ dirty' \in [Conns -> SUBSET Fields]
    BY <2>1 DEF Begin, TypeOK
  <2>4. StoresSetting'
    <3> SUFFICES ASSUME NEW q \in Changes, change'[q] = "store"
                 PROVE  order'[q].kind \in Fields
      BY DEF StoresSetting
    <3>1. CASE q = p
      BY <2>1, <3>1, OrderFacts DEF Begin, TypeOK, Fields
    <3>2. CASE q # p
      BY <2>1, <3>2 DEF Begin, TypeOK, StoresSetting
    <3> QED
      BY <3>1, <3>2
  <2> QED
    BY <2>1, <2>2, <2>3, <2>4 DEF Begin, TypeOK
<1>2. CASE StoreChange(p)
  <2>1. row' \in Settings \cup {NoRow}
    <3>1. CASE row = NoRow
      BY <1>2, <3>1 DEF StoreChange
    <3>2. CASE row # NoRow
      <4>1. order[p] \in Orders /\ order[p].kind \in Fields /\ row \in Settings
        BY <1>2, <3>2 DEF StoreChange, StoresSetting, TypeOK
      <4>2. row' = [row EXCEPT ![order[p].kind] = order[p].value]
        BY <1>2, <3>2 DEF StoreChange
      <4> QED
        BY <4>1, <4>2, SettingWritten
    <3> QED
      BY <3>1, <3>2
  <2>2. UNCHANGED <<current, handler, req, order, via, crashes, agentVars, dirty, mixed>>
        /\ change' = [change EXCEPT ![p] = "lookup"]
    BY <1>2 DEF StoreChange
  <2> QED
    BY <2>1, <2>2 DEF TypeOK, StoresSetting
<1>3. CASE Lookup(p)
  BY <1>3 DEF Lookup, AfterCommand, TypeOK, StoresSetting
<1>4. CASE Send(p)
  BY <1>4 DEF Send, AfterCommand, TypeOK, StoresSetting
<1>5. CASE Return(p)
  BY <1>5 DEF Return, AfterCommand, TypeOK, StoresSetting
<1>6. CASE EraseRow(p)
  BY <1>6 DEF EraseRow, TypeOK, StoresSetting
<1> QED
  BY <1>1, <1>2, <1>3, <1>4, <1>5, <1>6 DEF ChangeStep

\* Registrations and a crash of the Master keep the types.
LEMMA MasterTyped ==
  ASSUME TypeOK, StoresSetting, NEW r \in Requests,
         \/ PromptRegister(r) \/ DropRequest(r) \/ ConfirmRegister(r) \/ StoreRegistration(r)
  PROVE  TypeOK' /\ StoresSetting'
<1> USE DEF agentVars
<1>1. CASE PromptRegister(r)
  BY <1>1 DEF PromptRegister, TypeOK, StoresSetting
<1>2. CASE DropRequest(r) \/ ConfirmRegister(r)
  BY <1>2 DEF DropRequest, ConfirmRegister, TypeOK, StoresSetting
<1>3. CASE StoreRegistration(r)
  <2>1. row' \in Settings
    BY <1>3, UpsertedTyped DEF StoreRegistration, TypeOK
  <2>2. mixed' \in SUBSET Fields
    BY <1>3 DEF StoreRegistration, TypeOK, Fields
  <2> QED
    BY <1>3, <2>1, <2>2 DEF StoreRegistration, TypeOK, StoresSetting
<1> QED
  BY <1>1, <1>2, <1>3

\* A crash of the Master keeps the types.
LEMMA CrashTyped ==
  ASSUME TypeOK, StoresSetting, MasterCrash
  PROVE  TypeOK' /\ StoresSetting'
BY NodesAssumption DEF MasterCrash, CutSession, TypeOK, StoresSetting

\* The initial states have their types.
LEMMA InitTyped ==
  ASSUME Init
  PROVE  TypeOK /\ StoresSetting
<1>1. \A p \in Changes : order[p] = [kind |-> "uninstall"] /\ change[p] = "idle"
  BY DEF Init
<1>2. order \in [Changes -> Orders]
  BY DEF Init, Orders
<1> QED
  BY <1>1, <1>2, NodesAssumption DEF Init, TypeOK, StoresSetting

\* Every step keeps the types.
LEMMA StepTyped ==
  ASSUME TypeOK, StoresSetting, [Next]_vars
  PROVE  TypeOK' /\ StoresSetting'
<1>1. CASE UNCHANGED vars
  BY <1>1 DEF vars, masterVars, agentVars, TypeOK, StoresSetting
<1>2. CASE \E c \in Conns : Connect(c) \/ ReadFirst(c) \/ HandlerStep(c)
  BY <1>2, SessionTyped, HandlerTyped
<1>3. CASE EndSession \/ AgentRestart \/ Uninstalled \/ MasterCrash
  BY <1>3, EndTyped, CrashTyped
<1>4. CASE \E p \in Changes : Press(p) \/ Flip(p) \/ ChangeStep(p) \/ Deliver(p) \/ Execute(p)
  BY <1>4, ChangeTyped, CommandTyped
<1>5. CASE \E r \in Requests : PromptRegister(r) \/ DropRequest(r) \/ ConfirmRegister(r)
                               \/ StoreRegistration(r)
  BY <1>5, MasterTyped
<1> QED
  BY <1>1, <1>2, <1>3, <1>4, <1>5 DEF Next

\* Every state has its type, whatever the numbers of connections, changes and
\* requests; in particular no SendCommand under way is without a connection.
\* (wshub.go:287-291)
THEOREM NodesTypeCorrect == Spec => []TypeOK
<1>1. Init => TypeOK /\ StoresSetting
  BY InitTyped
<1>2. TypeOK /\ StoresSetting /\ [Next]_vars => TypeOK' /\ StoresSetting'
  BY StepTyped
<1> QED
  BY <1>1, <1>2, PTL DEF Spec

-----------------------------------------------------------------------------
(* Row and file.  Agreeing is the inductive invariant behind AgreeAtRest.  *)

\* A change has a command once SendCommand has sent one, and not before.
Issued ==
  \A p \in Changes :
    /\ change[p] \notin {"wait", "erase", "done"} => cmd[p] = "none"
    /\ change[p] = "wait" => cmd[p] # "none"

\* The agent's session has a handler; from Publish on it is the node's connection.
Attached ==
  sess # None => handler[sess] # "idle" /\ (handler[sess] # "dialed" => current = sess)

\* An auth that no change has come across writes what is in the file.
CleanAuth ==
  \A c \in Conns, f \in Fields :
    Window(c, f) /\ f \notin dirty[c] => ~Busy(f) /\ loaded[c][f] = file[f]

\* Two changes of one setting at a time are noticed.
Alone ==
  \A f \in Fields, p, q \in Changes :
    f \notin mixed /\ InProgress(p) /\ InProgress(q) /\ order[p].kind = f /\ order[q].kind = f
      => p = q

\* The session's auth has stored f and nothing has overlapped since.
Past(f) == sess # None /\ row # NoRow /\ f \notin mixed /\ ~Window(sess, f)

\* Then row and file agree when no change is under way ...
Settled == \A f \in Fields : Past(f) /\ ~Busy(f) => row[f] = file[f]

\* ... and the one under way has put its value into the row before it sends
\* it, sends it to this session, and finds it in the file when it was executed.
Underway ==
  \A f \in Fields, p \in Changes :
    Past(f) /\ InProgress(p) /\ order[p].kind = f =>
      /\ change[p] # "store" => row[f] = order[p].value
      /\ change[p] = "send" => via[p] = sess
      /\ change[p] = "wait" /\ cmd[p] = "over" => file[f] = order[p].value

Agreeing == Issued /\ Attached /\ CleanAuth /\ Alone /\ Settled /\ Underway

\* The windows of the two settings.
LEMMA WindowFacts ==
  /\ \A c : Window(c, "google") <=> handler[c] \in {"dialed", "published", "upserted"}
  /\ \A c : Window(c, "alias") <=> handler[c] \in {"dialed", "published"}
BY DEF Window

\* No setting becomes busy when no change gets under way.
LEMMA QuietBusy ==
  ASSUME order' = order, \A p \in Changes : InProgress(p)' => InProgress(p)
  PROVE  \A f : Busy(f)' => Busy(f)
BY DEF Busy

\* When the session ends and nothing is written, the agreement stays: nothing
\* is said of row and file until there is a session again.
LEMMA EndAgrees ==
  ASSUME Agreeing, sess' = None, Issued',
         UNCHANGED <<order, mixed, dirty, loaded, file>>,
         \A p \in Changes : InProgress(p)' => InProgress(p),
         \A c \in Conns, f \in Fields : Window(c, f)' => Window(c, f)
  PROVE  Agreeing'
<1>1. Attached' /\ Settled' /\ Underway'
  BY DEF Attached, Settled, Underway, Past
<1>2. CleanAuth'
  BY QuietBusy DEF Agreeing, CleanAuth
<1>3. Alone'
  BY DEF Agreeing, Alone
<1> QED
  BY <1>1, <1>2, <1>3 DEF Agreeing

\* CutSession starts no change and takes no command back.
LEMMA CutFacts ==
  ASSUME TypeOK, Issued, CutSession, change' = change
  PROVE  Issued' /\ sess' = None /\ \A p \in Changes : InProgress(p)' => InProgress(p)
<1>1. \A p \in Changes : cmd'[p] = IF cmd[p] \in {"early", "wire"} THEN "over" ELSE cmd[p]
  BY DEF CutSession, TypeOK
<1> QED
  BY <1>1 DEF CutSession, Issued, InProgress

\* A statement of the Master that leaves the row, a frame, or a step at the
\* agent that leaves its file, keeps the agreement when session, windows and
\* changes stay where they are.
LEMMA StillAgrees ==
  ASSUME Agreeing, Issued', Attached',
         UNCHANGED <<row, order, via, file, sess, loaded, dirty, mixed>>,
         \A p \in Changes : InProgress(p)' => InProgress(p),
         \A p \in Changes : InProgress(p) => InProgress(p)',
         \A c \in Conns, f \in Fields : Window(c, f)' <=> Window(c, f),
         \A p \in Changes : change'[p] = change[p],
         \A p \in Changes : (cmd'[p] = "over") <=> (cmd[p] = "over"),
         sess \in Conns \cup {None}
  PROVE  Agreeing'
<1>1. \A f : Busy(f)' <=> Busy(f)
  BY DEF Busy
<1>2. \A f \in Fields : Past(f)' <=> Past(f)
  BY DEF Past
<1>3. CleanAuth'
  BY <1>1 DEF Agreeing, CleanAuth
<1>4. Alone'
  BY DEF Agreeing, Alone
<1>5. Settled'
  BY <1>1, <1>2 DEF Agreeing, Settled
<1>6. Underway'
  BY <1>2 DEF Agreeing, Underway
<1> QED
  BY <1>3, <1>4, <1>5, <1>6 DEF Agreeing

\* The ends of a session, of the agent's process and of its package.
LEMMA EndStepAgrees ==
  ASSUME TypeOK, Agreeing, EndSession \/ AgentRestart \/ Uninstalled
  PROVE  Agreeing'
<1>1. CASE EndSession
  <2>1. CutSession /\ UNCHANGED <<change, order, handler, mixed, dirty, loaded, file>>
    BY <1>1 DEF EndSession, masterVars
  <2>2. \A c \in Conns, f \in Fields : Window(c, f)' => Window(c, f)
    BY <2>1 DEF Window
  <2> QED
    BY <2>1, <2>2, CutFacts, EndAgrees DEF Agreeing
<1>2. CASE AgentRestart \/ Uninstalled
  <2>1. /\ cmd' = [p \in Changes |-> IF cmd[p] = "none" THEN "none" ELSE "over"]
        /\ sess' = None
        /\ UNCHANGED <<change, order, handler, mixed, dirty, loaded, file>>
    BY <1>2 DEF AgentRestart, Uninstalled, masterVars
  <2>2. \A c \in Conns, f \in Fields : Window(c, f)' => Window(c, f)
    BY <2>1 DEF Window
  <2>3. Issued' /\ \A p \in Changes : InProgress(p)' => InProgress(p)
    BY <2>1 DEF Agreeing, Issued, InProgress
  <2> QED
    BY <2>1, <2>2, <2>3, EndAgrees
<1> QED
  BY <1>1, <1>2

\* A crash of the Master.
LEMMA CrashAgrees ==
  ASSUME TypeOK, Agreeing, MasterCrash
  PROVE  Agreeing'
<1>1. /\ handler' = [c \in Conns |-> "idle"]
      /\ change' = [p \in Changes |-> IF change[p] = "idle" THEN "idle" ELSE "done"]
      /\ cmd' = [p \in Changes |-> IF cmd[p] \in {"early", "wire"} THEN "over" ELSE cmd[p]]
      /\ sess' = None
      /\ UNCHANGED <<order, mixed, dirty, loaded, file>>
  BY DEF MasterCrash, CutSession
<1>2. \A c \in Conns, f \in Fields : Window(c, f)' => Window(c, f)
  BY <1>1 DEF Window
<1>3. Issued' /\ \A p \in Changes : InProgress(p)' => InProgress(p)
  BY <1>1 DEF Agreeing, Issued, InProgress
<1> QED
  BY <1>1, <1>2, <1>3, EndAgrees

\* A new session knows what the file says, and which settings are busy.
LEMMA ConnectAgrees ==
  ASSUME TypeOK, Agreeing, NEW c \in Conns, Connect(c)
  PROVE  Agreeing'
<1>1. /\ loaded' = [loaded EXCEPT ![c] = file]
      /\ sess' = c
      /\ handler' = [handler EXCEPT ![c] = "dialed"]
      /\ dirty' = [dirty EXCEPT ![c] = {f \in Fields : Busy(f)}]
      /\ UNCHANGED <<row, order, change, via, cmd, file, mixed>>
  BY DEF Connect
<1>2. \A p \in Changes : InProgress(p)' <=> InProgress(p)
  BY <1>1 DEF InProgress
<1>3. \A f : Busy(f)' <=> Busy(f)
  BY <1>1, <1>2 DEF Busy
<1>4. handler'[c] = "dialed" /\ \A d \in Conns \ {c} : handler'[d] = handler[d]
  BY <1>1 DEF TypeOK
<1>5. Issued' /\ Attached' /\ Alone'
  BY <1>1, <1>2, <1>4 DEF Agreeing, Issued, Attached, Alone
<1>6. \A f \in Fields : ~Past(f)'
  BY <1>1, <1>4, WindowFacts DEF Past, Window
<1>7. CleanAuth'
  <2> SUFFICES ASSUME NEW d \in Conns, NEW f \in Fields, Window(d, f)', f \notin dirty'[d]
               PROVE  ~Busy(f)' /\ loaded'[d][f] = file'[f]
    BY DEF CleanAuth
  <2>1. CASE d = c
    BY <1>1, <1>3, <2>1 DEF TypeOK
  <2>2. CASE d # c
    <3>1. Window(d, f) /\ f \notin dirty[d] /\ loaded'[d] = loaded[d]
      BY <1>1, <1>4, <2>2 DEF Window, TypeOK
    <3> QED
      BY <1>1, <1>3, <3>1 DEF Agreeing, CleanAuth
  <2> QED
    BY <2>1, <2>2
<1> QED
  BY <1>5, <1>6, <1>7 DEF Agreeing, Settled, Underway

\* The first frame ends the session or lets it serve.
LEMMA ReadFirstAgrees ==
  ASSUME TypeOK, Agreeing, NEW c \in Conns, ReadFirst(c)
  PROVE  Agreeing'
<1>1. UNCHANGED <<masterVars, file, alive, loaded, dirty, mixed>>
  BY DEF ReadFirst
<1>2. \A d \in Conns, f \in Fields : Window(d, f)' <=> Window(d, f)
  BY <1>1 DEF Window, masterVars
<1>3. CASE CutSession
  BY <1>1, <1>2, <1>3, CutFacts, EndAgrees DEF Agreeing, masterVars
<1>4. CASE UNCHANGED <<sess, cmd>>
  <2>1. \A p \in Changes : InProgress(p)' <=> InProgress(p)
    BY <1>1, <1>4 DEF InProgress, masterVars
  <2>2. Issued' /\ Attached'
    BY <1>1, <1>4 DEF Agreeing, Issued, Attached, masterVars
  <2> QED
    BY <1>1, <1>2, <1>4, <2>1, <2>2, StillAgrees DEF masterVars, TypeOK
<1> QED
  BY <1>3, <1>4 DEF ReadFirst

\* A command starts at the agent.
LEMMA DeliverAgrees ==
  ASSUME TypeOK, Agreeing, NEW p \in Changes, Deliver(p)
  PROVE  Agreeing'
<1>1. /\ cmd[p] = "wire" /\ cmd' = [cmd EXCEPT ![p] = "running"]
      /\ UNCHANGED <<row, current, handler, change, order, via, file, sess, loaded, dirty, mixed>>
  BY DEF Deliver, masterVars
<1>2. \A q \in Changes : InProgress(q)' <=> InProgress(q)
  BY <1>1 DEF InProgress, TypeOK
<1>3. \A d \in Conns, f \in Fields : Window(d, f)' <=> Window(d, f)
  BY <1>1 DEF Window
<1>4. Issued' /\ Attached'
  BY <1>1 DEF Agreeing, Issued, Attached, TypeOK
<1>5. \A q \in Changes : change'[q] = change[q] /\ (cmd'[q] = "over" <=> cmd[q] = "over")
  BY <1>1 DEF TypeOK
<1> QED
  BY <1>1, <1>2, <1>3, <1>4, <1>5, StillAgrees DEF TypeOK

\* A command is executed: the file takes the value the row already has.
LEMMA ExecuteAgrees ==
  ASSUME TypeOK, Agreeing, NEW p \in Changes, Execute(p)
  PROVE  Agreeing'
<1>1. /\ cmd[p] = "running" /\ cmd' = [cmd EXCEPT ![p] = "over"]
      /\ UNCHANGED <<row, current, handler, change, order, via, sess, loaded, dirty, mixed>>
  BY DEF Execute, masterVars
<1>2. /\ InProgress(p) /\ \A q \in Changes : InProgress(q)' => InProgress(q)
      /\ \A q \in Changes \ {p} : InProgress(q) => InProgress(q)'
  BY <1>1 DEF InProgress, TypeOK
<1>3. \A d \in Conns, f \in Fields : Window(d, f)' <=> Window(d, f)
  BY <1>1 DEF Window
<1>4. Issued' /\ Attached'
  BY <1>1 DEF Agreeing, Issued, Attached, TypeOK
<1>5. \A f \in Fields : order[p].kind # f => file'[f] = file[f] /\ (Busy(f)' <=> Busy(f))
  <2>1. CASE order[p].kind = "uninstall"
    BY <1>1, <1>2, <2>1 DEF Execute, Busy, Fields
  <2>2. CASE order[p].kind # "uninstall"
    <3>1. file' = [file EXCEPT ![order[p].kind] = order[p].value]
      BY <2>2 DEF Execute
    <3> QED
      BY <1>1, <1>2, <3>1 DEF Busy, TypeOK, Settings, Fields
  <2> QED
    BY <2>1, <2>2
<1>6. order[p].kind \in Fields => file'[order[p].kind] = order[p].value
  BY DEF Execute, TypeOK, Settings, Fields
<1>7. \A f \in Fields : Past(f)' <=> Past(f)
  BY <1>1, <1>3 DEF Past, TypeOK
<1>8. CleanAuth'
  <2> SUFFICES ASSUME NEW d \in Conns, NEW f \in Fields, Window(d, f)', f \notin dirty'[d]
               PROVE  ~Busy(f)' /\ loaded'[d][f] = file'[f]
    BY DEF CleanAuth
  <2>1. ~Busy(f) /\ loaded[d][f] = file[f]
    BY <1>1, <1>3 DEF Agreeing, CleanAuth
  <2>2. order[p].kind # f
    BY <1>2, <2>1 DEF Busy
  <2> QED
    BY <1>1, <1>5, <2>1, <2>2
<1>9. Alone'
  BY <1>1, <1>2 DEF Agreeing, Alone
<1>10. Settled' /\ Underway'
  <2> SUFFICES ASSUME NEW f \in Fields, Past(f)
               PROVE  /\ ~Busy(f)' => row'[f] = file'[f]
                      /\ \A q \in Changes : InProgress(q)' /\ order'[q].kind = f =>
                           /\ change'[q] # "store" => row'[f] = order'[q].value
                           /\ change'[q] = "send" => via'[q] = sess'
                           /\ change'[q] = "wait" /\ cmd'[q] = "over" => file'[f] = order'[q].value
    BY <1>7 DEF Settled, Underway
  <2>1. CASE order[p].kind # f
    BY <1>1, <1>2, <1>5, <2>1 DEF Agreeing, Settled, Underway, TypeOK
  <2>2. CASE order[p].kind = f
    <3>1. file'[f] = order[p].value /\ f \notin mixed
      BY <1>6, <2>2 DEF Past
    <3>2. change[p] # "store"
      BY <1>1 DEF Agreeing, Issued
    <3>3. row'[f] = order[p].value
      BY <1>1, <1>2, <2>2, <3>2 DEF Agreeing, Underway
    <3>4. \A q \in Changes : InProgress(q)' /\ order[q].kind = f => q = p
      BY <1>2, <2>2, <3>1 DEF Agreeing, Alone
    <3>5. change[p] # "send"
      BY <1>1 DEF Agreeing, Issued
    <3> QED
      BY <1>1, <3>1, <3>3, <3>4, <3>5
  <2> QED
    BY <2>1, <2>2
<1> QED
  BY <1>4, <1>8, <1>9, <1>10 DEF Agreeing

\* The end of a handler whose session has gone.
LEMMA HandlerOverAgrees ==
  ASSUME TypeOK, Agreeing, NEW c \in Conns, AuthLost(c) \/ HandlerEnd(c)
  PROVE  Agreeing'
<1>1. /\ sess # c /\ handler' = [handler EXCEPT ![c] = "idle"]
      /\ UNCHANGED <<row, change, order, via, cmd, file, sess, loaded, dirty, mixed>>
      /\ current' = current \/ (current = c /\ current' = None)
  BY DEF AuthLost, HandlerEnd, agentVars
<1>2. \A p \in Changes : InProgress(p)' <=> InProgress(p)
  BY <1>1 DEF InProgress
<1>3. \A f : Busy(f)' <=> Busy(f)
  BY <1>1, <1>2 DEF Busy
<1>4. handler'[c] = "idle" /\ \A d \in Conns \ {c} : handler'[d] = handler[d]
  BY <1>1 DEF TypeOK
<1>5. \A d \in Conns, f \in Fields : Window(d, f)' => Window(d, f)
  BY <1>4 DEF Window
<1>6. Issued' /\ Alone'
  BY <1>1, <1>2 DEF Agreeing, Issued, Alone
<1>7. Attached'
  BY <1>1, <1>4 DEF Agreeing, Attached, TypeOK
<1>8. CleanAuth'
  BY <1>1, <1>3, <1>5 DEF Agreeing, CleanAuth
<1>9. \A f \in Fields : Past(f)' => Past(f)
  BY <1>1, <1>4 DEF Past, Window, TypeOK
<1>10. Settled' /\ Underway'
  BY <1>1, <1>2, <1>3, <1>9 DEF Agreeing, Settled, Underway
<1> QED
  BY <1>6, <1>7, <1>8, <1>10 DEF Agreeing

\* The connection takes the node's place: an older session ends.
LEMMA PublishAgrees ==
  ASSUME TypeOK, Agreeing, NEW c \in Conns, Publish(c)
  PROVE  Agreeing'
<1>1. /\ handler[c] = "dialed" /\ current' = c
      /\ handler' = [handler EXCEPT ![c] = "published"]
      /\ UNCHANGED <<row, change, order, via, file, loaded, dirty, mixed>>
  BY DEF Publish
<1>2. handler'[c] = "published" /\ \A d \in Conns \ {c} : handler'[d] = handler[d]
  BY <1>1 DEF TypeOK
<1>3. \A d \in Conns, f \in Fields : Window(d, f)' <=> Window(d, f)
  BY <1>1, <1>2, WindowFacts DEF Window
<1>4. CASE CutSession
  BY <1>1, <1>3, <1>4, CutFacts, EndAgrees DEF Agreeing
<1>5. CASE UNCHANGED <<sess, cmd>> /\ ~(current # None /\ sess = current)
  <2>1. \A p \in Changes : InProgress(p)' <=> InProgress(p)
    BY <1>1, <1>5 DEF InProgress
  <2>2. Issued' /\ Attached'
    BY <1>1, <1>2, <1>5 DEF Agreeing, Issued, Attached, TypeOK
  <2> QED
    BY <1>1, <1>3, <1>5, <2>1, <2>2, StillAgrees DEF TypeOK
<1> QED
  BY <1>4, <1>5 DEF Publish

\* The auth writes the alias: what the file says, or it is noticed.
LEMMA UpsertAgrees ==
  ASSUME TypeOK, Agreeing, NEW c \in Conns, UpsertNode(c)
  PROVE  Agreeing'
<1>1. /\ handler[c] = "published"
      /\ row' = Upserted(loaded[c].alias)
      /\ mixed' = WroteOver(c, "alias") \cup IF row = NoRow THEN {"google"} ELSE {}
      /\ handler' = [handler EXCEPT ![c] = "upserted"]
      /\ UNCHANGED <<current, change, order, via, cmd, file, sess, loaded, dirty>>
  BY DEF UpsertNode, agentVars
<1>2. \A p \in Changes : InProgress(p)' <=> InProgress(p)
  BY <1>1 DEF InProgress
<1>3. \A f : Busy(f)' <=> Busy(f)
  BY <1>1, <1>2 DEF Busy
<1>4. handler'[c] = "upserted" /\ \A d \in Conns \ {c} : handler'[d] = handler[d]
  BY <1>1 DEF TypeOK
<1>5. /\ \A d \in Conns, f \in Fields : Window(d, f)' => Window(d, f)
      /\ \A d \in Conns : Window(d, "google")' <=> Window(d, "google")
      /\ Window(c, "alias")
  BY <1>1, <1>4, WindowFacts DEF Window
<1>6. Issued' /\ Attached'
  BY <1>1, <1>4 DEF Agreeing, Issued, Attached, TypeOK
<1>7. CleanAuth'
  BY <1>1, <1>3, <1>5 DEF Agreeing, CleanAuth
<1>8. "alias" \notin mixed' => ~Busy("alias") /\ row'.alias = file.alias
  BY <1>1, <1>5 DEF WroteOver, Agreeing, CleanAuth, Upserted, Fields
<1>9. "google" \notin mixed' => "google" \notin mixed /\ row # NoRow /\ row'.google = row.google
  BY <1>1 DEF WroteOver, Upserted
<1>10. Past("google")' => Past("google")
  BY <1>1, <1>5, <1>9 DEF Past, TypeOK
<1>11. Alone'
  BY <1>1, <1>2, <1>8, <1>9 DEF Agreeing, Alone, Busy, Fields
<1>12. Settled'
  BY <1>1, <1>3, <1>8, <1>9, <1>10 DEF Agreeing, Settled, Past, Fields
<1>13. Underway'
  <2>1. \A p \in Changes : "alias" \notin mixed' /\ InProgress(p) => order[p].kind # "alias"
    BY <1>8 DEF Busy
  <2> QED
    BY <1>1, <1>2, <1>9, <1>10, <2>1 DEF Agreeing, Underway, Past, Fields
<1> QED
  BY <1>6, <1>7, <1>11, <1>12, <1>13 DEF Agreeing

\* The auth writes the switch: what the file says, or it is noticed.
LEMMA StoreSwitchesAgrees ==
  ASSUME TypeOK, Agreeing, NEW c \in Conns, StoreSwitches(c)
  PROVE  Agreeing'
<1>1. /\ handler[c] = "upserted"
      /\ row' = IF row = NoRow THEN NoRow ELSE [row EXCEPT !.google = loaded[c].google]
      /\ mixed' = WroteOver(c, "google")
      /\ handler' = [handler EXCEPT ![c] = "serving"]
      /\ UNCHANGED <<current, change, order, via, cmd, file, sess, loaded, dirty>>
  BY DEF StoreSwitches, agentVars
<1>2. \A p \in Changes : InProgress(p)' <=> InProgress(p)
  BY <1>1 DEF InProgress
<1>3. \A f : Busy(f)' <=> Busy(f)
  BY <1>1, <1>2 DEF Busy
<1>4. handler'[c] = "serving" /\ \A d \in Conns \ {c} : handler'[d] = handler[d]
  BY <1>1 DEF TypeOK
<1>5. /\ \A d \in Conns, f \in Fields : Window(d, f)' => Window(d, f)
      /\ \A d \in Conns : Window(d, "alias")' <=> Window(d, "alias")
      /\ Window(c, "google")
  BY <1>1, <1>4, WindowFacts DEF Window
<1>6. Issued' /\ Attached'
  BY <1>1, <1>4 DEF Agreeing, Issued, Attached, TypeOK
<1>7. CleanAuth'
  BY <1>1, <1>3, <1>5 DEF Agreeing, CleanAuth
<1>8. row' # NoRow => /\ row # NoRow /\ row'.alias = row.alias
                      /\ row'.google = loaded[c].google
  BY <1>1 DEF TypeOK, Settings
<1>9. "google" \notin mixed' => ~Busy("google") /\ loaded[c].google = file.google
  BY <1>1, <1>5 DEF WroteOver, Agreeing, CleanAuth, Fields
<1>10. "alias" \notin mixed' => "alias" \notin mixed
  BY <1>1 DEF WroteOver
<1>11. Past("alias")' => Past("alias")
  BY <1>1, <1>5, <1>8, <1>10 DEF Past, TypeOK
<1>12. Alone'
  BY <1>1, <1>2, <1>9, <1>10 DEF Agreeing, Alone, Busy, Fields
<1>13. Settled'
  BY <1>1, <1>3, <1>8, <1>9, <1>11 DEF Agreeing, Settled, Past, Fields
<1>14. Underway'
  <2>1. \A p \in Changes : "google" \notin mixed' /\ InProgress(p) => order[p].kind # "google"
    BY <1>9 DEF Busy
  <2> QED
    BY <1>1, <1>2, <1>8, <1>11, <2>1 DEF Agreeing, Underway, Past, Fields
<1> QED
  BY <1>6, <1>7, <1>12, <1>13, <1>14 DEF Agreeing

\* The owner asks for a change: settings that are busy and auths that are
\* under way are marked.
LEMMA BeginAgrees ==
  ASSUME TypeOK, Agreeing, NEW p \in Changes, NEW o \in Orders, Begin(p, o)
  PROVE  Agreeing'
<1>1. /\ change[p] = "idle"
      /\ change' = [change EXCEPT ![p] = IF o.kind = "uninstall" THEN "lookup" ELSE "store"]
      /\ order' = [order EXCEPT ![p] = o]
      /\ mixed' = mixed \cup {f \in {o.kind} \cap Fields : Busy(f)}
      /\ dirty' = [c \in Conns |-> dirty[c] \cup {f \in {o.kind} \cap Fields : Window(c, f)}]
      /\ UNCHANGED <<row, current, handler, via, file, sess, loaded, cmd>>
  BY DEF Begin, agentVars
<1>2. cmd[p] = "none" /\ ~InProgress(p)
  BY <1>1 DEF Agreeing, Issued, InProgress
<1>3. /\ change'[p] = IF o.kind = "uninstall" THEN "lookup" ELSE "store"
      /\ order'[p] = o
      /\ \A q \in Changes \ {p} : change'[q] = change[q] /\ order'[q] = order[q]
  BY <1>1 DEF TypeOK
<1>4. \A q \in Changes \ {p} : InProgress(q)' <=> InProgress(q)
  BY <1>1, <1>3 DEF InProgress
<1>5. \A f \in Fields : f # o.kind => (Busy(f)' <=> Busy(f))
  BY <1>2, <1>3, <1>4 DEF Busy
<1>6. \A f \in Fields : Busy(f) => Busy(f)'
  BY <1>2, <1>3, <1>4 DEF Busy
<1>7. \A d \in Conns, f \in Fields : Window(d, f)' <=> Window(d, f)
  BY <1>1 DEF Window
<1>8. Issued'
  BY <1>1, <1>2, <1>3 DEF Agreeing, Issued
<1>9. Attached'
  BY <1>1 DEF Agreeing, Attached
<1>10. CleanAuth'
  <2> SUFFICES ASSUME NEW d \in Conns, NEW f \in Fields, Window(d, f), f \notin dirty'[d]
               PROVE  ~Busy(f)' /\ loaded'[d][f] = file'[f]
    BY <1>7 DEF CleanAuth
  <2>1. f \notin dirty[d] /\ f # o.kind
    BY <1>1
  <2>2. ~Busy(f) /\ loaded[d][f] = file[f]
    BY <2>1 DEF Agreeing, CleanAuth
  <2> QED
    BY <1>1, <1>5, <2>1, <2>2
<1>11. \A f \in Fields : f \notin mixed' => f \notin mixed /\ (f = o.kind => ~Busy(f))
  BY <1>1
<1>12. Alone'
  <2> SUFFICES ASSUME NEW f \in Fields, NEW q \in Changes, NEW r \in Changes, f \notin mixed',
                      InProgress(q)', InProgress(r)', order'[q].kind = f, order'[r].kind = f
               PROVE  q = r
    BY DEF Alone
  <2>1. CASE f = o.kind
    BY <1>3, <1>4, <1>11, <2>1 DEF Busy
  <2>2. CASE f # o.kind
    BY <1>3, <1>4, <1>11, <2>2 DEF Agreeing, Alone
  <2> QED
    BY <2>1, <2>2
<1>13. \A f \in Fields : Past(f)' => Past(f)
  BY <1>1, <1>7, <1>11 DEF Past, TypeOK
<1>14. Settled'
  BY <1>1, <1>6, <1>13 DEF Agreeing, Settled
<1>15. Underway'
  <2> SUFFICES ASSUME NEW f \in Fields, NEW q \in Changes, Past(f)', InProgress(q)',
                      order'[q].kind = f
               PROVE  /\ change'[q] # "store" => row'[f] = order'[q].value
                      /\ change'[q] = "send" => via'[q] = sess'
                      /\ change'[q] = "wait" /\ cmd'[q] = "over" => file'[f] = order'[q].value
    BY DEF Underway
  <2>1. CASE q = p
    BY <1>3, <2>1 DEF Fields
  <2>2. CASE q # p
    <3>1. Past(f) /\ InProgress(q) /\ order[q].kind = f
      BY <1>3, <1>4, <1>13, <2>2
    <3> QED
      BY <1>1, <1>3, <2>2, <3>1 DEF Agreeing, Underway
  <2> QED
    BY <2>1, <2>2
<1> QED
  BY <1>8, <1>9, <1>10, <1>12, <1>14, <1>15 DEF Agreeing

\* The UPDATE of the row.
LEMMA StoreChangeAgrees ==
  ASSUME TypeOK, StoresSetting, Agreeing, NEW p \in Changes, StoreChange(p)
  PROVE  Agreeing'
<1>1. /\ change[p] = "store"
      /\ row' = IF row = NoRow THEN NoRow ELSE [row EXCEPT ![order[p].kind] = order[p].value]
      /\ change' = [change EXCEPT ![p] = "lookup"]
      /\ UNCHANGED <<current, handler, order, via, file, sess, loaded, cmd, dirty, mixed>>
  BY DEF StoreChange, agentVars
<1>2. change'[p] = "lookup" /\ \A q \in Changes \ {p} : change'[q] = change[q]
  BY <1>1 DEF TypeOK
<1>3. InProgress(p) /\ \A q \in Changes : InProgress(q)' <=> InProgress(q)
  BY <1>1, <1>2 DEF InProgress
<1>4. \A f : Busy(f)' <=> Busy(f)
  BY <1>1, <1>3 DEF Busy
<1>5. \A d \in Conns, f \in Fields : Window(d, f)' <=> Window(d, f)
  BY <1>1 DEF Window
<1>6. Issued' /\ Attached' /\ Alone' /\ CleanAuth'
  BY <1>1, <1>2, <1>3, <1>4, <1>5 DEF Agreeing, Issued, Attached, Alone, CleanAuth
<1>7. order[p].kind \in Fields
  BY <1>1 DEF StoresSetting
<1>8. row' # NoRow =>
        /\ row # NoRow
        /\ row'[order[p].kind] = order[p].value
        /\ \A f \in Fields : f # order[p].kind => row'[f] = row[f]
  BY <1>1, <1>7 DEF TypeOK, Settings, Fields
<1>9. \A f \in Fields : Past(f)' => Past(f) /\ row' # NoRow
  BY <1>1, <1>5, <1>8 DEF Past, TypeOK
<1>10. Settled'
  <2> SUFFICES ASSUME NEW f \in Fields, Past(f)', ~Busy(f) PROVE row'[f] = file'[f]
    BY <1>4 DEF Settled
  <2>1. f # order[p].kind
    BY <1>3 DEF Busy
  <2> QED
    BY <1>1, <1>8, <1>9, <2>1 DEF Agreeing, Settled
<1>11. Underway'
  <2> SUFFICES ASSUME NEW f \in Fields, NEW q \in Changes, Past(f)', InProgress(q),
                      order[q].kind = f
               PROVE  /\ change'[q] # "store" => row'[f] = order'[q].value
                      /\ change'[q] = "send" => via'[q] = sess'
                      /\ change'[q] = "wait" /\ cmd'[q] = "over" => file'[f] = order'[q].value
    BY <1>1, <1>3 DEF Underway
  <2>1. CASE f = order[p].kind
    <3>1. q = p
      BY <1>3, <1>9, <2>1 DEF Agreeing, Alone, Past
    <3> QED
      BY <1>1, <1>2, <1>8, <1>9, <2>1, <3>1
  <2>2. CASE f # order[p].kind
    BY <1>1, <1>2, <1>8, <1>9, <2>2 DEF Agreeing, Underway
  <2> QED
    BY <2>1, <2>2
<1> QED
  BY <1>6, <1>10, <1>11 DEF Agreeing

\* A step of a change that writes neither row nor file.  It keeps the agreement
\* when the row has the value of a setting before the step that follows, and
\* the file has it, too, once the change is over.
LEMMA ChangeMovedAgrees ==
  ASSUME TypeOK, Agreeing, Issued', NEW p \in Changes,
         InProgress(p),
         UNCHANGED <<row, current, handler, order, file, sess, loaded, dirty, mixed>>,
         \A q \in Changes \ {p} : change'[q] = change[q] /\ via'[q] = via[q] /\ cmd'[q] = cmd[q],
         \A f \in Fields : Past(f) /\ order[p].kind = f =>
           /\ change'[p] # "store" => row[f] = order[p].value
           /\ change'[p] = "send" => via'[p] = sess
           /\ change'[p] = "wait" /\ cmd'[p] = "over" => file[f] = order[p].value
           /\ ~InProgress(p)' => row[f] = file[f]
  PROVE  Agreeing'
<1>1. \A q \in Changes \ {p} : InProgress(q)' <=> InProgress(q)
  BY DEF InProgress
<1>2. \A f : Busy(f)' => Busy(f)
  BY <1>1 DEF Busy
<1>3. \A d \in Conns, f \in Fields : Window(d, f)' <=> Window(d, f)
  BY DEF Window
<1>4. \A f \in Fields : Past(f)' <=> Past(f)
  BY <1>3 DEF Past, TypeOK
<1>5. Attached' /\ CleanAuth' /\ Alone'
  BY <1>1, <1>2, <1>3 DEF Agreeing, Attached, CleanAuth, Alone
<1>6. Settled'
  <2> SUFFICES ASSUME NEW f \in Fields, Past(f), ~Busy(f)' PROVE row[f] = file[f]
    BY <1>4 DEF Settled
  <2>1. CASE order[p].kind = f
    BY <2>1 DEF Busy
  <2>2. CASE order[p].kind # f
    BY <1>1, <2>2 DEF Agreeing, Settled, Busy
  <2> QED
    BY <2>1, <2>2
<1>7. Underway'
  <2> SUFFICES ASSUME NEW f \in Fields, NEW q \in Changes, Past(f), InProgress(q)',
                      order[q].kind = f
               PROVE  /\ change'[q] # "store" => row[f] = order[q].value
                      /\ change'[q] = "send" => via'[q] = sess
                      /\ change'[q] = "wait" /\ cmd'[q] = "over" => file[f] = order[q].value
    BY <1>4 DEF Underway
  <2>1. CASE q = p
    BY <2>1
  <2>2. CASE q # p
    BY <1>1, <2>2 DEF Agreeing, Underway
  <2> QED
    BY <2>1, <2>2
<1> QED
  BY <1>5, <1>6, <1>7 DEF Agreeing

\* SendCommand looks up the node's connection: of a session that is past its
\* auth it is the session's.
LEMMA LookupAgrees ==
  ASSUME TypeOK, Agreeing, NEW p \in Changes, Lookup(p)
  PROVE  Agreeing'
<1>1. /\ change[p] = "lookup"
      /\ change' = [change EXCEPT ![p] = IF current = None THEN AfterCommand(p) ELSE "send"]
      /\ via' = [via EXCEPT ![p] = current]
      /\ UNCHANGED <<row, current, handler, order, file, sess, loaded, cmd, dirty, mixed>>
  BY DEF Lookup, agentVars
<1>2. InProgress(p) /\ cmd[p] = "none"
  BY <1>1 DEF InProgress, Agreeing, Issued
<1>3. Issued'
  BY <1>1, <1>2 DEF Agreeing, Issued, AfterCommand, TypeOK
<1>4. \A f \in Fields : Past(f) /\ order[p].kind = f =>
        row[f] = order[p].value /\ change'[p] = "send" /\ via'[p] = sess
  <2> SUFFICES ASSUME NEW f \in Fields, Past(f), order[p].kind = f
               PROVE  row[f] = order[p].value /\ change'[p] = "send" /\ via'[p] = sess
    OBVIOUS
  <2>1. row[f] = order[p].value
    BY <1>1, <1>2 DEF Agreeing, Underway
  <2>2. sess \in Conns /\ handler[sess] # "dialed"
    BY WindowFacts DEF Past, Window, TypeOK
  <2>3. current = sess
    BY <2>2, NodesAssumption DEF Agreeing, Attached
  <2> QED
    BY <1>1, <2>1, <2>2, <2>3, NodesAssumption DEF TypeOK
<1>5. \A q \in Changes \ {p} : change'[q] = change[q] /\ via'[q] = via[q] /\ cmd'[q] = cmd[q]
  BY <1>1 DEF TypeOK
<1>6. change'[p] = "send" => InProgress(p)'
  BY DEF InProgress
<1> QED
  BY <1>1, <1>2, <1>3, <1>4, <1>5, <1>6, ChangeMovedAgrees

\* A command is sent, or its connection has gone and no session is past its auth.
LEMMA SendAgrees ==
  ASSUME TypeOK, Agreeing, NEW p \in Changes, Send(p)
  PROVE  Agreeing'
<1>1. /\ change[p] = "send"
      /\ UNCHANGED <<row, current, handler, order, via, file, sess, loaded, dirty, mixed>>
  BY DEF Send
<1>2. InProgress(p) /\ cmd[p] = "none"
  BY <1>1 DEF InProgress, Agreeing, Issued
<1>3. CASE sess = via[p]
  <2>1. cmd'[p] \in {"early", "wire"} /\ change'[p] = "wait"
    BY <1>3 DEF Send, TypeOK
  <2>2. \A q \in Changes \ {p} : change'[q] = change[q] /\ cmd'[q] = cmd[q]
    BY <1>3 DEF Send, TypeOK
  <2>3. Issued'
    BY <2>1, <2>2 DEF Agreeing, Issued
  <2>4. InProgress(p)'
    BY <2>1 DEF InProgress
  <2>5. \A f \in Fields : Past(f) /\ order[p].kind = f => row[f] = order[p].value
    BY <1>1, <1>2 DEF Agreeing, Underway
  <2> QED
    BY <1>1, <1>2, <2>1, <2>2, <2>3, <2>4, <2>5, ChangeMovedAgrees
<1>4. CASE sess # via[p]
  <2>1. change' = [change EXCEPT ![p] = AfterCommand(p)] /\ UNCHANGED cmd
    BY <1>4 DEF Send
  <2>2. Issued'
    BY <1>2, <2>1 DEF Agreeing, Issued, AfterCommand, TypeOK
  <2>3. \A f \in Fields : Past(f) => order[p].kind # f
    BY <1>1, <1>2, <1>4 DEF Agreeing, Underway
  <2>4. \A q \in Changes \ {p} : change'[q] = change[q]
    BY <2>1 DEF TypeOK
  <2> QED
    BY <1>1, <1>2, <2>1, <2>2, <2>3, <2>4, ChangeMovedAgrees
<1> QED
  BY <1>3, <1>4

\* SendCommand returns: the command is still under way, lost with its session
\* or executed.
LEMMA ReturnAgrees ==
  ASSUME TypeOK, Agreeing, NEW p \in Changes, Return(p)
  PROVE  Agreeing'
<1>1. /\ change[p] = "wait"
      /\ change' = [change EXCEPT ![p] = AfterCommand(p)]
      /\ UNCHANGED <<row, current, handler, order, via, file, sess, loaded, cmd, dirty, mixed>>
  BY DEF Return, agentVars
<1>2. InProgress(p)
  BY <1>1 DEF InProgress
<1>3. Issued'
  BY <1>1 DEF Agreeing, Issued, AfterCommand, TypeOK
<1>4. \A q \in Changes \ {p} : change'[q] = change[q]
  BY <1>1 DEF TypeOK
<1>5. change'[p] \in {"erase", "done"}
  BY <1>1 DEF AfterCommand, TypeOK
<1>6. \A f \in Fields : Past(f) /\ order[p].kind = f =>
        row[f] = order[p].value /\ (~InProgress(p)' => row[f] = file[f])
  <2> SUFFICES ASSUME NEW f \in Fields, Past(f), order[p].kind = f
               PROVE  row[f] = order[p].value /\ (~InProgress(p)' => row[f] = file[f])
    OBVIOUS
  <2>1. row[f] = order[p].value /\ (cmd[p] = "over" => file[f] = order[p].value)
    BY <1>1, <1>2 DEF Agreeing, Underway
  <2>2. ~InProgress(p)' => cmd[p] \notin {"early", "wire", "running"}
    BY <1>1 DEF InProgress
  <2>3. cmd[p] \in {"early", "wire", "running", "over"}
    BY <1>1 DEF Agreeing, Issued, TypeOK
  <2> QED
    BY <2>1, <2>2, <2>3
<1> QED
  BY <1>1, <1>2, <1>3, <1>4, <1>5, <1>6, ChangeMovedAgrees

\* A deleted node has no row that could disagree.
LEMMA EraseAgrees ==
  ASSUME TypeOK, Agreeing, NEW p \in Changes, EraseRow(p)
  PROVE  Agreeing'
<1>1. /\ change[p] = "erase" /\ row' = NoRow
      /\ change' = [change EXCEPT ![p] = "done"]
      /\ UNCHANGED <<current, handler, order, via, file, sess, loaded, cmd, dirty, mixed>>
  BY DEF EraseRow, agentVars
<1>2. \A q \in Changes : InProgress(q)' => InProgress(q)
  BY <1>1 DEF InProgress, TypeOK
<1>3. \A d \in Conns, f \in Fields : Window(d, f)' <=> Window(d, f)
  BY <1>1 DEF Window
<1>4. Issued' /\ Attached' /\ Alone'
  BY <1>1, <1>2 DEF Agreeing, Issued, Attached, Alone, TypeOK
<1>5. CleanAuth'
  BY <1>1, <1>2, <1>3, QuietBusy DEF Agreeing, CleanAuth
<1>6. Settled' /\ Underway'
  BY <1>1 DEF Settled, Underway, Past
<1> QED
  BY <1>4, <1>5, <1>6 DEF Agreeing

\* Requests that wait, are dropped or taken; a registration marks what it writes.
LEMMA RegistrationAgrees ==
  ASSUME TypeOK, Agreeing, NEW r \in Requests,
         \/ PromptRegister(r) \/ DropRequest(r) \/ ConfirmRegister(r) \/ StoreRegistration(r)
  PROVE  Agreeing'
<1>1. UNCHANGED <<current, handler, change, order, via, file, sess, loaded, cmd, dirty>>
  BY DEF PromptRegister, DropRequest, ConfirmRegister, StoreRegistration, agentVars
<1>2. \A p \in Changes : InProgress(p)' <=> InProgress(p)
  BY <1>1 DEF InProgress
<1>3. \A f : Busy(f)' <=> Busy(f)
  BY <1>1, <1>2 DEF Busy
<1>4. \A d \in Conns, f \in Fields : Window(d, f)' <=> Window(d, f)
  BY <1>1 DEF Window
<1>5. \A f \in Fields : f \notin mixed' =>
        f \notin mixed /\ (row' = row \/ (f = "google" /\ row # NoRow /\ row'[f] = row[f]))
  <2>1. CASE UNCHANGED <<row, mixed>>
    BY <2>1
  <2>2. CASE StoreRegistration(r)
    <3>1. row # NoRow => row'.google = row.google
      BY <2>2 DEF StoreRegistration, Upserted
    <3>2. mixed' = IF row = NoRow THEN Fields ELSE mixed \cup {"alias"}
      BY <2>2 DEF StoreRegistration
    <3> QED
      BY <3>1, <3>2 DEF Fields
  <2> QED
    BY <2>1, <2>2 DEF PromptRegister, DropRequest, ConfirmRegister
<1>6. Issued' /\ Attached' /\ CleanAuth' /\ Alone'
  BY <1>1, <1>2, <1>3, <1>4, <1>5 DEF Agreeing, Issued, Attached, CleanAuth, Alone
<1>7. \A f \in Fields : Past(f)' => Past(f) /\ row'[f] = row[f]
  BY <1>1, <1>4, <1>5 DEF Past, TypeOK
<1>8. Settled' /\ Underway'
  BY <1>1, <1>2, <1>3, <1>7 DEF Agreeing, Settled, Underway
<1> QED
  BY <1>6, <1>8 DEF Agreeing

\* At first there is no session and no change.
LEMMA InitAgrees ==
  ASSUME Init
  PROVE  Agreeing
<1>1. \A p \in Changes : change[p] = "idle" /\ cmd[p] = "none"
  BY DEF Init
<1>2. \A p \in Changes : ~InProgress(p)
  BY <1>1 DEF InProgress
<1>3. \A c \in Conns, f \in Fields : ~Window(c, f)
  BY DEF Init, Window
<1> QED
  BY <1>1, <1>2, <1>3 DEF Init, Agreeing, Issued, Attached, CleanAuth, Alone, Settled,
                          Underway, Past

\* Every step keeps the agreement.
LEMMA StepAgrees ==
  ASSUME TypeOK, StoresSetting, Agreeing, [Next]_vars
  PROVE  Agreeing'
<1>1. CASE UNCHANGED vars
  <2>1. /\ UNCHANGED <<row, current, handler, change, order, via, file, sess, loaded, cmd>>
        /\ UNCHANGED <<dirty, mixed>>
    BY <1>1 DEF vars, masterVars, agentVars
  <2>2. /\ \A p \in Changes : InProgress(p)' <=> InProgress(p)
        /\ \A c \in Conns, f \in Fields : Window(c, f)' <=> Window(c, f)
    BY <2>1 DEF InProgress, Window
  <2>3. Issued' /\ Attached'
    BY <2>1 DEF Agreeing, Issued, Attached
  <2> QED
    BY <2>1, <2>2, <2>3, StillAgrees DEF TypeOK
<1>2. ASSUME NEW c \in Conns, Connect(c) \/ ReadFirst(c) \/ HandlerStep(c)
      PROVE  Agreeing'
  BY <1>2, ConnectAgrees, ReadFirstAgrees, HandlerOverAgrees, PublishAgrees, UpsertAgrees,
     StoreSwitchesAgrees DEF HandlerStep
<1>3. CASE EndSession \/ AgentRestart \/ Uninstalled \/ MasterCrash
  BY <1>3, EndStepAgrees, CrashAgrees
<1>4. ASSUME NEW p \in Changes,
             Press(p) \/ Flip(p) \/ ChangeStep(p) \/ Deliver(p) \/ Execute(p)
      PROVE  Agreeing'
  <2>1. CASE Press(p) \/ Flip(p)
    <3>1. PICK o \in Orders : Begin(p, o)
      BY <2>1 DEF Press, Flip, Orders
    <3> QED
      BY <3>1, BeginAgrees
  <2>2. CASE ChangeStep(p)
    BY <2>2, StoreChangeAgrees, LookupAgrees, SendAgrees, ReturnAgrees, EraseAgrees
       DEF ChangeStep
  <2>3. CASE Deliver(p) \/ Execute(p)
    BY <2>3, DeliverAgrees, ExecuteAgrees
  <2> QED
    BY <1>4, <2>1, <2>2, <2>3
<1>5. CASE \E r \in Requests : PromptRegister(r) \/ DropRequest(r) \/ ConfirmRegister(r)
                               \/ StoreRegistration(r)
  BY <1>5, RegistrationAgrees
<1> QED
  BY <1>1, <1>2, <1>3, <1>4, <1>5 DEF Next

\* An agent's session that serves is past its auth for both settings.
LEMMA AgreeingAgrees ==
  ASSUME TypeOK, Agreeing
  PROVE  AgreeAtRest
<1> SUFFICES ASSUME Up, row # NoRow, NEW f \in Fields, ~Busy(f), f \notin mixed
             PROVE  row[f] = file[f]
  BY DEF AgreeAtRest
<1>1. Past(f)
  BY WindowFacts DEF Up, Past, Window
<1> QED
  BY <1>1 DEF Agreeing, Settled

\* When the agent's session is up and no change of a setting is under way, the
\* row of the Master and the file of the agent agree on it, whatever the numbers
\* of connections, changes, registrations and crashes, unless two writers of
\* it overlapped or a registration wrote last.  (wshub.go:134-141,
\* handlers.go:678-679, commands.go:80-88)
THEOREM NodesAgree == Spec => []AgreeAtRest
<1>1. Init => TypeOK /\ StoresSetting /\ Agreeing
  BY InitTyped, InitAgrees
<1>2. TypeOK /\ StoresSetting /\ Agreeing /\ [Next]_vars
        => TypeOK' /\ StoresSetting' /\ Agreeing'
  BY StepTyped, StepAgrees
<1>3. TypeOK /\ Agreeing => AgreeAtRest
  BY AgreeingAgrees
<1> QED
  BY <1>1, <1>2, <1>3, PTL DEF Spec
=============================================================================
