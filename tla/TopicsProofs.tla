----------------------------- MODULE TopicsProofs -----------------------------
(***************************************************************************)
(* Theorems about Topics, for any number of nodes, groups, runs of         *)
(* ensureNodeForumTopic and rebuilds: type correctness, topics are their   *)
(* nodes' own, none is left unaccounted for, and what a rebuild restores.  *)
(***************************************************************************)
EXTENDS Topics, TLAPS

-----------------------------------------------------------------------------
(* Topics and numbers.                                                     *)

\* At, of a record as SMT sees it.
LEMMA AtIs ==
  ASSUME NEW t \in Topic, NEW g \in Groups
  PROVE  At(g, t) = [group |-> g, thread |-> t.thread]
<1>1. t = [group |-> t.group, thread |-> t.thread] /\ DOMAIN t = {"group", "thread"}
  BY DEF Topic
<1>2. At(g, t) = [x \in {"group", "thread"} |-> IF x = "group" THEN g ELSE t[x]]
  BY <1>1, Zenon DEF At
<1> QED
  BY <1>2

LEMMA AtFacts ==
  ASSUME NEW t \in Topic, NEW g \in Groups
  PROVE  /\ At(g, t) \in Topic /\ At(g, t).group = g /\ At(g, t).thread = t.thread
         /\ t.group \in Groups /\ (t.group = g => At(g, t) = t)
BY AtIs DEF Topic

LEMMA SameNumber ==
  ASSUME NEW s \in Topic, NEW t \in Topic, s.thread = t.thread
  PROVE  /\ t = At(t.group, s) /\ At(s.group, t) = s
         /\ (s.group = t.group => s = t)
BY AtIs DEF Topic

LEMMA NoneFacts == None \notin Nodes /\ None \notin Topic /\ First \in Groups /\ Ensurers \cap Rebuilders = {}
BY TopicsAssumption

LEMMA FaultsFacts ==
  /\ 0 \in 0..MaxFaults
  /\ \A k \in 0..MaxFaults : k < MaxFaults => k + 1 \in 0..MaxFaults
BY TopicsAssumption

-----------------------------------------------------------------------------
(* Type correctness.                                                       *)

Ensuring == {"lookup", "create", "bind", "record", "tell"}
Holding  == {"bind", "record", "tell"}

\* Whoever ensures has a node, and from its creation on a topic.
Located ==
  \A p \in Procs :
    /\ pc[p] \in Ensuring => node[p] \in Nodes
    /\ pc[p] \in Holding => tid[p] \in Topic

Typed == TypeOK /\ Located

LEMMA InitTyped == Init => Typed
<1> SUFFICES ASSUME Init PROVE Typed
  OBVIOUS
<1>1. NoBinding \in [Nodes -> Topic \cup {None}] /\ NoRecord \in [Topic -> Nodes \cup {None}]
  BY DEF NoBinding, NoRecord
<1>2. made \in [Topic -> Nodes \cup {None}] /\ record \in [Topic -> Nodes \cup {None}]
  BY <1>1 DEF Init
<1>3. bound \in [Nodes -> Topic \cup {None}] /\ told \in [Nodes -> Topic \cup {None}]
  BY <1>1 DEF Init
<1>4. exists \in SUBSET Topic /\ group \in Groups /\ present \in SUBSET Nodes
  BY TopicsAssumption DEF Init
<1>5. /\ pc = [p \in Procs |-> "idle"]
      /\ node \in [Procs -> Nodes \cup {None}] /\ tid \in [Procs -> Topic \cup {None}]
  BY DEF Init
<1>6. /\ forum \in [Rebuilders -> Groups \cup {None}] /\ nodes \in [Rebuilders -> SUBSET Nodes]
      /\ wasBound \in [Rebuilders -> [Nodes -> Topic \cup {None}]]
      /\ wasFor \in [Rebuilders -> [Topic -> Nodes \cup {None}]]
      /\ kept \in [Rebuilders -> SUBSET Nodes]
  BY <1>1 DEF Init
<1>7. lost \in SUBSET Topic /\ calm \in BOOLEAN /\ faults \in 0..MaxFaults
  BY FaultsFacts DEF Init
<1> QED
  BY <1>2, <1>3, <1>4, <1>5, <1>6, <1>7 DEF Typed, TypeOK, Located, Ensuring, Holding, Stages

\* What a step does to the control of its goroutine.
LEMMA CalmTyped ==
  ASSUME TypeOK, NEW p \in Procs, Calm(p) \/ Fault
  PROVE  calm' \in BOOLEAN /\ faults' \in 0..MaxFaults
<1>1. calm \in BOOLEAN /\ faults \in 0..MaxFaults
  BY DEF TypeOK
<1>2. CASE Calm(p)
  <2>1. calm' = (calm /\ p \in Rebuilders)
    BY <1>2 DEF Calm
  <2>2. calm' \in BOOLEAN
    BY <2>1, Zenon
  <2> QED
    BY <2>2, <1>1, <1>2 DEF Calm
<1>3. CASE Fault
  BY <1>1, <1>3, FaultsFacts DEF Fault
<1> QED
  BY <1>2, <1>3

LEMMA MoveTyped ==
  ASSUME Typed, NEW p \in Procs, NEW from, NEW to, Move(p, from, to),
         to \in Stages,
         node' \in [Procs -> Nodes \cup {None}], tid' \in [Procs -> Topic \cup {None}],
         \A q \in Procs \ {p} : node'[q] = node[q] /\ tid'[q] = tid[q],
         to \in Ensuring => node'[p] \in Nodes,
         to \in Holding => tid'[p] \in Topic
  PROVE  /\ Located'
         /\ pc' \in [Procs -> Stages]
         /\ pc'[p] = to /\ \A q \in Procs \ {p} : pc'[q] = pc[q]
BY DEF Typed, TypeOK, Located, Move, Stages

LEMMA ReturnTyped ==
  ASSUME Typed, NEW p \in Procs, NEW from, Return(p, from)
  PROVE  /\ Located'
         /\ pc' \in [Procs -> Stages]
         /\ node' \in [Procs -> Nodes \cup {None}] /\ tid' \in [Procs -> Topic \cup {None}]
<1> DEFINE to == IF p \in Rebuilders THEN "serve" ELSE "done"
<1>1. Move(p, from, to) /\ to \in {"serve", "done"}
  BY DEF Return
<1>2. node' \in [Procs -> Nodes \cup {None}] /\ tid' \in [Procs -> Topic \cup {None}]
      /\ \A q \in Procs \ {p} : node'[q] = node[q] /\ tid'[q] = tid[q]
  BY DEF Return, Typed, TypeOK
<1> HIDE DEF to
<1> QED
  BY <1>1, <1>2, MoveTyped DEF Ensuring, Holding, Stages

\* A step that leaves the topic a goroutine has where it is.
LEMMA StaysTyped ==
  ASSUME Typed, NEW p \in Procs, NEW from, NEW to \in Stages, Move(p, from, to),
         UNCHANGED <<node, tid>>,
         from \in Ensuring \/ to \notin Ensuring, from \in Holding \/ to \notin Holding
  PROVE  Located' /\ pc' \in [Procs -> Stages] /\ node' = node /\ tid' = tid
<1>1. node' \in [Procs -> Nodes \cup {None}] /\ tid' \in [Procs -> Topic \cup {None}]
  BY DEF Typed, TypeOK
<1>2. (to \in Ensuring => node'[p] \in Nodes) /\ (to \in Holding => tid'[p] \in Topic)
  BY DEF Typed, Located, Move
<1> QED
  BY <1>1, <1>2, MoveTyped

LEMMA NewTopicTyped ==
  ASSUME TypeOK, NEW t \in Topic, NEW n \in Nodes, NewTopic(t, n)
  PROVE  made' \in [Topic -> Nodes \cup {None}] /\ exists' \in SUBSET Topic
BY DEF TypeOK, NewTopic

LEMMA EnsureTyped ==
  ASSUME Typed, NEW p \in Procs, Ensure(p)
  PROVE  Typed'
<1> USE DEF Typed
<1>1. CASE IsBound(p)
  BY <1>1, ReturnTyped, CalmTyped DEF IsBound, TypeOK, tables, locals
<1>2. CASE IsUnbound(p)
  <2>1. Located' /\ pc' \in [Procs -> Stages]
    BY <1>2, StaysTyped DEF IsUnbound, Ensuring, Holding, Stages
  <2> QED
    BY <2>1, <1>2, CalmTyped DEF IsUnbound, TypeOK, tables, locals
<1>3. CASE Create(p)
  <2>1. PICK t \in Topic : NewTopic(t, node[p]) /\ tid' = [tid EXCEPT ![p] = t]
    BY <1>3 DEF Create
  <2>2. node[p] \in Nodes
    BY <1>3 DEF Create, Move, Located, Ensuring
  <2>3. tid' \in [Procs -> Topic \cup {None}] /\ tid'[p] = t /\ \A q \in Procs \ {p} : tid'[q] = tid[q]
    BY <2>1 DEF TypeOK
  <2>4. Located' /\ pc' \in [Procs -> Stages]
    BY <2>2, <2>3, <1>3, MoveTyped DEF Create, TypeOK, Stages
  <2> QED
    BY <2>1, <2>2, <2>3, <2>4, <1>3, CalmTyped, NewTopicTyped DEF Create, TypeOK, tables, locals
<1>4. CASE CreateFails(p)
  <2>1. node[p] \in Nodes
    BY <1>4 DEF CreateFails, Return, Move, Located, Ensuring
  <2>2. made' \in [Topic -> Nodes \cup {None}] /\ exists' \in SUBSET Topic /\ lost' \in SUBSET Topic
    BY <2>1, <1>4, NewTopicTyped DEF CreateFails, TypeOK
  <2> QED
    BY <2>2, <1>4, ReturnTyped, CalmTyped DEF CreateFails, TypeOK, tables, locals
<1>5. CASE Bind(p)
  <2>1. Located' /\ pc' \in [Procs -> Stages]
    BY <1>5, StaysTyped DEF Bind, Ensuring, Holding, Stages
  <2>2. bound' \in [Nodes -> Topic \cup {None}]
    BY <1>5 DEF Bind, TypeOK
  <2> QED
    BY <2>1, <2>2, <1>5, CalmTyped DEF Bind, TypeOK, locals
<1>6. CASE Record(p)
  <2>1. Located' /\ pc' \in [Procs -> Stages]
    BY <1>6, StaysTyped DEF Record, Ensuring, Holding, Stages
  <2>2. record' \in [Topic -> Nodes \cup {None}]
    BY <1>6 DEF Record, TypeOK
  <2> QED
    BY <2>1, <2>2, <1>6, CalmTyped DEF Record, TypeOK, locals
<1>7. CASE Tell(p)
  <2>1. At(group, tid[p]) \in Topic
    BY <1>7, AtFacts DEF Tell, Return, Move, Located, Holding, TypeOK
  <2>2. told' \in [Nodes -> Topic \cup {None}]
    BY <2>1, <1>7 DEF Tell, TypeOK
  <2> QED
    BY <2>2, <1>7, ReturnTyped, CalmTyped DEF Tell, TypeOK, tables, locals
<1> QED
  BY <1>1, <1>2, <1>3, <1>4, <1>5, <1>6, <1>7 DEF Ensure

LEMMA StartTyped ==
  ASSUME Typed, NEW p \in Ensurers, NEW n \in Nodes, Start(p, n)
  PROVE  Typed'
<1>1. p \in Procs
  BY DEF Procs
<1>2. node' \in [Procs -> Nodes \cup {None}] /\ node'[p] = n /\ \A q \in Procs \ {p} : node'[q] = node[q]
  BY <1>1 DEF Start, Typed, TypeOK
<1>3. Located' /\ pc' \in [Procs -> Stages]
  BY <1>1, <1>2, MoveTyped DEF Start, Typed, TypeOK, Ensuring, Holding, Stages
<1> QED
  BY <1>1, <1>2, <1>3, CalmTyped DEF Start, Typed, TypeOK, locals

LEMMA BeginTyped ==
  ASSUME Typed, NEW r \in Rebuilders, NEW g \in Groups, Begin(r, g)
  PROVE  /\ Located' /\ pc' \in [Procs -> Stages]
         /\ forum' \in [Rebuilders -> Groups \cup {None}] /\ calm' \in BOOLEAN
<1>1. Located' /\ pc' \in [Procs -> Stages]
  BY StaysTyped DEF Begin, Ensuring, Holding, Stages, Procs
<1> QED
  BY <1>1 DEF Begin, Typed, TypeOK

LEMMA HeldTids ==
  ASSUME Typed
  PROVE  {tid[p] : p \in {q \in Procs : pc[q] \in {"bind", "record"}}} \subseteq Topic
BY DEF Typed, Located, Holding

LEMMA RebuildTyped ==
  ASSUME Typed, NEW r \in Rebuilders, Rebuild(r)
  PROVE  Typed'
<1> USE DEF Typed
<1>0. r \in Procs
  BY DEF Procs
<1>1. CASE RebuildOnDemand(r)
  BY <1>1, BeginTyped DEF RebuildOnDemand, Begin, TypeOK, tables
<1>2. ASSUME NEW g \in Groups, applyForumBind(r, g) PROVE Typed'
  BY <1>2, BeginTyped, HeldTids DEF applyForumBind, Begin, TypeOK, tables
<1>3. CASE CopyBindings(r)
  <2>1. Located' /\ pc' \in [Procs -> Stages]
    BY <1>0, <1>3, StaysTyped DEF CopyBindings, Ensuring, Holding, Stages
  <2>2. record' \in [Topic -> Nodes \cup {None}]
    BY <1>3 DEF CopyBindings, TypeOK
  <2> QED
    BY <2>1, <2>2, <1>0, <1>3, CalmTyped DEF CopyBindings, TypeOK, locals
<1>4. CASE ReadNodes(r)
  <2>1. Located' /\ pc' \in [Procs -> Stages]
    BY <1>0, <1>4, StaysTyped DEF ReadNodes, Ensuring, Holding, Stages
  <2> QED
    BY <2>1, <1>0, <1>4, CalmTyped DEF ReadNodes, TypeOK, tables
<1>5. CASE ListTopics(r)
  <2>1. Located' /\ pc' \in [Procs -> Stages]
    BY <1>0, <1>5, StaysTyped DEF ListTopics, Ensuring, Holding, Stages
  <2>2. wasFor' \in [Rebuilders -> [Topic -> Nodes \cup {None}]]
    BY <1>5 DEF ListTopics, TypeOK
  <2> QED
    BY <2>1, <2>2, <1>0, <1>5, CalmTyped DEF ListTopics, TypeOK, tables
<1>6. CASE Serve(r)
  <2>1. Located' /\ pc' \in [Procs -> Stages]
    BY <1>0, <1>6, StaysTyped DEF Serve, Ensuring, Holding, Stages
  <2> QED
    BY <2>1, <1>0, <1>6, CalmTyped DEF Serve, TypeOK, tables, locals
<1>7. CASE End(r)
  <2>1. Located' /\ pc' \in [Procs -> Stages]
    BY <1>0, <1>7, StaysTyped DEF End, Ensuring, Holding, Stages
  <2>2. NoBinding \in [Nodes -> Topic \cup {None}]
    BY DEF NoBinding
  <2>3. /\ forum' \in [Rebuilders -> Groups \cup {None}] /\ nodes' \in [Rebuilders -> SUBSET Nodes]
        /\ wasBound' \in [Rebuilders -> [Nodes -> Topic \cup {None}]]
        /\ kept' \in [Rebuilders -> SUBSET Nodes]
    BY <2>2, <1>7 DEF End, Forget, TypeOK
  <2> QED
    BY <2>1, <2>3, <1>0, <1>7, CalmTyped DEF End, TypeOK, tables
<1>8. ASSUME NEW t \in Topic, KeepTopic(r, t) \/ KeepUnchecked(r, t) \/ DropTopic(r, t)
      PROVE  Typed'
  <2>1. Visit(r, t) /\ UNCHANGED <<node, tid>>
    BY <1>8 DEF KeepTopic, KeepUnchecked, DropTopic
  <2>2. Located' /\ pc' \in [Procs -> Stages]
    BY <2>1, <1>0, StaysTyped DEF Visit, Ensuring, Holding, Stages
  <2>3. wasFor' \in [Rebuilders -> [Topic -> Nodes \cup {None}]] /\ wasFor[r][t] \in Nodes
    BY <2>1 DEF Visit, TypeOK
  <2>4. calm' \in BOOLEAN /\ faults' \in 0..MaxFaults
    BY <1>0, <1>8, CalmTyped DEF KeepTopic, KeepUnchecked, DropTopic
  <2>5. kept' \in [Rebuilders -> SUBSET Nodes]
    BY <2>3, <1>8 DEF KeepTopic, KeepUnchecked, DropTopic, Keep, TypeOK
  <2>6. told' \in [Nodes -> Topic \cup {None}]
    BY <2>3, <1>8 DEF KeepTopic, KeepUnchecked, DropTopic, TypeOK
  <2>7. record' \in [Topic -> Nodes \cup {None}] /\ exists' \in SUBSET Topic /\ lost' \in SUBSET Topic
    BY <1>8 DEF KeepTopic, KeepUnchecked, DropTopic, TypeOK, tables
  <2>8. UNCHANGED <<made, group, present, bound, node, tid, forum, nodes, wasBound>>
    BY <1>8 DEF KeepTopic, KeepUnchecked, DropTopic, tables
  <2> QED
    BY <2>2, <2>3, <2>4, <2>5, <2>6, <2>7, <2>8 DEF TypeOK
<1>9. ASSUME NEW n \in Nodes, ClearBinding(r, n) PROVE Typed'
  <2>1. node' \in [Procs -> Nodes \cup {None}] /\ node'[r] = n /\ \A q \in Procs \ {r} : node'[q] = node[q]
    BY <1>0, <1>9 DEF ClearBinding, TypeOK
  <2>2. Located' /\ pc' \in [Procs -> Stages]
    BY <2>1, <1>0, <1>9, MoveTyped DEF ClearBinding, TypeOK, Ensuring, Holding, Stages
  <2>3. bound' \in [Nodes -> Topic \cup {None}] /\ kept' \in [Rebuilders -> SUBSET Nodes]
    BY <1>9 DEF ClearBinding, TypeOK
  <2> QED
    BY <2>1, <2>2, <2>3, <1>0, <1>9, CalmTyped DEF ClearBinding, TypeOK
<1> QED
  BY <1>1, <1>2, <1>3, <1>4, <1>5, <1>6, <1>7, <1>8, <1>9 DEF Rebuild

LEMMA CrashTyped ==
  ASSUME Typed, Crash
  PROVE  Typed'
<1>1. pc' \in [Procs -> Stages] /\ \A p \in Procs : pc'[p] \in {"idle", "done"}
  BY DEF Crash, Stages
<1>2. /\ node' \in [Procs -> Nodes \cup {None}] /\ tid' \in [Procs -> Topic \cup {None}]
      /\ lost' \in SUBSET Topic
  BY HeldTids DEF Crash, Typed, TypeOK
<1>3. NoBinding \in [Nodes -> Topic \cup {None}] /\ NoRecord \in [Topic -> Nodes \cup {None}]
  BY DEF NoBinding, NoRecord
<1>4. /\ forum' \in [Rebuilders -> Groups \cup {None}] /\ nodes' \in [Rebuilders -> SUBSET Nodes]
      /\ wasBound' \in [Rebuilders -> [Nodes -> Topic \cup {None}]]
      /\ wasFor' \in [Rebuilders -> [Topic -> Nodes \cup {None}]]
      /\ kept' \in [Rebuilders -> SUBSET Nodes]
  BY <1>3 DEF Crash
<1>5. calm' \in BOOLEAN /\ faults' \in 0..MaxFaults
  BY FaultsFacts DEF Crash, Fault, Typed, TypeOK
<1> QED
  BY <1>1, <1>2, <1>4, <1>5 DEF Crash, Typed, TypeOK, Located, tables, Ensuring, Holding

LEMMA OutsideTyped ==
  ASSUME Typed, (\E n \in Nodes : DeleteNode(n)) \/ \E t \in Topic : UserDeletes(t)
  PROVE  Typed'
<1>1. ASSUME NEW n \in Nodes, DeleteNode(n) PROVE Typed'
  <2>1. bound' \in [Nodes -> Topic \cup {None}] /\ present' \in SUBSET Nodes
    BY <1>1 DEF DeleteNode, Typed, TypeOK
  <2> QED
    BY <2>1, <1>1 DEF DeleteNode, Typed, TypeOK, Located, locals
<1>2. ASSUME NEW t \in Topic, UserDeletes(t) PROVE Typed'
  BY <1>2, FaultsFacts DEF UserDeletes, Fault, Typed, TypeOK, Located, tables, locals
<1> QED
  BY <1>1, <1>2

LEMMA TypedInductive == Spec => []Typed
<1>1. Init => Typed
  BY InitTyped
<1>2. Typed /\ [Next]_vars => Typed'
  <2> SUFFICES ASSUME Typed, [Next]_vars PROVE Typed'
    OBVIOUS
  <2>1. CASE Next
    BY <2>1, EnsureTyped, StartTyped, RebuildTyped, OutsideTyped, CrashTyped DEF Next
  <2>2. CASE UNCHANGED vars
    BY <2>2 DEF vars, tables, locals, Typed, TypeOK, Located
  <2> QED
    BY <2>1, <2>2
<1> QED
  BY <1>1, <1>2, PTL DEF Spec

\* Tables, agents and the copies a rebuild works with stay typed, through
\* every overlap of ensureNodeForumTopic, forumTopicsRebuild, deleteNode and
\* the death of the Master: each number anybody holds is that of a topic.
THEOREM TopicsTypeCorrect == Spec => []TypeOK
<1>1. Typed => TypeOK
  BY DEF Typed
<1> QED
  BY <1>1, TypedInductive, PTL

-----------------------------------------------------------------------------
(* Topics are their nodes' own.                                            *)

BoundOwn  == \A n \in Nodes : bound[n] # None => made[bound[n]] = n
ToldOwn   == \A n \in Nodes : told[n] # None => IsOf(told[n], n)
RecordOwn == \A t \in Topic : record[t] # None => IsOf(t, record[t])
HeldOwn   == \A p \in Procs : pc[p] \in Holding => made[tid[p]] = node[p]
ListOwn   == \A r \in Rebuilders : \A t \in Topic : wasFor[r][t] # None => IsOf(t, wasFor[r][t])

\* What tables, agents and goroutines have of a topic is its node; a rebuild's
\* copy may be old, but a topic does not change its node.
Own == BoundOwn /\ ToldOwn /\ RecordOwn /\ HeldOwn /\ ListOwn

MadeGrows == \A t \in Topic : made[t] # None => made'[t] = made[t]

LEMMA StaysOf ==
  ASSUME MadeGrows, NEW t \in Topic, NEW n \in Nodes, IsOf(t, n)
  PROVE  IsOf(t, n)'
<1>1. n # None
  BY NoneFacts
<1>2. CASE made[t] = n
  BY <1>1, <1>2 DEF MadeGrows, IsOf
<1>3. CASE \E g \in Groups \ {t.group} : made[At(g, t)] = n
  <2>1. PICK g \in Groups \ {t.group} : made[At(g, t)] = n
    BY <1>3
  <2>2. At(g, t) \in Topic
    BY AtFacts
  <2>3. made'[At(g, t)] = n
    BY <1>1, <2>1, <2>2 DEF MadeGrows
  <2> QED
    BY <2>3 DEF IsOf, At
<1> QED
  BY <1>2, <1>3 DEF IsOf

\* A number is one's own in every group.
LEMMA NumberIsOwn ==
  ASSUME NEW t \in Topic, NEW g \in Groups, NEW n \in Nodes, made[t] = n
  PROVE  IsOf(At(g, t), n)
<1>1. CASE t.group = g
  BY <1>1, AtFacts DEF IsOf
<1>2. CASE t.group # g
  <2>1. At(g, t) \in Topic /\ At(g, t).group = g /\ At(g, t).thread = t.thread /\ t.group \in Groups
    BY AtFacts
  <2>2. At(t.group, At(g, t)) = t
    BY <2>1, SameNumber
  <2> QED
    BY <1>2, <2>1, <2>2 DEF IsOf
<1> QED
  BY <1>1, <1>2

LEMMA NewTopicGrows ==
  ASSUME TypeOK, NEW t \in Topic, NEW n \in Nodes, NewTopic(t, n)
  PROVE  MadeGrows /\ made'[t] = n /\ made[t] = None /\ t.group = group /\ t \notin Foreign
         /\ exists' = exists \cup {t}
BY DEF TypeOK, NewTopic, MadeGrows

LEMMA StepGrows ==
  ASSUME Typed, Next
  PROVE  MadeGrows
<1>1. ASSUME NEW p \in Procs, Create(p) \/ CreateFails(p) PROVE MadeGrows
  <2>1. node[p] \in Nodes
    BY <1>1 DEF Create, CreateFails, Return, Move, Typed, Located, Ensuring
  <2>2. made' = made \/ \E t \in Topic : NewTopic(t, node[p])
    BY <1>1 DEF Create, CreateFails
  <2> QED
    BY <2>1, <2>2, NewTopicGrows DEF MadeGrows, Typed
<1>2. ASSUME NEW p \in Procs, Ensure(p) PROVE MadeGrows
  <2>1. CASE ~(Create(p) \/ CreateFails(p))
    BY <1>2, <2>1 DEF Ensure, IsBound, IsUnbound, Bind, Record, Tell, MadeGrows
  <2> QED
    BY <1>1, <2>1
<1>3. ASSUME NEW r \in Rebuilders, Rebuild(r) PROVE MadeGrows
  BY <1>3 DEF Rebuild, RebuildOnDemand, applyForumBind, Begin, CopyBindings, ReadNodes, ListTopics,
              Serve, End, KeepTopic, KeepUnchecked, DropTopic, ClearBinding, MadeGrows
<1> QED
  BY <1>2, <1>3 DEF Next, Start, DeleteNode, UserDeletes, Crash, MadeGrows

\* What a step does not touch stays its node's own.
LEMMA OwnFrame ==
  ASSUME Typed, Own, MadeGrows
  PROVE  /\ UNCHANGED bound => BoundOwn'
         /\ UNCHANGED told => ToldOwn'
         /\ UNCHANGED record => RecordOwn'
         /\ UNCHANGED wasFor => ListOwn'
<1> USE DEF Typed, TypeOK, Own
<1>1. UNCHANGED bound => BoundOwn'
  <2> SUFFICES ASSUME UNCHANGED bound, NEW n \in Nodes, bound[n] # None PROVE made'[bound[n]] = n
    BY DEF BoundOwn
  <2> QED
    BY NoneFacts DEF BoundOwn, MadeGrows
<1>2. UNCHANGED told => ToldOwn'
  <2> SUFFICES ASSUME UNCHANGED told, NEW n \in Nodes, told[n] # None PROVE IsOf(told[n], n)'
    BY Zenon DEF ToldOwn
  <2>1. IsOf(told[n], n) /\ told[n] \in Topic
    BY DEF ToldOwn
  <2>2. \A t \in Topic : IsOf(t, n) => IsOf(t, n)'
    BY StaysOf
  <2> DEFINE P(t) == IsOf(t, n)'
  <2>3. P(told[n])
    BY <2>1, <2>2
  <2>4. told'[n] = told[n]
    OBVIOUS
  <2> QED
    BY <2>3, <2>4, Zenon DEF IsOf
<1>3. UNCHANGED record => RecordOwn'
  <2> SUFFICES ASSUME UNCHANGED record, NEW t \in Topic, record[t] # None PROVE IsOf(t, record[t])'
    BY Zenon DEF RecordOwn
  <2>1. IsOf(t, record[t]) /\ record[t] \in Nodes
    BY DEF RecordOwn
  <2> QED
    BY <2>1, StaysOf
<1>4. UNCHANGED wasFor => ListOwn'
  <2> SUFFICES ASSUME UNCHANGED wasFor, NEW r \in Rebuilders, NEW t \in Topic, wasFor[r][t] # None
               PROVE  IsOf(t, wasFor[r][t])'
    BY Zenon DEF ListOwn
  <2>1. IsOf(t, wasFor[r][t]) /\ wasFor[r][t] \in Nodes
    BY DEF ListOwn
  <2> QED
    BY <2>1, StaysOf
<1> QED
  BY <1>1, <1>2, <1>3, <1>4

\* One goroutine moves, and if it holds a topic then its node's.
Others(p) == \A q \in Procs \ {p} : pc'[q] = pc[q] /\ node'[q] = node[q] /\ tid'[q] = tid[q]

LEMMA HeldFrame ==
  ASSUME Typed, Own, MadeGrows, NEW p \in Procs, Others(p),
         pc'[p] \in Holding => made'[tid'[p]] = node'[p]
  PROVE  HeldOwn'
<1> SUFFICES ASSUME NEW q \in Procs, pc'[q] \in Holding PROVE made'[tid'[q]] = node'[q]
  BY DEF HeldOwn
<1>1. CASE q = p
  BY <1>1
<1>2. CASE q # p
  <2>1. pc[q] \in Holding /\ node'[q] = node[q] /\ tid'[q] = tid[q]
    BY <1>2 DEF Others
  <2>2. tid[q] \in Topic /\ node[q] \in Nodes /\ made[tid[q]] = node[q]
    BY <2>1 DEF Typed, Located, Own, HeldOwn, Ensuring, Holding
  <2>3. made[tid[q]] # None
    BY <2>2, NoneFacts
  <2> QED
    BY <2>1, <2>2, <2>3 DEF MadeGrows
<1> QED
  BY <1>1, <1>2

\* Two ways in which it comes to that.
LEMMA MoveOthers ==
  ASSUME Typed, NEW p \in Procs, NEW from, NEW to, Move(p, from, to)
  PROVE  /\ UNCHANGED <<node, tid>> => Others(p)
         /\ pc'[p] = to /\ pc[p] = from
BY DEF Move, Others, Typed, TypeOK

LEMMA ReturnOthers ==
  ASSUME Typed, NEW p \in Procs, NEW from, Return(p, from)
  PROVE  Others(p) /\ pc'[p] \in {"serve", "done"} /\ pc[p] = from
BY DEF Return, Move, Others, Typed, TypeOK

LEMMA HeldKept ==
  ASSUME Typed, Own, MadeGrows, NEW p \in Procs, Others(p),
         pc[p] \in Holding, UNCHANGED <<node, tid>>
  PROVE  made'[tid'[p]] = node'[p]
<1>1. tid[p] \in Topic /\ node[p] \in Nodes /\ made[tid[p]] = node[p]
  BY DEF Typed, Located, Own, HeldOwn, Ensuring, Holding
<1>2. made[tid[p]] # None
  BY <1>1, NoneFacts
<1> QED
  BY <1>1, <1>2 DEF MadeGrows

LEMMA InitOwn == Init => Own
BY DEF Init, Own, BoundOwn, ToldOwn, RecordOwn, HeldOwn, ListOwn, Holding, NoBinding, NoRecord

LEMMA EnsureOwn ==
  ASSUME Typed, Own, NEW p \in Procs, Ensure(p)
  PROVE  Own'
<1>0. MadeGrows
  BY StepGrows DEF Next
<1>1. CASE IsBound(p)
  <2>1. Others(p) /\ pc'[p] \notin Holding
    BY <1>1, ReturnOthers DEF IsBound, Holding
  <2> QED
    BY <1>0, <1>1, <2>1, HeldFrame, OwnFrame DEF IsBound, Own, tables, locals
<1>2. CASE IsUnbound(p)
  <2>1. Others(p) /\ pc'[p] \notin Holding
    BY <1>2, MoveOthers DEF IsUnbound, Holding
  <2> QED
    BY <1>0, <1>2, <2>1, HeldFrame, OwnFrame DEF IsUnbound, Own, tables, locals
<1>3. CASE Create(p)
  <2>1. PICK t \in Topic : NewTopic(t, node[p]) /\ tid' = [tid EXCEPT ![p] = t]
    BY <1>3 DEF Create
  <2>2. node[p] \in Nodes
    BY <1>3 DEF Create, Move, Typed, Located, Ensuring
  <2>3. made'[t] = node[p] /\ tid'[p] = t /\ node'[p] = node[p]
    BY <2>1, <2>2, <1>3, NewTopicGrows DEF Create, Typed, TypeOK
  <2>4. Others(p)
    BY <2>1, <1>3 DEF Create, Move, Others, Typed, TypeOK
  <2> QED
    BY <1>0, <1>3, <2>3, <2>4, HeldFrame, OwnFrame DEF Create, Own, tables, locals
<1>4. CASE CreateFails(p)
  <2>1. Others(p) /\ pc'[p] \notin Holding
    BY <1>4, ReturnOthers DEF CreateFails, Holding
  <2> QED
    BY <1>0, <1>4, <2>1, HeldFrame, OwnFrame DEF CreateFails, Own, tables, locals
<1>5. CASE Bind(p)
  <2>1. Others(p) /\ pc[p] \in Holding /\ UNCHANGED <<node, tid>>
    BY <1>5, MoveOthers DEF Bind, Holding
  <2>2. made'[tid'[p]] = node'[p]
    BY <1>0, <2>1, HeldKept
  <2>3. BoundOwn'
    <3> SUFFICES ASSUME NEW n \in Nodes, bound'[n] # None PROVE made'[bound'[n]] = n
      BY DEF BoundOwn
    <3>1. CASE bound'[n] = bound[n]
      BY <1>0, <3>1, NoneFacts DEF MadeGrows, Own, BoundOwn, Typed, TypeOK
    <3>2. CASE bound'[n] # bound[n]
      <4>1. n = node[p] /\ bound'[n] = tid[p]
        BY <3>2, <1>5 DEF Bind, Typed, TypeOK
      <4> QED
        BY <4>1, <2>2, <2>1
    <3> QED
      BY <3>1, <3>2
  <2> QED
    BY <1>0, <1>5, <2>1, <2>2, <2>3, HeldFrame, OwnFrame DEF Bind, Own, locals
<1>6. CASE Record(p)
  <2>1. Others(p) /\ pc[p] \in Holding /\ UNCHANGED <<node, tid, made>>
    BY <1>6, MoveOthers DEF Record, Holding
  <2>2. made'[tid'[p]] = node'[p]
    BY <1>0, <2>1, HeldKept
  <2>3. tid[p] \in Topic /\ node[p] \in Nodes /\ made[tid[p]] = node[p] /\ group \in Groups
    BY <2>1 DEF Typed, TypeOK, Located, Own, HeldOwn, Ensuring, Holding
  <2>4. RecordOwn'
    <3> SUFFICES ASSUME NEW t \in Topic, record'[t] # None PROVE IsOf(t, record[t])'
      BY Zenon DEF RecordOwn
    <3>1. CASE record'[t] = record[t]
      <4>1. IsOf(t, record[t]) /\ record[t] \in Nodes
        BY <3>1 DEF Own, RecordOwn, Typed, TypeOK
      <4> QED
        BY <1>0, <3>1, <4>1, StaysOf
    <3>2. CASE record'[t] # record[t]
      <4>1. t = At(group, tid[p]) /\ record'[t] = node[p]
        BY <3>2, <1>6 DEF Record, Typed, TypeOK
      <4>2. IsOf(t, node[p])
        BY <4>1, <2>3, NumberIsOwn
      <4>3. IsOf(t, node[p])'
        BY <4>2, <2>1 DEF IsOf
      <4> QED
        BY <4>1, <4>3, <2>1
    <3> QED
      BY <3>1, <3>2
  <2> QED
    BY <1>0, <1>6, <2>1, <2>2, <2>4, HeldFrame, OwnFrame DEF Record, Own, locals
<1>7. CASE Tell(p)
  <2>1. Others(p) /\ pc'[p] \notin Holding /\ pc[p] = "tell"
    BY <1>7, ReturnOthers DEF Tell, Holding
  <2>2. tid[p] \in Topic /\ node[p] \in Nodes /\ made[tid[p]] = node[p] /\ group \in Groups
    BY <2>1 DEF Typed, TypeOK, Located, Own, HeldOwn, Ensuring, Holding
  <2>3. ToldOwn'
    <3> SUFFICES ASSUME NEW n \in Nodes, told'[n] # None PROVE IsOf(told[n], n)'
      BY Zenon DEF ToldOwn
    <3>1. CASE told' = told
      BY <1>0, <3>1, OwnFrame DEF ToldOwn
    <3>2. CASE told' = [told EXCEPT ![node[p]] = At(group, tid[p])]
      <4>1. CASE n = node[p]
        <5>1. told'[n] = At(group, tid[p])
          BY <3>2, <4>1 DEF Typed, TypeOK
        <5>2. IsOf(At(group, tid[p]), n) /\ made' = made
          BY <4>1, <2>2, <1>7, NumberIsOwn DEF Tell
        <5> QED
          BY <5>1, <5>2 DEF IsOf
      <4>2. CASE n # node[p]
        <5>1. told'[n] = told[n] /\ told[n] # None /\ made' = made
          BY <3>2, <4>2, <1>7 DEF Tell, Typed, TypeOK
        <5>2. IsOf(told[n], n)
          BY <5>1 DEF Own, ToldOwn
        <5> QED
          BY <5>1, <5>2 DEF IsOf
      <4> QED
        BY <4>1, <4>2
    <3> QED
      BY <3>1, <3>2, <1>7 DEF Tell
  <2> QED
    BY <1>0, <1>7, <2>1, <2>3, HeldFrame, OwnFrame DEF Tell, Own, tables, locals
<1> QED
  BY <1>1, <1>2, <1>3, <1>4, <1>5, <1>6, <1>7 DEF Ensure

LEMMA StartOwn ==
  ASSUME Typed, Own, NEW p \in Ensurers, NEW n \in Nodes, Start(p, n)
  PROVE  Own'
<1>0. MadeGrows /\ p \in Procs
  BY StepGrows DEF Next, Procs
<1>1. Others(p) /\ pc'[p] \notin Holding
  BY <1>0 DEF Start, Move, Others, Typed, TypeOK, Holding
<1> QED
  BY <1>0, <1>1, HeldFrame, OwnFrame DEF Start, Own, locals

LEMMA RebuildOwn ==
  ASSUME Typed, Own, NEW r \in Rebuilders, Rebuild(r)
  PROVE  Own'
<1>0. MadeGrows /\ r \in Procs
  BY StepGrows DEF Next, Procs
<1>1. CASE RebuildOnDemand(r) \/ \E g \in Groups : applyForumBind(r, g)
  <2>1. PICK g \in Groups : Begin(r, g)
    BY <1>1 DEF RebuildOnDemand, applyForumBind, Typed, TypeOK
  <2>2. Others(r) /\ pc'[r] \notin Holding
    BY <1>0, <2>1, MoveOthers DEF Begin, Holding
  <2> QED
    BY <1>0, <2>1, <2>2, HeldFrame, OwnFrame DEF Begin, Own, tables
<1>2. CASE CopyBindings(r)
  <2>1. Others(r) /\ pc'[r] \notin Holding
    BY <1>0, <1>2, MoveOthers DEF CopyBindings, Holding
  <2>2. RecordOwn'
    <3> SUFFICES ASSUME NEW t \in Topic, record'[t] # None PROVE IsOf(t, record[t])'
      BY Zenon DEF RecordOwn
    <3>1. CASE record'[t] = record[t]
      <4>1. IsOf(t, record[t]) /\ record[t] \in Nodes
        BY <3>1 DEF Own, RecordOwn, Typed, TypeOK
      <4> QED
        BY <1>0, <3>1, <4>1, StaysOf
    <3>2. CASE record'[t] # record[t]
      <4>1. record'[t] \in Nodes /\ HasNumber(bound, record'[t], t)
        BY <3>2, <1>2 DEF CopyBindings, Typed, TypeOK
      <4>2. PICK n \in Nodes : n = record'[t] /\ HasNumber(bound, n, t)
        BY <4>1
      <4>3. bound[n] \in Topic /\ bound[n].thread = t.thread /\ made[bound[n]] = n
        BY <4>2 DEF HasNumber, Own, BoundOwn, Typed, TypeOK
      <4>4. t = At(t.group, bound[n]) /\ t.group \in Groups
        BY <4>3, SameNumber, AtFacts, <1>0 DEF Topic
      <4>5. IsOf(t, n)
        BY <4>3, <4>4, NumberIsOwn
      <4>6. IsOf(t, n)'
        BY <4>5, <1>2 DEF IsOf, CopyBindings
      <4> QED
        BY <4>2, <4>6
    <3> QED
      BY <3>1, <3>2
  <2> QED
    BY <1>0, <1>2, <2>1, <2>2, HeldFrame, OwnFrame DEF CopyBindings, Own, locals
<1>3. CASE ReadNodes(r)
  <2>1. Others(r) /\ pc'[r] \notin Holding
    BY <1>0, <1>3, MoveOthers DEF ReadNodes, Holding
  <2> QED
    BY <1>0, <1>3, <2>1, HeldFrame, OwnFrame DEF ReadNodes, Own, tables
<1>4. CASE ListTopics(r)
  <2>1. Others(r) /\ pc'[r] \notin Holding
    BY <1>0, <1>4, MoveOthers DEF ListTopics, Holding
  <2>2. ListOwn'
    <3> SUFFICES ASSUME NEW s \in Rebuilders, NEW t \in Topic, wasFor'[s][t] # None
                 PROVE  IsOf(t, wasFor[s][t])'
      BY Zenon DEF ListOwn
    <3>1. wasFor'[s][t] = wasFor[s][t] \/ wasFor'[s][t] = record[t]
      BY <1>4 DEF ListTopics, Typed, TypeOK
    <3>2. IsOf(t, wasFor'[s][t])
      BY <3>1 DEF Own, ListOwn, RecordOwn
    <3>3. made' = made
      BY <1>4 DEF ListTopics
    <3> QED
      BY <3>2, <3>3 DEF IsOf
  <2> QED
    BY <1>0, <1>4, <2>1, <2>2, HeldFrame, OwnFrame DEF ListTopics, Own, tables
<1>5. CASE Serve(r)
  <2>1. Others(r) /\ pc'[r] \notin Holding
    BY <1>0, <1>5, MoveOthers DEF Serve, Holding
  <2> QED
    BY <1>0, <1>5, <2>1, HeldFrame, OwnFrame DEF Serve, Own, tables, locals
<1>6. CASE End(r)
  <2>1. Others(r) /\ pc'[r] \notin Holding
    BY <1>0, <1>6, MoveOthers DEF End, Holding
  <2> QED
    BY <1>0, <1>6, <2>1, HeldFrame, OwnFrame DEF End, Own, tables
<1>7. ASSUME NEW t \in Topic, KeepTopic(r, t) \/ KeepUnchecked(r, t) \/ DropTopic(r, t)
      PROVE  Own'
  <2>1. Visit(r, t) /\ UNCHANGED <<node, tid, made, bound>>
    BY <1>7 DEF KeepTopic, KeepUnchecked, DropTopic, tables
  <2>2. Others(r) /\ pc'[r] \notin Holding
    BY <1>0, <2>1, MoveOthers DEF Visit, Holding
  <2>3. wasFor[r][t] \in Nodes /\ IsOf(t, wasFor[r][t])
    BY <2>1 DEF Visit, Own, ListOwn, Typed, TypeOK
  <2>4. ListOwn'
    <3> SUFFICES ASSUME NEW s \in Rebuilders, NEW u \in Topic, wasFor'[s][u] # None
                 PROVE  IsOf(u, wasFor[s][u])'
      BY Zenon DEF ListOwn
    <3>1. wasFor'[s][u] = wasFor[s][u]
      BY <2>1 DEF Visit, Typed, TypeOK
    <3>2. IsOf(u, wasFor'[s][u])
      BY <3>1 DEF Own, ListOwn
    <3> QED
      BY <3>2, <2>1 DEF IsOf
  <2>5. ToldOwn'
    <3> SUFFICES ASSUME NEW n \in Nodes, told'[n] # None PROVE IsOf(told[n], n)'
      BY Zenon DEF ToldOwn
    <3>1. told'[n] = told[n] \/ (told'[n] = t /\ n = wasFor[r][t])
      BY <1>7, <2>3 DEF KeepTopic, KeepUnchecked, DropTopic, Typed, TypeOK
    <3>2. IsOf(told'[n], n)
      BY <3>1, <2>3 DEF Own, ToldOwn
    <3> QED
      BY <3>2, <2>1 DEF IsOf
  <2>6. RecordOwn'
    <3> SUFFICES ASSUME NEW u \in Topic, record'[u] # None PROVE IsOf(u, record[u])'
      BY Zenon DEF RecordOwn
    <3>1. record'[u] = record[u]
      BY <1>7 DEF KeepTopic, KeepUnchecked, DropTopic, Typed, TypeOK, tables
    <3>2. IsOf(u, record'[u])
      BY <3>1 DEF Own, RecordOwn
    <3> QED
      BY <3>2, <2>1 DEF IsOf
  <2> QED
    BY <1>0, <2>1, <2>2, <2>4, <2>5, <2>6, HeldFrame, OwnFrame DEF Own
<1>8. ASSUME NEW n \in Nodes, ClearBinding(r, n) PROVE Own'
  <2>1. Others(r) /\ pc'[r] \notin Holding
    BY <1>0, <1>8 DEF ClearBinding, Move, Others, Typed, TypeOK, Holding
  <2>2. BoundOwn'
    <3> SUFFICES ASSUME NEW m \in Nodes, bound'[m] # None PROVE made'[bound'[m]] = m
      BY DEF BoundOwn
    <3>1. bound'[m] = bound[m] /\ made' = made
      BY <1>8 DEF ClearBinding, Typed, TypeOK
    <3> QED
      BY <3>1 DEF Own, BoundOwn
  <2> QED
    BY <1>0, <1>8, <2>1, <2>2, HeldFrame, OwnFrame DEF ClearBinding, Own
<1> QED
  BY <1>1, <1>2, <1>3, <1>4, <1>5, <1>6, <1>7, <1>8 DEF Rebuild

LEMMA OutsideOwn ==
  ASSUME Typed, Own, Crash \/ (\E n \in Nodes : DeleteNode(n)) \/ \E t \in Topic : UserDeletes(t)
  PROVE  Own'
<1>0. MadeGrows
  BY StepGrows DEF Next
<1>1. CASE Crash
  <2>1. HeldOwn'
    BY <1>1 DEF Crash, HeldOwn, Holding
  <2>2. ListOwn'
    BY <1>1 DEF Crash, ListOwn, NoRecord
  <2> QED
    BY <1>0, <1>1, <2>1, <2>2, OwnFrame DEF Crash, Own, tables
<1>2. ASSUME NEW n \in Nodes, DeleteNode(n) PROVE Own'
  <2>1. BoundOwn'
    <3> SUFFICES ASSUME NEW m \in Nodes, bound'[m] # None PROVE made'[bound'[m]] = m
      BY DEF BoundOwn
    <3>1. bound'[m] = bound[m] /\ made' = made
      BY <1>2 DEF DeleteNode, Typed, TypeOK
    <3> QED
      BY <3>1 DEF Own, BoundOwn
  <2>2. HeldOwn'
    BY <1>2 DEF DeleteNode, Own, HeldOwn
  <2> QED
    BY <1>0, <1>2, <2>1, <2>2, OwnFrame DEF DeleteNode, Own, locals
<1>3. ASSUME NEW t \in Topic, UserDeletes(t) PROVE Own'
  <2>1. HeldOwn'
    BY <1>3 DEF UserDeletes, Own, HeldOwn
  <2> QED
    BY <1>0, <1>3, <2>1, OwnFrame DEF UserDeletes, Own, tables, locals
<1> QED
  BY <1>1, <1>2, <1>3

LEMMA OwnInductive == Spec => []Own
<1>1. Init => Own
  BY InitOwn
<1>2. Typed /\ Own /\ [Next]_vars => Own'
  <2> SUFFICES ASSUME Typed, Own, [Next]_vars PROVE Own'
    OBVIOUS
  <2>1. CASE Next
    BY <2>1, EnsureOwn, StartOwn, RebuildOwn, OutsideOwn DEF Next
  <2>2. CASE UNCHANGED vars
    BY <2>2 DEF vars, tables, locals, Own, BoundOwn, ToldOwn, RecordOwn, HeldOwn, ListOwn, IsOf
  <2> QED
    BY <2>1, <2>2
<1> QED
  BY <1>1, <1>2, TypedInductive, PTL DEF Spec

\* A node's messages never go to another node's topic, and none is recorded
\* as a node's that is not, whatever ensures, rebuilds, changes of the group
\* and deletions overlap - but for a number's topic in another group.
THEOREM TopicsAreOwn == Spec => []OwnTopic
<1>1. Own => OwnTopic
  BY DEF Own, BoundOwn, ToldOwn, RecordOwn, OwnTopic
<1> QED
  BY <1>1, OwnInductive, PTL

-----------------------------------------------------------------------------
(* Topics are accounted for.                                               *)

InHand(p) == pc[p] \in {"bind", "record"}

\* A topic in somebody's hand will be recorded under its own group, or it is
\* one that could not be.
RightGroup == \A p \in Procs : InHand(p) => tid[p].group = group \/ tid[p] \in lost

Tracked == Accounted /\ RightGroup

\* What is recorded or in hand stays so, or is lost or gone.
LEMMA AccountedFrame ==
  ASSUME Accounted, lost \subseteq lost', exists' \subseteq exists,
         \A t \in exists' : record[t] # None => record'[t] # None \/ t \in lost',
         \A p \in Procs : InHand(p) => InHand(p)' /\ tid'[p] = tid[p]
  PROVE  Accounted'
BY DEF Accounted, InHand

LEMMA HandsFrame ==
  ASSUME Typed, NEW p \in Procs, Others(p), ~InHand(p), ~InHand(p)'
  PROVE  /\ \A q \in Procs : InHand(q) => InHand(q)' /\ tid'[q] = tid[q]
         /\ \A q \in Procs : InHand(q)' => InHand(q) /\ tid'[q] = tid[q]
BY DEF Others, InHand

\* Steps of a goroutine with nothing in hand.
LEMMA QuietTracked ==
  ASSUME Typed, Tracked, NEW p \in Procs, Others(p), ~InHand(p), ~InHand(p)', group' = group,
         lost \subseteq lost', exists' \subseteq exists,
         \A t \in exists' : record[t] # None => record'[t] # None \/ t \in lost'
  PROVE  Tracked'
<1>1. /\ \A q \in Procs : InHand(q) => InHand(q)' /\ tid'[q] = tid[q]
      /\ \A q \in Procs : InHand(q)' => InHand(q) /\ tid'[q] = tid[q]
  BY HandsFrame
<1>2. Accounted'
  BY <1>1, AccountedFrame DEF Tracked
<1>3. RightGroup'
  BY <1>1 DEF Tracked, RightGroup
<1> QED
  BY <1>2, <1>3 DEF Tracked

LEMMA EnsureTracked ==
  ASSUME Typed, Tracked, NEW p \in Procs, Ensure(p)
  PROVE  Tracked'
<1>1. CASE IsBound(p)
  <2>1. Others(p) /\ ~InHand(p) /\ ~InHand(p)'
    BY <1>1, ReturnOthers DEF IsBound, InHand
  <2> QED
    BY <1>1, <2>1, QuietTracked DEF IsBound, tables
<1>2. CASE IsUnbound(p)
  <2>1. Others(p) /\ ~InHand(p) /\ ~InHand(p)'
    BY <1>2, MoveOthers DEF IsUnbound, InHand
  <2> QED
    BY <1>2, <2>1, QuietTracked DEF IsUnbound, tables
<1>3. CASE Create(p)
  <2>1. PICK t \in Topic : NewTopic(t, node[p]) /\ tid' = [tid EXCEPT ![p] = t]
    BY <1>3 DEF Create
  <2>2. node[p] \in Nodes /\ pc[p] = "create"
    BY <1>3 DEF Create, Move, Typed, Located, Ensuring
  <2>3. exists' = exists \cup {t} /\ t.group = group
    BY <2>1, <2>2, NewTopicGrows DEF Typed
  <2>4. pc'[p] = "bind" /\ tid'[p] = t /\ Others(p)
    BY <2>1, <1>3 DEF Create, Move, Others, Typed, TypeOK
  <2>5. UNCHANGED <<group, record, lost>>
    BY <1>3 DEF Create, tables
  <2>6. Accounted'
    <3> SUFFICES ASSUME NEW u \in exists' \ Foreign
                 PROVE  record'[u] # None \/ u \in lost' \/ \E q \in Procs : InHand(q)' /\ tid'[q] = u
      BY DEF Accounted, InHand
    <3>1. CASE u = t
      BY <3>1, <2>4 DEF InHand
    <3>2. CASE u # t
      <4>1. record[u] # None \/ u \in lost \/ \E q \in Procs : InHand(q) /\ tid[q] = u
        BY <3>2, <2>3 DEF Tracked, Accounted, InHand
      <4>2. \A q \in Procs : InHand(q) => InHand(q)' /\ tid'[q] = tid[q]
        BY <2>2, <2>4 DEF Others, InHand
      <4> QED
        BY <4>1, <4>2, <2>5
    <3> QED
      BY <3>1, <3>2
  <2>7. RightGroup'
    BY <2>3, <2>4, <2>5 DEF Tracked, RightGroup, InHand, Others
  <2> QED
    BY <2>6, <2>7 DEF Tracked
<1>4. CASE CreateFails(p)
  <2>1. Others(p) /\ ~InHand(p) /\ ~InHand(p)' /\ node[p] \in Nodes
    BY <1>4, ReturnOthers DEF CreateFails, InHand, Return, Move, Typed, Located, Ensuring
  <2>2. CASE UNCHANGED <<made, exists, lost>>
    BY <1>4, <2>1, <2>2, QuietTracked DEF CreateFails, tables
  <2>3. CASE \E t \in Topic : NewTopic(t, node[p]) /\ lost' = lost \cup {t}
    <3>1. PICK t \in Topic : NewTopic(t, node[p]) /\ lost' = lost \cup {t}
      BY <2>3
    <3>2. exists' = exists \cup {t}
      BY <3>1 DEF NewTopic
    <3>3. /\ \A q \in Procs : InHand(q) => InHand(q)' /\ tid'[q] = tid[q]
          /\ \A q \in Procs : InHand(q)' => InHand(q) /\ tid'[q] = tid[q]
      BY <2>1, HandsFrame
    <3>4. UNCHANGED <<group, record>>
      BY <1>4 DEF CreateFails, tables
    <3>5. Accounted'
      BY <3>1, <3>2, <3>3, <3>4 DEF Tracked, Accounted, InHand
    <3>6. RightGroup'
      BY <3>1, <3>3, <3>4 DEF Tracked, RightGroup
    <3> QED
      BY <3>5, <3>6 DEF Tracked
  <2> QED
    BY <1>4, <2>2, <2>3 DEF CreateFails
<1>5. CASE Bind(p)
  <2>1. Others(p) /\ pc[p] = "bind" /\ pc'[p] = "record" /\ UNCHANGED <<tid, group, exists, record, lost>>
    BY <1>5, MoveOthers DEF Bind
  <2>2. \A q \in Procs : (InHand(q)' <=> InHand(q)) /\ tid'[q] = tid[q]
    BY <2>1 DEF Others, InHand
  <2>3. Accounted'
    BY <2>1, <2>2, AccountedFrame DEF Tracked
  <2> QED
    BY <2>1, <2>2, <2>3 DEF Tracked, RightGroup
<1>6. CASE Record(p)
  <2>1. Others(p) /\ pc[p] = "record" /\ pc'[p] = "tell" /\ UNCHANGED <<tid, group, exists, lost>>
    BY <1>6, MoveOthers DEF Record
  <2>2. tid[p] \in Topic /\ node[p] \in Nodes /\ group \in Groups
    BY <2>1 DEF Typed, TypeOK, Located, Ensuring, Holding
  <2>3. record' = [record EXCEPT ![At(group, tid[p])] = node[p]]
    BY <1>6 DEF Record
  <2>4. \A t \in Topic : record[t] # None => record'[t] # None
    BY <2>2, <2>3, NoneFacts DEF Typed, TypeOK
  <2>5. tid[p].group = group => record'[tid[p]] # None
    BY <2>2, <2>3, NoneFacts, AtFacts DEF Typed, TypeOK
  <2>6. record'[tid[p]] # None \/ tid[p] \in lost'
    BY <2>1, <2>5 DEF Tracked, RightGroup, InHand
  <2>7. \A q \in Procs \ {p} : (InHand(q)' <=> InHand(q)) /\ tid'[q] = tid[q]
    BY <2>1 DEF Others, InHand
  <2>8. Accounted'
    <3> SUFFICES ASSUME NEW u \in exists' \ Foreign
                 PROVE  record'[u] # None \/ u \in lost' \/ \E q \in Procs : InHand(q)' /\ tid'[q] = u
      BY DEF Accounted, InHand
    <3>1. record[u] # None \/ u \in lost \/ \E q \in Procs : InHand(q) /\ tid[q] = u
      BY <2>1 DEF Tracked, Accounted, InHand
    <3>2. u \in Topic
      BY <2>1 DEF Typed, TypeOK
    <3> QED
      BY <3>1, <3>2, <2>1, <2>4, <2>6, <2>7
  <2>9. RightGroup'
    BY <2>1, <2>7 DEF Tracked, RightGroup, InHand
  <2> QED
    BY <2>8, <2>9 DEF Tracked
<1>7. CASE Tell(p)
  <2>1. Others(p) /\ ~InHand(p) /\ ~InHand(p)'
    BY <1>7, ReturnOthers DEF Tell, InHand
  <2> QED
    BY <1>7, <2>1, QuietTracked DEF Tell, tables
<1> QED
  BY <1>1, <1>2, <1>3, <1>4, <1>5, <1>6, <1>7 DEF Ensure

LEMMA RebuildTracked ==
  ASSUME Typed, Tracked, NEW r \in Rebuilders, Rebuild(r)
  PROVE  Tracked'
<1>0. r \in Procs
  BY DEF Procs
<1>1. CASE RebuildOnDemand(r)
  <2>1. Others(r) /\ ~InHand(r) /\ ~InHand(r)'
    BY <1>0, <1>1, MoveOthers DEF RebuildOnDemand, Begin, InHand
  <2> QED
    BY <1>0, <1>1, <2>1, QuietTracked DEF RebuildOnDemand, Begin, tables
<1>2. ASSUME NEW g \in Groups, applyForumBind(r, g) PROVE Tracked'
  <2>1. Others(r) /\ ~InHand(r) /\ ~InHand(r)'
    BY <1>0, <1>2, MoveOthers DEF applyForumBind, Begin, InHand
  <2>2. /\ \A q \in Procs : InHand(q) => InHand(q)' /\ tid'[q] = tid[q]
        /\ \A q \in Procs : InHand(q)' => InHand(q) /\ tid'[q] = tid[q]
    BY <1>0, <2>1, HandsFrame
  <2>3. lost' = lost \cup {tid[p] : p \in {q \in Procs : InHand(q)}}
    BY <1>2 DEF applyForumBind, InHand
  <2>4. UNCHANGED <<exists, record>>
    BY <1>2 DEF applyForumBind, Begin, tables
  <2>5. Accounted'
    BY <2>2, <2>3, <2>4, AccountedFrame DEF Tracked
  <2>6. RightGroup'
    BY <2>2, <2>3 DEF RightGroup
  <2> QED
    BY <2>5, <2>6 DEF Tracked
<1>3. CASE CopyBindings(r)
  <2>1. Others(r) /\ ~InHand(r) /\ ~InHand(r)'
    BY <1>0, <1>3, MoveOthers DEF CopyBindings, InHand
  <2>2. \A t \in Topic : record[t] # None => record'[t] # None
    BY <1>3 DEF CopyBindings
  <2> QED
    BY <1>0, <1>3, <2>1, <2>2, QuietTracked DEF CopyBindings, Typed, TypeOK
<1>4. CASE ReadNodes(r) \/ ListTopics(r) \/ Serve(r) \/ End(r)
  <2>1. Others(r) /\ ~InHand(r) /\ ~InHand(r)'
    BY <1>0, <1>4, MoveOthers DEF ReadNodes, ListTopics, Serve, End, InHand
  <2>2. UNCHANGED <<group, lost, exists, record>>
    BY <1>4 DEF ReadNodes, ListTopics, Serve, End, tables
  <2> QED
    BY <1>0, <2>1, <2>2, QuietTracked
<1>5. ASSUME NEW t \in Topic, KeepTopic(r, t) \/ KeepUnchecked(r, t) PROVE Tracked'
  <2>1. Visit(r, t) /\ UNCHANGED <<node, tid, group, lost, exists, record>>
    BY <1>5 DEF KeepTopic, KeepUnchecked, tables
  <2>2. Others(r) /\ ~InHand(r) /\ ~InHand(r)'
    BY <1>0, <2>1, MoveOthers DEF Visit, InHand
  <2> QED
    BY <1>0, <2>1, <2>2, QuietTracked
<1>6. ASSUME NEW t \in Topic, DropTopic(r, t) PROVE Tracked'
  <2>1. Visit(r, t) /\ UNCHANGED <<node, tid, group>>
    BY <1>6 DEF DropTopic
  <2>2. Others(r) /\ ~InHand(r) /\ ~InHand(r)'
    BY <1>0, <2>1, MoveOthers DEF Visit, InHand
  <2>3. \A u \in Topic \ {t} : record'[u] = record[u]
    BY <1>6 DEF DropTopic, Typed, TypeOK
  <2>4. lost \subseteq lost' /\ exists' \subseteq exists /\ (t \in exists' => t \in lost')
    BY <1>6 DEF DropTopic
  <2> QED
    BY <1>0, <2>1, <2>2, <2>3, <2>4, QuietTracked DEF Typed, TypeOK
<1>7. ASSUME NEW n \in Nodes, ClearBinding(r, n) PROVE Tracked'
  <2>1. Others(r) /\ ~InHand(r) /\ ~InHand(r)'
    BY <1>0, <1>7 DEF ClearBinding, Move, Others, Typed, TypeOK, InHand
  <2> QED
    BY <1>0, <1>7, <2>1, QuietTracked DEF ClearBinding
<1> QED
  BY <1>1, <1>2, <1>3, <1>4, <1>5, <1>6, <1>7 DEF Rebuild

LEMMA OtherTracked ==
  ASSUME Typed, Tracked,
         \/ \E p \in Ensurers, n \in Nodes : Start(p, n)
         \/ \E n \in Nodes : DeleteNode(n)
         \/ \E t \in Topic : UserDeletes(t)
         \/ Crash
  PROVE  Tracked'
<1>1. ASSUME NEW p \in Ensurers, NEW n \in Nodes, Start(p, n) PROVE Tracked'
  <2>1. p \in Procs
    BY DEF Procs
  <2>2. Others(p) /\ ~InHand(p) /\ ~InHand(p)'
    BY <1>1, <2>1 DEF Start, Move, Others, Typed, TypeOK, InHand
  <2> QED
    BY <1>1, <2>1, <2>2, QuietTracked DEF Start
<1>2. CASE (\E n \in Nodes : DeleteNode(n)) \/ \E t \in Topic : UserDeletes(t)
  <2>1. UNCHANGED <<pc, tid, group, record, lost>> /\ exists' \subseteq exists
    BY <1>2 DEF DeleteNode, UserDeletes, tables
  <2>2. Accounted'
    BY <2>1, AccountedFrame DEF Tracked, InHand
  <2> QED
    BY <2>1, <2>2 DEF Tracked, RightGroup, InHand
<1>3. CASE Crash
  <2>1. /\ lost' = lost \cup {tid[p] : p \in {q \in Procs : InHand(q)}}
        /\ UNCHANGED <<exists, record>> /\ \A p \in Procs : ~InHand(p)'
    BY <1>3 DEF Crash, InHand, tables
  <2>2. Accounted'
    BY <2>1 DEF Tracked, Accounted, InHand
  <2> QED
    BY <2>1, <2>2 DEF Tracked, RightGroup
<1> QED
  BY <1>1, <1>2, <1>3

LEMMA TrackedInductive == Spec => []Tracked
<1>1. Init => Tracked
  BY DEF Init, Tracked, Accounted, RightGroup, InHand
<1>2. Typed /\ Tracked /\ [Next]_vars => Tracked'
  <2> SUFFICES ASSUME Typed, Tracked, [Next]_vars PROVE Tracked'
    OBVIOUS
  <2>1. CASE Next
    BY <2>1, EnsureTracked, RebuildTracked, OtherTracked DEF Next
  <2>2. CASE UNCHANGED vars
    BY <2>2 DEF vars, tables, locals, Tracked, Accounted, RightGroup, InHand
  <2> QED
    BY <2>1, <2>2
<1> QED
  BY <1>1, <1>2, TypedInductive, PTL DEF Spec

\* A topic made for a node is recorded or about to be, whatever overlaps, or
\* else its creation's answer, its goroutine, its group or its deletion failed:
\* no rebuild and no deletion of a node makes the Master forget one by itself.
THEOREM TopicsAccounted == Spec => []Accounted
<1>1. Tracked => Accounted
  BY DEF Tracked
<1> QED
  BY <1>1, TrackedInductive, PTL

-----------------------------------------------------------------------------
(* What a calm rebuild restores.                                           *)

Busy(p) == pc[p] \notin {"idle", "done"}

\* In the calm one rebuild runs, and nothing else.
Alone == calm => \A p, q \in Procs : Busy(p) /\ Busy(q) => p = q /\ p \in Rebuilders

Existing == \A t \in exists : t \in Foreign \/ made[t] # None

\* A goroutine has a node while it ensures, a rebuild keeps none before it visits.
Unused ==
  /\ \A p \in Procs : pc[p] \notin Ensuring => node[p] = None
  /\ \A r \in Rebuilders : pc[r] \in {"idle", "copy", "read", "list"} => kept[r] = {}

InGroup == {t \in Topic : t.group = group}

\* A node that has a topic in the bound group.
Has(n) == bound[n] # None /\ told[n] = At(group, bound[n]) /\ told[n] \in exists /\ record[told[n]] = n

\* The list is what is still to be visited; what has been is a kept node's.
Visiting(r) ==
  /\ \A t \in Topic : wasFor[r][t] # None => t.group = group /\ record[t] = wasFor[r][t]
  /\ \A t \in InGroup : record[t] # None /\ wasFor[r][t] = None => record[t] \in kept[r] /\ told[record[t]] = t
  /\ \A n \in kept[r] : Has(n) /\ wasFor[r][told[n]] = None

\* The nodes that were kept or served have their topics, the next one has none.
Served(r) ==
  /\ \A n \in kept[r] \ {node[r]} : Has(n)
  /\ \A t \in InGroup : record[t] # None => record[t] \in kept[r]
  /\ \A t \in InGroup : record[t] \notin {None, node[r]} => told[record[t]] = t

Ensured(r) ==
  /\ node[r] \in kept[r]
  /\ pc[r] \in {"lookup", "create", "bind"} => bound[node[r]] = None
  /\ pc[r] \in {"record", "tell"} => bound[node[r]] = tid[r]
  /\ pc[r] \in Holding => tid[r] \in exists /\ tid[r] \in InGroup
  /\ pc[r] \in {"bind", "record"} => record[tid[r]] = None
  /\ pc[r] # "tell" => \A t \in InGroup : record[t] # node[r]
  /\ pc[r] = "tell" => \A t \in InGroup : record[t] = node[r] <=> t = tid[r]

Stage(r) ==
  /\ forum[r] = group
  /\ pc[r] \notin {"copy", "read"} => nodes[r] = present /\ kept[r] \subseteq present
  /\ pc[r] \in {"list", "visit"} => wasBound[r] = bound
  /\ pc[r] = "visit" => Visiting(r)
  /\ pc[r] = "serve" \/ pc[r] \in Ensuring => Served(r)
  /\ pc[r] \in Ensuring => Ensured(r)

Restored ==
  /\ \A n \in present : Has(n)
  /\ \A t \in InGroup : record[t] # None => record[t] \in present /\ told[record[t]] = t

Calmly ==
  calm => /\ \A r \in Rebuilders : Busy(r) => Stage(r)
          /\ (\A p \in Procs : ~Busy(p)) => Restored

\* The steps of a calm rebuild up to its visits.
LEMMA ReadStage ==
  ASSUME Typed, Unused, NEW r \in Rebuilders, Stage(r),
         CopyBindings(r) \/ ReadNodes(r) \/ ListTopics(r)
  PROVE  Busy(r)' /\ Stage(r)'
<1> USE DEF Typed, TypeOK
<1>0. r \in Procs
  BY DEF Procs
<1>1. CASE CopyBindings(r)
  <2>1. pc'[r] = "read" /\ UNCHANGED <<forum, group>>
    BY <1>0, <1>1 DEF CopyBindings, Move, locals
  <2> QED
    BY <2>1 DEF Stage, Busy, Ensuring
<1>2. CASE ReadNodes(r)
  <2>1. pc[r] = "read" /\ pc'[r] = "list" /\ UNCHANGED <<forum, group, present, bound, kept>>
        /\ nodes'[r] = present /\ wasBound'[r] = bound
    BY <1>0, <1>2 DEF ReadNodes, Move, tables
  <2>2. kept[r] = {}
    BY <2>1 DEF Unused
  <2> QED
    BY <2>1, <2>2 DEF Stage, Busy, Ensuring
<1>3. CASE ListTopics(r)
  <2>1. pc[r] = "list" /\ pc'[r] = "visit"
        /\ UNCHANGED <<forum, group, present, bound, record, told, exists, kept, nodes, wasBound>>
    BY <1>0, <1>3 DEF ListTopics, Move, tables
  <2>2. \A t \in Topic : wasFor'[r][t] = IF t.group = group THEN record[t] ELSE None
    BY <1>3 DEF ListTopics, Stage
  <2>3. kept[r] = {} /\ nodes[r] = present /\ wasBound[r] = bound /\ forum[r] = group
    BY <2>1 DEF Unused, Stage
  <2>4. Visiting(r)'
    BY <2>1, <2>2, <2>3 DEF Visiting, InGroup
  <2> QED
    BY <2>1, <2>3, <2>4 DEF Stage, Busy, Ensuring
<1> QED
  BY <1>1, <1>2, <1>3

LEMMA KeepStage ==
  ASSUME Typed, NEW r \in Rebuilders, Stage(r), NEW t \in Topic, KeepTopic(r, t), calm'
  PROVE  Busy(r)' /\ Stage(r)'
<1> USE DEF Typed, TypeOK
<1>0. r \in Procs
  BY DEF Procs
<1>1. pc[r] = "visit" /\ pc'[r] = "visit"
      /\ UNCHANGED <<forum, group, present, bound, record, exists, nodes, wasBound>>
  BY <1>0 DEF KeepTopic, Visit, Move, tables
<1>2. forum[r] = group /\ nodes[r] = present /\ kept[r] \subseteq present /\ wasBound[r] = bound /\ Visiting(r)
  BY <1>1 DEF Stage
<1>3. PICK n \in Nodes : n = wasFor[r][t]
  BY DEF KeepTopic, Visit
<1>4. n \in present /\ n \notin kept[r] /\ bound[n] # None /\ bound[n].thread = t.thread
  BY <1>2, <1>3 DEF KeepTopic, Keep, Matches, HasNumber
<1>5. t.group = group /\ record[t] = n
  BY <1>2, <1>3, NoneFacts DEF Visiting
<1>6. t = At(group, bound[n])
  BY <1>4, <1>5, SameNumber
<1>7. told' = [told EXCEPT ![n] = t]
  BY <1>3 DEF KeepTopic, Fault
<1>8. kept'[r] = kept[r] \cup {n}
  BY <1>3 DEF KeepTopic, Keep
<1>9. wasFor'[r][t] = None /\ \A u \in Topic \ {t} : wasFor'[r][u] = wasFor[r][u]
  BY DEF KeepTopic, Visit
<1>10. t \in exists
  BY DEF KeepTopic
<1>11. \A u \in Topic : wasFor'[r][u] # None => u.group = group /\ record[u] = wasFor'[r][u]
  BY <1>2, <1>9 DEF Visiting
<1>12. \A u \in InGroup : record[u] # None /\ wasFor'[r][u] = None => record[u] \in kept'[r] /\ told'[record[u]] = u
  BY <1>2, <1>4, <1>5, <1>7, <1>8, <1>9 DEF Visiting, InGroup
<1>13. \A m \in kept'[r] : Has(m)' /\ wasFor'[r][told'[m]] = None
  <2> SUFFICES ASSUME NEW m \in kept'[r] PROVE Has(m)' /\ wasFor'[r][told'[m]] = None
    OBVIOUS
  <2>1. CASE m = n
    <3>1. told'[m] = t
      BY <2>1, <1>7
    <3> QED
      BY <3>1, <2>1, <1>1, <1>4, <1>5, <1>6, <1>9, <1>10 DEF Has, At
  <2>2. CASE m # n
    <3>1. m \in kept[r] /\ m \in Nodes
      BY <2>2, <1>8
    <3>2. Has(m) /\ wasFor[r][told[m]] = None /\ told'[m] = told[m]
      BY <3>1, <2>2, <1>2, <1>7 DEF Visiting
    <3>3. told[m] \in Topic
      BY <3>2 DEF Has
    <3> QED
      BY <3>2, <3>3, <1>1, <1>9 DEF Has, At
  <2> QED
    BY <2>1, <2>2
<1>14. Visiting(r)'
  BY <1>1, <1>11, <1>12, <1>13 DEF Visiting, InGroup
<1> QED
  BY <1>1, <1>2, <1>4, <1>8, <1>14 DEF Stage, Busy, Ensuring

LEMMA DropStage ==
  ASSUME Typed, NEW r \in Rebuilders, Stage(r), NEW t \in Topic, DropTopic(r, t), calm'
  PROVE  Busy(r)' /\ Stage(r)'
<1> USE DEF Typed, TypeOK
<1>0. r \in Procs
  BY DEF Procs
<1>1. pc[r] = "visit" /\ pc'[r] = "visit"
      /\ UNCHANGED <<forum, group, present, bound, told, nodes, wasBound, kept>>
  BY <1>0 DEF DropTopic, Visit, Move
<1>2. forum[r] = group /\ nodes[r] = present /\ kept[r] \subseteq present /\ wasBound[r] = bound /\ Visiting(r)
  BY <1>1 DEF Stage
<1>3. exists' = exists \ {t}
  BY DEF DropTopic, Fault
<1>4. record'[t] = None /\ \A u \in Topic \ {t} : record'[u] = record[u]
  BY DEF DropTopic
<1>5. wasFor'[r][t] = None /\ \A u \in Topic \ {t} : wasFor'[r][u] = wasFor[r][u]
  BY DEF DropTopic, Visit
<1>6. wasFor[r][t] # None
  BY DEF DropTopic, Visit
<1>7. ASSUME NEW m \in kept[r] PROVE Has(m)' /\ wasFor'[r][told'[m]] = None
  <2>1. Has(m) /\ wasFor[r][told[m]] = None
    BY <1>2 DEF Visiting
  <2>2. told[m] # t /\ told[m] \in Topic
    BY <2>1, <1>6 DEF Has
  <2> QED
    BY <2>1, <2>2, <1>1, <1>3, <1>4, <1>5 DEF Has, At
<1>8. \A u \in Topic : wasFor'[r][u] # None => u.group = group /\ record'[u] = wasFor'[r][u]
  BY <1>2, <1>4, <1>5 DEF Visiting
<1>9. \A u \in InGroup : record'[u] # None /\ wasFor'[r][u] = None => record'[u] \in kept[r] /\ told[record'[u]] = u
  BY <1>2, <1>4, <1>5 DEF Visiting, InGroup
<1>10. Visiting(r)'
  BY <1>1, <1>7, <1>8, <1>9 DEF Visiting, InGroup
<1> QED
  BY <1>1, <1>2, <1>10 DEF Stage, Busy, Ensuring

\* From the visits to the nodes that are left.
LEMMA ServeStage ==
  ASSUME Typed, Unused, NEW r \in Rebuilders, Stage(r), Serve(r)
  PROVE  Busy(r)' /\ Stage(r)'
<1> USE DEF Typed, TypeOK
<1>0. r \in Procs
  BY DEF Procs
<1>1. /\ pc[r] = "visit" /\ pc'[r] = "serve"
      /\ UNCHANGED <<forum, group, present, bound, record, told, exists, nodes, kept, node>>
  BY <1>0 DEF Serve, Move, tables, locals
<1>2. node[r] = None /\ Visiting(r) /\ kept[r] \subseteq present
  BY <1>0, <1>1 DEF Unused, Ensuring, Stage
<1>3. \A t \in Topic : wasFor[r][t] = None
  BY DEF Serve, NoRecord
<1>4. Served(r)
  BY <1>2, <1>3, NoneFacts DEF Served, Visiting, InGroup
<1>5. Served(r)'
  BY <1>1, <1>4 DEF Served, Has, InGroup, At
<1> QED
  BY <1>1, <1>5 DEF Stage, Busy, Ensuring

LEMMA ClearStage ==
  ASSUME Typed, Unused, NEW r \in Rebuilders, Stage(r), NEW n \in Nodes, ClearBinding(r, n)
  PROVE  Busy(r)' /\ Stage(r)'
<1> USE DEF Typed, TypeOK
<1>0. r \in Procs
  BY DEF Procs
<1>1. /\ pc[r] = "serve" /\ pc'[r] = "lookup"
      /\ UNCHANGED <<forum, group, present, record, told, exists, nodes, tid>>
  BY <1>0 DEF ClearBinding, Move
<1>2. /\ node[r] = None /\ nodes[r] = present /\ kept[r] \subseteq present /\ Served(r)
      /\ forum[r] = group
  BY <1>0, <1>1 DEF Unused, Ensuring, Stage
<1>3. n \in present /\ n \notin kept[r] /\ n # None
  BY <1>2, NoneFacts DEF ClearBinding
<1>4. kept'[r] = kept[r] \cup {n} /\ node'[r] = n
  BY <1>0 DEF ClearBinding
<1>5. bound' = [bound EXCEPT ![n] = None]
  BY DEF ClearBinding
<1>6. \A m \in kept[r] : Has(m)
  BY <1>2, NoneFacts DEF Served
<1>7. \A m \in kept'[r] \ {n} : Has(m)'
  BY <1>1, <1>4, <1>5, <1>6 DEF Has, At
<1>8. \A t \in InGroup : record[t] # None => record[t] \in kept[r] /\ told[record[t]] = t
  BY <1>2 DEF Served
<1>9. Served(r)'
  BY <1>1, <1>4, <1>7, <1>8 DEF Served, InGroup
<1>10. Ensured(r)'
  BY <1>1, <1>3, <1>4, <1>5, <1>8 DEF Ensured, InGroup, Holding
<1> QED
  BY <1>1, <1>2, <1>3, <1>4, <1>9, <1>10 DEF Stage, Busy, Ensuring

LEMMA EndRestores ==
  ASSUME Typed, Unused, NEW r \in Rebuilders, Stage(r), End(r)
  PROVE  ~Busy(r)' /\ Restored'
<1> USE DEF Typed, TypeOK
<1>0. r \in Procs
  BY DEF Procs
<1>1. /\ pc[r] = "serve" /\ pc'[r] = "done"
      /\ UNCHANGED <<group, present, bound, record, told, exists>>
  BY <1>0 DEF End, Move, tables
<1>2. node[r] = None /\ nodes[r] = present /\ kept[r] \subseteq present /\ Served(r)
  BY <1>0, <1>1 DEF Unused, Ensuring, Stage
<1>3. kept[r] = present
  BY <1>2 DEF End
<1>4. Restored
  BY <1>2, <1>3, NoneFacts DEF Restored, Served
<1>5. Restored'
  BY <1>1, <1>4 DEF Restored, Has, InGroup, At
<1> QED
  BY <1>1, <1>5 DEF Busy

\* A node is served.
LEMMA EnsureStage ==
  ASSUME Typed, Unused, Existing, NEW r \in Rebuilders, Stage(r), Ensure(r), calm'
  PROVE  Busy(r)' /\ Stage(r)'
<1> USE DEF Typed, TypeOK
<1>0. r \in Procs
  BY DEF Procs
<1>1. pc[r] \in Ensuring /\ pc[r] \notin {"copy", "read", "list", "visit", "serve"}
  BY DEF Ensure, IsBound, IsUnbound, Create, CreateFails, Bind, Record, Tell, Return, Move, Ensuring
<1>2. forum[r] = group /\ nodes[r] = present /\ kept[r] \subseteq present /\ Served(r) /\ Ensured(r)
  BY <1>1 DEF Stage
<1>3. node[r] \in Nodes /\ node[r] \in kept[r] /\ node[r] \in present /\ node[r] # None
  BY <1>0, <1>1, <1>2, NoneFacts DEF Located, Ensured
<1>4. CASE IsBound(r)
  BY <1>0, <1>2, <1>4 DEF IsBound, Return, Move, Ensured
<1>5. CASE IsUnbound(r)
  <2>1. /\ pc[r] = "lookup" /\ pc'[r] = "create"
        /\ UNCHANGED <<forum, group, present, bound, record, told, exists, nodes, kept, node, tid>>
    BY <1>0, <1>5 DEF IsUnbound, Move, tables, locals
  <2>2. Served(r)'
    BY <1>2, <2>1 DEF Served, Has, InGroup, At
  <2>3. Ensured(r)'
    BY <1>2, <2>1 DEF Ensured, InGroup, Holding
  <2> QED
    BY <1>2, <2>1, <2>2, <2>3 DEF Stage, Busy, Ensuring
<1>6. CASE Create(r)
  <2>1. PICK t \in Topic : NewTopic(t, node[r]) /\ tid' = [tid EXCEPT ![r] = t]
    BY <1>6 DEF Create
  <2>2. made[t] = None /\ t.group = group /\ t \notin Foreign /\ exists' = exists \cup {t}
    BY <1>3, <2>1, NewTopicGrows
  <2>3. t \notin exists
    BY <2>2 DEF Existing
  <2>4. /\ pc[r] = "create" /\ pc'[r] = "bind" /\ tid'[r] = t
        /\ UNCHANGED <<forum, group, present, bound, record, told, nodes, kept, node>>
    BY <1>0, <2>1, <1>6 DEF Create, Move, tables, locals
  <2>5. record[t] = None
    <3>1. SUFFICES ASSUME record[t] # None PROVE FALSE
      OBVIOUS
    <3>2. record[t] # node[r]
      BY <1>2, <2>2, <2>4 DEF Ensured, InGroup
    <3>3. record[t] \in kept[r] \ {node[r]} /\ told[record[t]] = t
      BY <1>2, <2>2, <3>1, <3>2 DEF Served, InGroup
    <3>4. Has(record[t])
      BY <1>2, <3>3 DEF Served
    <3> QED
      BY <3>3, <3>4, <2>3 DEF Has
  <2>6. Served(r)'
    BY <1>2, <2>2, <2>4 DEF Served, Has, InGroup, At
  <2>7. Ensured(r)'
    BY <1>2, <2>2, <2>4, <2>5 DEF Ensured, InGroup, Holding
  <2> QED
    BY <1>2, <2>4, <2>6, <2>7 DEF Stage, Busy, Ensuring
<1>7. CASE CreateFails(r)
  BY <1>7 DEF CreateFails, Fault
<1>8. CASE Bind(r)
  <2>1. /\ pc[r] = "bind" /\ pc'[r] = "record"
        /\ UNCHANGED <<forum, group, present, record, told, exists, nodes, kept, node, tid>>
    BY <1>0, <1>8 DEF Bind, Move, locals
  <2>2. bound' = [bound EXCEPT ![node[r]] = tid[r]]
    BY <1>3, <1>8 DEF Bind
  <2>3. Served(r)'
    BY <1>2, <1>3, <2>1, <2>2 DEF Served, Has, InGroup, At
  <2>4. Ensured(r)'
    BY <1>2, <1>3, <2>1, <2>2 DEF Ensured, InGroup, Holding
  <2> QED
    BY <1>2, <2>1, <2>3, <2>4 DEF Stage, Busy, Ensuring
<1>9. CASE Record(r)
  <2>1. /\ pc[r] = "record" /\ pc'[r] = "tell"
        /\ UNCHANGED <<forum, group, present, bound, told, exists, nodes, kept, node, tid>>
    BY <1>0, <1>9 DEF Record, Move, locals
  <2>2. tid[r] \in Topic /\ tid[r].group = group /\ tid[r] \in exists /\ record[tid[r]] = None
        /\ bound[node[r]] = tid[r] /\ \A t \in InGroup : record[t] # node[r]
    BY <1>2, <2>1 DEF Ensured, Holding, InGroup
  <2>3. At(group, tid[r]) = tid[r]
    BY <2>2, AtFacts
  <2>4. record' = [record EXCEPT ![tid[r]] = node[r]]
    BY <2>3, <1>9 DEF Record
  <2>5. ASSUME NEW m \in kept'[r] \ {node'[r]} PROVE Has(m)'
    <3>1. m \in Nodes /\ Has(m)
      BY <1>2, <2>1, <2>5 DEF Served
    <3>2. told[m] # tid[r] /\ told[m] \in Topic
      BY <2>2, <3>1, NoneFacts DEF Has
    <3> QED
      BY <3>1, <3>2, <2>1, <2>4 DEF Has, At
  <2>6. \A t \in InGroup : record'[t] # None => record'[t] \in kept[r]
    BY <1>2, <1>3, <2>4 DEF Served, InGroup
  <2>7. \A t \in InGroup : record'[t] \notin {None, node[r]} => told[record'[t]] = t
    BY <1>2, <1>3, <2>2, <2>4 DEF Served, InGroup
  <2>8. Served(r)'
    BY <2>1, <2>5, <2>6, <2>7 DEF Served, InGroup
  <2>9. Ensured(r)'
    BY <1>3, <2>1, <2>2, <2>4 DEF Ensured, InGroup, Holding
  <2> QED
    BY <1>2, <2>1, <2>8, <2>9 DEF Stage, Busy, Ensuring
<1>10. CASE Tell(r)
  <2>1. /\ pc[r] = "tell" /\ pc'[r] = "serve" /\ node'[r] = None
        /\ UNCHANGED <<forum, group, present, bound, record, exists, nodes, kept>>
    BY <1>0, <1>10 DEF Tell, Return, Move, tables, locals
  <2>2. tid[r] \in Topic /\ tid[r].group = group /\ tid[r] \in exists
        /\ bound[node[r]] = tid[r] /\ \A t \in InGroup : record[t] = node[r] <=> t = tid[r]
    BY <1>2, <2>1 DEF Ensured, Holding, InGroup
  <2>3. At(group, tid[r]) = tid[r]
    BY <2>2, AtFacts
  <2>4. told' = [told EXCEPT ![node[r]] = tid[r]]
    BY <2>3, <1>10 DEF Tell, Fault
  <2>5. ASSUME NEW m \in kept[r] PROVE Has(m)'
    <3>1. CASE m = node[r]
      <4>1. told'[m] = tid[r] /\ record[tid[r]] = m /\ bound[m] = tid[r] /\ tid[r] # None
        BY <1>3, <2>2, <2>4, <3>1, NoneFacts DEF InGroup
      <4> QED
        BY <4>1, <2>1, <2>2, <2>3 DEF Has, At
    <3>2. CASE m # node[r]
      <4>1. m \in Nodes /\ Has(m) /\ told'[m] = told[m]
        BY <1>2, <2>4, <3>2 DEF Served
      <4> QED
        BY <4>1, <2>1 DEF Has, At
    <3> QED
      BY <3>1, <3>2
  <2>6. \A t \in InGroup : record[t] # None => record[t] \in kept[r] /\ told'[record[t]] = t
    BY <1>2, <1>3, <2>2, <2>4 DEF Served, InGroup
  <2>7. Served(r)'
    BY <2>1, <2>5, <2>6 DEF Served, InGroup
  <2> QED
    BY <1>2, <2>1, <2>7 DEF Stage, Busy, Ensuring
<1> QED
  BY <1>4, <1>5, <1>6, <1>7, <1>8, <1>9, <1>10 DEF Ensure

-----------------------------------------------------------------------------
(* The calm as an invariant.                                               *)

\* The steps of a goroutine that keep the calm: a rebuild's.
Undisturbed(r) == Rebuild(r) \/ Ensure(r)
Begins(r) == RebuildOnDemand(r) \/ \E g \in Groups : applyForumBind(r, g)

LEMMA StepKinds ==
  ASSUME Typed, Next
  PROVE  \/ \E p \in Ensurers : Ensure(p) /\ p \in Procs
         \/ \E p \in Ensurers, n \in Nodes : Start(p, n) /\ p \in Procs
         \/ \E r \in Rebuilders : Undisturbed(r) /\ r \in Procs
         \/ (\E n \in Nodes : DeleteNode(n)) \/ (\E t \in Topic : UserDeletes(t)) \/ Crash
BY DEF Next, Procs, Undisturbed

\* Only a rebuild that has begun in it, or is in it, is in the calm.
LEMMA CalmAfter ==
  ASSUME Typed, Next, calm'
  PROVE  \E r \in Rebuilders : r \in Procs /\ Undisturbed(r) /\ (Begins(r) \/ (calm /\ ~Begins(r)))
<1>1. CASE \E p \in Ensurers : Ensure(p) /\ p \in Procs
  BY <1>1, NoneFacts DEF Ensure, IsBound, IsUnbound, Create, CreateFails, Bind, Record, Tell, Calm, Fault
<1>2. CASE \E p \in Ensurers, n \in Nodes : Start(p, n) /\ p \in Procs
  BY <1>2, NoneFacts DEF Start, Calm
<1>3. ASSUME NEW r \in Rebuilders, Undisturbed(r), r \in Procs
      PROVE  Begins(r) \/ (calm /\ ~Begins(r))
  <2> SUFFICES ASSUME ~Begins(r) PROVE calm
    OBVIOUS
  <2>1. CASE Ensure(r)
    BY <2>1 DEF Ensure, IsBound, IsUnbound, Create, CreateFails, Bind, Record, Tell, Calm, Fault
  <2>2. CASE Rebuild(r)
    BY <2>2 DEF Begins, Rebuild, CopyBindings, ReadNodes, ListTopics, Serve, End, KeepTopic, KeepUnchecked,
                DropTopic, ClearBinding, Calm, Fault
  <2> QED
    BY <1>3, <2>1, <2>2 DEF Undisturbed
<1>4. CASE (\E n \in Nodes : DeleteNode(n)) \/ (\E t \in Topic : UserDeletes(t)) \/ Crash
  BY <1>4 DEF DeleteNode, UserDeletes, Crash, Fault
<1> QED
  BY <1>1, <1>2, <1>3, <1>4, StepKinds

\* A goroutine's step is its own, and it was busy unless it begins.
LEMMA UndisturbedMoves ==
  ASSUME Typed, NEW r \in Rebuilders, Undisturbed(r)
  PROVE  Others(r) /\ (~Begins(r) => Busy(r))
<1>0. r \in Procs
  BY DEF Procs
<1>1. CASE Ensure(r)
  <2>1. CASE IsBound(r) \/ CreateFails(r) \/ Tell(r)
    BY <1>0, <2>1, ReturnOthers DEF IsBound, CreateFails, Tell, Busy
  <2>2. CASE IsUnbound(r) \/ Bind(r) \/ Record(r)
    BY <1>0, <2>2, MoveOthers DEF IsUnbound, Bind, Record, Busy, locals
  <2>3. CASE Create(r)
    <3>1. PICK t \in Topic : tid' = [tid EXCEPT ![r] = t]
      BY <2>3 DEF Create
    <3> QED
      BY <1>0, <2>3, <3>1 DEF Create, Move, Others, Busy, Typed, TypeOK
  <2> QED
    BY <1>1, <2>1, <2>2, <2>3 DEF Ensure
<1>2. CASE Begins(r)
  BY <1>0, <1>2, MoveOthers DEF Begins, RebuildOnDemand, applyForumBind, Begin
<1>3. CASE CopyBindings(r) \/ ReadNodes(r) \/ ListTopics(r) \/ Serve(r) \/ End(r)
  BY <1>0, <1>3, MoveOthers DEF CopyBindings, ReadNodes, ListTopics, Serve, End, Busy
<1>4. ASSUME NEW t \in Topic, KeepTopic(r, t) \/ KeepUnchecked(r, t) \/ DropTopic(r, t)
      PROVE  Others(r) /\ Busy(r)
  <2>1. Visit(r, t) /\ UNCHANGED <<node, tid>>
    BY <1>4 DEF KeepTopic, KeepUnchecked, DropTopic
  <2> QED
    BY <1>0, <2>1, MoveOthers DEF Visit, Busy
<1>5. ASSUME NEW n \in Nodes, ClearBinding(r, n) PROVE Others(r) /\ Busy(r)
  BY <1>0, <1>5 DEF ClearBinding, Move, Others, Busy, Typed, TypeOK
<1> QED
  BY <1>1, <1>2, <1>3, <1>4, <1>5 DEF Undisturbed, Rebuild, Begins

LEMMA AloneStep ==
  ASSUME Typed, Alone, Next
  PROVE  Alone'
<1> SUFFICES ASSUME calm' PROVE \A p, q \in Procs : Busy(p)' /\ Busy(q)' => p = q /\ p \in Rebuilders
  BY DEF Alone
<1>1. PICK r \in Rebuilders : r \in Procs /\ Undisturbed(r) /\ (Begins(r) \/ (calm /\ ~Begins(r)))
  BY CalmAfter
<1>2. Others(r)
  BY <1>1, UndisturbedMoves
<1>3. \A p \in Procs \ {r} : ~Busy(p)
  <2>1. CASE Begins(r)
    BY <2>1 DEF Begins, RebuildOnDemand, applyForumBind, Begin, Busy
  <2>2. CASE calm /\ ~Begins(r)
    BY <1>1, <2>2, UndisturbedMoves DEF Alone
  <2> QED
    BY <1>1, <2>1, <2>2
<1> QED
  BY <1>2, <1>3 DEF Others, Busy

LEMMA ExistingStep ==
  ASSUME Typed, Existing, Next
  PROVE  Existing'
<1>0. MadeGrows
  BY StepGrows
<1>1. ASSUME exists' \subseteq exists PROVE Existing'
  BY <1>0, <1>1 DEF Existing, MadeGrows, Typed, TypeOK
<1>2. ASSUME NEW p \in Procs, Create(p) \/ CreateFails(p) PROVE Existing'
  <2>1. node[p] \in Nodes /\ node[p] # None
    BY <1>2, NoneFacts DEF Create, CreateFails, Return, Move, Typed, Located, Ensuring
  <2>2. exists' \subseteq exists \/ \E t \in Topic : NewTopic(t, node[p])
    BY <1>2 DEF Create, CreateFails
  <2>3. ASSUME NEW t \in Topic, NewTopic(t, node[p]) PROVE Existing'
    <3>1. exists' = exists \cup {t} /\ made'[t] # None
      BY <2>1, <2>3, NewTopicGrows DEF Typed
    <3> QED
      BY <1>0, <3>1 DEF Existing, MadeGrows, Typed, TypeOK
  <2> QED
    BY <2>2, <2>3, <1>1
<1>3. ASSUME NEW p \in Procs, Ensure(p) PROVE Existing'
  <2>1. CASE ~(Create(p) \/ CreateFails(p))
    BY <1>1, <1>3, <2>1 DEF Ensure, IsBound, IsUnbound, Bind, Record, Tell
  <2> QED
    BY <1>2, <2>1
<1>4. ASSUME NEW r \in Rebuilders, Rebuild(r) PROVE Existing'
  BY <1>1, <1>4 DEF Rebuild, RebuildOnDemand, applyForumBind, Begin, CopyBindings, ReadNodes, ListTopics,
              Serve, End, KeepTopic, KeepUnchecked, DropTopic, ClearBinding
<1> QED
  BY <1>1, <1>3, <1>4 DEF Next, Start, DeleteNode, UserDeletes, Crash

Early == {"idle", "copy", "read", "list"}

LEMMA UnusedFrame ==
  ASSUME Typed, Unused, NEW p \in Procs, Others(p),
         pc'[p] \in Ensuring \/ node'[p] = None,
         \A r \in Rebuilders \ {p} : kept'[r] = kept[r],
         p \in Rebuilders /\ pc'[p] \in Early => kept'[p] = {}
  PROVE  Unused'
<1>1. \A q \in Procs : pc'[q] \notin Ensuring => node'[q] = None
  BY DEF Unused, Others
<1>2. \A r \in Rebuilders : pc'[r] \in {"idle", "copy", "read", "list"} => kept'[r] = {}
  BY DEF Unused, Others, Early, Procs
<1> QED
  BY <1>1, <1>2 DEF Unused

LEMMA UnusedStep ==
  ASSUME Typed, Unused, Next
  PROVE  Unused'
<1> USE DEF Typed, TypeOK
<1>1. ASSUME NEW p \in Procs, Ensure(p) PROVE Unused'
  <2>1. CASE IsBound(p) \/ CreateFails(p) \/ Tell(p)
    <3>1. Others(p) /\ pc'[p] \in {"serve", "done"} /\ (p \in Rebuilders => pc'[p] = "serve")
      BY <2>1, ReturnOthers DEF IsBound, CreateFails, Tell, Return, Move
    <3>2. node'[p] = None /\ kept' = kept
      BY <2>1 DEF IsBound, CreateFails, Tell, Return, locals
    <3> QED
      BY <3>1, <3>2, UnusedFrame DEF Early
  <2>2. CASE IsUnbound(p) \/ Bind(p) \/ Record(p)
    <3>1. Others(p) /\ pc'[p] \in {"create", "record", "tell"} /\ kept' = kept
      BY <2>2, MoveOthers DEF IsUnbound, Bind, Record, locals
    <3> QED
      BY <3>1, UnusedFrame DEF Early, Ensuring
  <2>3. CASE Create(p)
    <3>1. PICK t \in Topic : tid' = [tid EXCEPT ![p] = t]
      BY <2>3 DEF Create
    <3>2. Others(p) /\ pc'[p] = "bind" /\ kept' = kept
      BY <2>3, <3>1 DEF Create, Move, Others, locals
    <3> QED
      BY <3>2, UnusedFrame DEF Early, Ensuring
  <2> QED
    BY <1>1, <2>1, <2>2, <2>3 DEF Ensure
<1>2. ASSUME NEW p \in Ensurers, NEW n \in Nodes, Start(p, n) PROVE Unused'
  <2>1. p \in Procs /\ p \notin Rebuilders
    BY NoneFacts DEF Procs
  <2>2. Others(p) /\ pc'[p] = "lookup" /\ kept' = kept
    BY <1>2, <2>1 DEF Start, Move, Others, locals
  <2> QED
    BY <2>1, <2>2, UnusedFrame DEF Ensuring
<1>3. ASSUME NEW r \in Rebuilders, Rebuild(r) PROVE Unused'
  <2>0. r \in Procs
    BY DEF Procs
  <2>1. CASE Begins(r) \/ CopyBindings(r) \/ ReadNodes(r) \/ ListTopics(r) \/ Serve(r)
    <3>1. PICK from \in Early \cup {"visit"}, to \in {"copy", "read", "list", "visit", "serve"} :
            Move(r, from, to) /\ (to \in Early => from \in Early)
      <4>1. CASE Begins(r)
        BY <4>1 DEF Begins, RebuildOnDemand, applyForumBind, Begin, Early
      <4>2. CASE CopyBindings(r)
        BY <4>2 DEF CopyBindings, Early
      <4>3. CASE ReadNodes(r)
        BY <4>3 DEF ReadNodes, Early
      <4>4. CASE ListTopics(r)
        BY <4>4 DEF ListTopics, Early
      <4>5. CASE Serve(r)
        BY <4>5 DEF Serve, Early
      <4> QED
        BY <2>1, <4>1, <4>2, <4>3, <4>4, <4>5
    <3>2. UNCHANGED <<node, tid, kept>>
      BY <2>1 DEF Begins, RebuildOnDemand, applyForumBind, Begin, CopyBindings, ReadNodes, ListTopics, Serve, locals
    <3>3. Others(r) /\ pc[r] = from /\ pc'[r] = to
      BY <2>0, <3>1, <3>2, MoveOthers
    <3>4. pc[r] \notin Ensuring /\ (pc'[r] \in Early => kept'[r] = {})
      BY <3>1, <3>2, <3>3 DEF Unused, Early, Ensuring
    <3>5. node'[r] = None
      BY <2>0, <3>2, <3>4 DEF Unused
    <3> QED
      BY <2>0, <3>2, <3>3, <3>4, <3>5, UnusedFrame
  <2>2. CASE End(r)
    <3>1. Others(r) /\ pc[r] \notin Ensuring /\ pc'[r] = "done" /\ node' = node /\ kept' = [kept EXCEPT ![r] = {}]
      BY <2>0, <2>2, MoveOthers DEF End, Forget, Ensuring
    <3> QED
      BY <2>0, <3>1, UnusedFrame DEF Unused
  <2>3. ASSUME NEW t \in Topic, KeepTopic(r, t) \/ KeepUnchecked(r, t) \/ DropTopic(r, t) PROVE Unused'
    <3>1. Visit(r, t) /\ UNCHANGED <<node, tid>> /\ \A s \in Rebuilders \ {r} : kept'[s] = kept[s]
      BY <2>3 DEF KeepTopic, KeepUnchecked, DropTopic, Keep
    <3>2. Others(r) /\ pc[r] \notin Ensuring /\ pc'[r] = "visit"
      BY <2>0, <3>1, MoveOthers DEF Visit, Ensuring
    <3> QED
      BY <2>0, <3>1, <3>2, UnusedFrame DEF Unused, Early
  <2>4. ASSUME NEW n \in Nodes, ClearBinding(r, n) PROVE Unused'
    <3>1. Others(r) /\ pc'[r] = "lookup" /\ \A s \in Rebuilders \ {r} : kept'[s] = kept[s]
      BY <2>0, <2>4 DEF ClearBinding, Move, Others
    <3> QED
      BY <2>0, <3>1, UnusedFrame DEF Ensuring, Early
  <2> QED
    BY <1>3, <2>1, <2>2, <2>3, <2>4 DEF Rebuild, Begins
<1>4. CASE (\E n \in Nodes : DeleteNode(n)) \/ \E t \in Topic : UserDeletes(t)
  BY <1>4 DEF DeleteNode, UserDeletes, Unused, locals
<1>5. CASE Crash
  BY <1>5 DEF Crash, Unused
<1> QED
  BY <1>1, <1>2, <1>3, <1>4, <1>5 DEF Next

LEMMA CalmlyStep ==
  ASSUME Typed, Alone, Existing, Unused, Calmly, Next
  PROVE  Calmly'
<1> SUFFICES ASSUME calm'
             PROVE  /\ \A r \in Rebuilders : Busy(r)' => Stage(r)'
                    /\ (\A p \in Procs : ~Busy(p)') => Restored'
  BY DEF Calmly
<1>1. PICK r \in Rebuilders : r \in Procs /\ Undisturbed(r) /\ (Begins(r) \/ (calm /\ ~Begins(r)))
  BY CalmAfter
<1>2. Alone' /\ Rebuilders \subseteq Procs
  BY AloneStep DEF Procs
\* Its own stage, or what it leaves, is all that is asked for.
<1>3. ASSUME Busy(r)', Stage(r)'
      PROVE  /\ \A s \in Rebuilders : Busy(s)' => Stage(s)'
             /\ (\A p \in Procs : ~Busy(p)') => Restored'
  <2>1. \A s \in Rebuilders : Busy(s)' => s = r
    BY <1>1, <1>2, <1>3 DEF Alone
  <2> QED
    BY <2>1, <1>1, <1>3
<1>4. CASE Begins(r)
  <2>1. PICK g \in Groups : Begin(r, g) /\ group' = g
    BY <1>4 DEF Begins, RebuildOnDemand, applyForumBind, Typed, TypeOK
  <2>2. pc'[r] = "copy" /\ forum'[r] = group'
    BY <1>1, <2>1 DEF Begin, Move, Typed, TypeOK
  <2>3. Busy(r)' /\ Stage(r)'
    BY <2>2 DEF Busy, Stage, Ensuring
  <2> QED
    BY <1>3, <2>3
<1>5. CASE calm /\ ~Begins(r)
  <2>1. Busy(r) /\ Stage(r)
    BY <1>1, <1>5, UndisturbedMoves DEF Calmly
  <2>2. CASE Ensure(r)
    BY <1>3, <2>1, <2>2, EnsureStage
  <2>3. CASE CopyBindings(r) \/ ReadNodes(r) \/ ListTopics(r)
    BY <1>3, <2>1, <2>3, ReadStage
  <2>4. CASE Serve(r)
    BY <1>3, <2>1, <2>4, ServeStage
  <2>5. CASE End(r)
    <3>1. ~Busy(r)' /\ Restored'
      BY <2>1, <2>5, EndRestores
    <3>2. \A s \in Rebuilders : ~Busy(s)'
      <4>1. \A s \in Rebuilders : Busy(s) => s = r
        BY <1>1, <1>2, <1>5, <2>1 DEF Alone
      <4> QED
        BY <3>1, <4>1, <1>1, <1>2, UndisturbedMoves DEF Others, Busy
    <3> QED
      BY <3>1, <3>2
  <2>6. ASSUME NEW t \in Topic, KeepTopic(r, t) \/ KeepUnchecked(r, t) \/ DropTopic(r, t)
        PROVE  Busy(r)' /\ Stage(r)'
    <3>1. ~KeepUnchecked(r, t)
      BY DEF KeepUnchecked, Fault
    <3> QED
      BY <2>1, <2>6, <3>1, KeepStage, DropStage
  <2>7. ASSUME NEW n \in Nodes, ClearBinding(r, n) PROVE Busy(r)' /\ Stage(r)'
    BY <2>1, <2>7, ClearStage
  <2> QED
    BY <1>1, <1>3, <1>5, <2>2, <2>3, <2>4, <2>5, <2>6, <2>7 DEF Undisturbed, Begins, Rebuild
<1> QED
  BY <1>1, <1>4, <1>5

CalmInv == Alone /\ Existing /\ Unused /\ Calmly

LEMMA CalmInductive == Spec => []CalmInv
<1>1. Init => CalmInv
  BY DEF Init, CalmInv, Alone, Existing, Unused, Calmly
<1>2. Typed /\ CalmInv /\ [Next]_vars => CalmInv'
  <2> SUFFICES ASSUME Typed, CalmInv, [Next]_vars PROVE CalmInv'
    OBVIOUS
  <2>1. CASE Next
    BY <2>1, AloneStep, ExistingStep, UnusedStep, CalmlyStep DEF CalmInv
  <2>2. CASE UNCHANGED vars
    BY <2>2 DEF vars, tables, locals, CalmInv, Alone, Existing, Unused, Calmly, Busy, Stage, Visiting, Served,
                Ensured, Restored, Has, InGroup, At
  <2> QED
    BY <2>1, <2>2
<1> QED
  BY <1>1, <1>2, TypedInductive, PTL DEF Spec

\* Whatever duplicates, deletions, crashes and changes of the group have left
\* in the tables: after a rebuild that nothing failed or came in between every
\* node has a topic of its own in the bound group, recorded as such, and no
\* other topic of a node is left there but lost ones.
THEOREM RebuildsRestore == Spec => []RebuildRestores
<1>1. Typed /\ CalmInv /\ Accounted => RebuildRestores
  <2> SUFFICES ASSUME Typed, CalmInv, Accounted, calm, \A p \in Procs : pc[p] \in {"idle", "done"}
               PROVE  /\ \A n \in present : bound[n] # None /\ told[n] = At(group, bound[n]) /\ told[n] \in exists
                      /\ \A t \in Topic : t.group = group =>
                           \A n \in Nodes : record[t] = n <=> n \in present /\ told[n] = t
                      /\ \A t \in exists \ (lost \cup Foreign) : t.group = group => \E n \in present : told[n] = t
    BY DEF RebuildRestores
  <2>1. Restored
    BY DEF CalmInv, Calmly, Busy
  <2>2. \A n \in present : bound[n] # None /\ told[n] = At(group, bound[n]) /\ told[n] \in exists
    BY <2>1 DEF Restored, Has
  <2>3. \A t \in Topic : t.group = group => \A n \in Nodes : record[t] = n <=> n \in present /\ told[n] = t
    BY <2>1, NoneFacts DEF Restored, Has, InGroup
  <2>4. ASSUME NEW t \in exists \ (lost \cup Foreign), t.group = group PROVE \E n \in present : told[n] = t
    <3>1. record[t] # None /\ t \in InGroup
      BY <2>4 DEF Accounted, InGroup, Typed, TypeOK
    <3> QED
      BY <2>1, <3>1 DEF Restored
  <2> QED
    BY <2>2, <2>3, <2>4
<1> QED
  BY <1>1, TypedInductive, CalmInductive, TopicsAccounted, PTL
=============================================================================
