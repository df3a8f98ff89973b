------------------------------- MODULE Topics -------------------------------
(***************************************************************************)
(* The forum topics of one owner's nodes: ensureNodeForumTopic, which runs *)
(* concurrently for a node after its auth (Hub.OnAuthed, a goroutine) and  *)
(* after a confirmed registration; forumTopicsRebuild, on demand or after  *)
(* applyForumBind has changed the forum group; deleteNode.                 *)
(* Source: internal/master/handlers.go.                                    *)
(*                                                                         *)
(* A topic is a thread of a group, numbered in the order Telegram creates  *)
(* them there.  What the Master and its tables keep of it is often the     *)
(* number only, which is then used with the group of the moment: At.       *)
(* Every database statement and every call to Telegram is a step; calls to *)
(* Telegram may fail.                                                      *)
(***************************************************************************)
EXTENDS Naturals, FiniteSets

CONSTANTS
  Nodes,      \* the owner's nodes
  Ensurers,   \* runs of ensureNodeForumTopic after an auth or a registration
  Rebuilders, \* runs of forumTopicsRebuild
  Groups,     \* forum groups
  First,      \* the one that is bound at first
  MaxThreads, \* bound: topics Telegram ever creates in a group
  MaxFaults,  \* bound: calls that fail, topics users delete, deaths of the Master
  Foreign,    \* topics that others have made in these groups
  None        \* no node, no topic

Threads == 1..MaxThreads
Topic   == [group : Groups, thread : Threads]
Procs   == Ensurers \cup Rebuilders

ASSUME TopicsAssumption ==
  /\ MaxThreads \in Nat /\ MaxFaults \in Nat /\ First \in Groups
  /\ Ensurers \cap Rebuilders = {}
  /\ None \notin Nodes \cup Topic
  /\ Foreign \subseteq Topic

VARIABLES
  \* Telegram
  made,      \* made[t]: the node topic t was created for
  exists,    \* topics that have not been deleted
  \* The Master's configuration and tables
  group,     \* h.cfg.ForumChatID
  present,   \* nodes with a row in nodes
  bound,     \* nodes.message_thread_id: the number of a topic
  record,    \* forum_topics: the node a topic is recorded for
  \* The agents
  told,      \* TG_DEST_CHAT_ID and MESSAGE_THREAD_ID of each agent
  \* Goroutines
  pc, node, tid,           \* ensureNodeForumTopic, of each run
  forum, nodes, wasBound,  \* a rebuild's group, and what it read from nodes
  wasFor, kept,            \* the records it has not visited, nodes it has served
  \* History
  lost,      \* topics nobody could record: an answer or a process was lost,
             \* the group was changed, or deleteForumTopic failed
  calm,      \* nothing failed or came in between since a rebuild began
  faults     \* what has failed so far

tables  == <<present, bound, record>>
locals  == <<forum, nodes, wasBound, wasFor, kept>>
vars    == <<made, exists, group, tables, told, pc, node, tid, locals, lost, calm, faults>>

NoBinding == [n \in Nodes |-> None]
NoRecord  == [t \in Topic |-> None]

\* Where a run of ensureNodeForumTopic, or a rebuild, is.
Stages == {"idle", "lookup", "create", "bind", "record", "tell",
           "copy", "read", "list", "visit", "serve", "done"}

TypeOK ==
  /\ made \in [Topic -> Nodes \cup {None}]
  /\ exists \in SUBSET Topic
  /\ group \in Groups
  /\ present \in SUBSET Nodes
  /\ bound \in [Nodes -> Topic \cup {None}]
  /\ record \in [Topic -> Nodes \cup {None}]
  /\ told \in [Nodes -> Topic \cup {None}]
  /\ pc \in [Procs -> Stages]
  /\ node \in [Procs -> Nodes \cup {None}]
  /\ tid \in [Procs -> Topic \cup {None}]
  /\ forum \in [Rebuilders -> Groups \cup {None}]
  /\ nodes \in [Rebuilders -> SUBSET Nodes]
  /\ wasBound \in [Rebuilders -> [Nodes -> Topic \cup {None}]]
  /\ wasFor \in [Rebuilders -> [Topic -> Nodes \cup {None}]]
  /\ kept \in [Rebuilders -> SUBSET Nodes]
  /\ lost \in SUBSET Topic
  /\ calm \in BOOLEAN
  /\ faults \in 0..MaxFaults

\* A group is bound, and no node has a topic yet.
Init ==
  /\ made = NoRecord
  /\ exists = Foreign
  /\ group = First /\ present = {}
  /\ bound = NoBinding /\ record = NoRecord /\ told = NoBinding
  /\ pc = [p \in Procs |-> "idle"]
  /\ node = [p \in Procs |-> None]
  /\ tid = [p \in Procs |-> None]
  /\ forum = [r \in Rebuilders |-> None]
  /\ nodes = [r \in Rebuilders |-> {}]
  /\ wasBound = [r \in Rebuilders |-> NoBinding]
  /\ wasFor = [r \in Rebuilders |-> NoRecord]
  /\ kept = [r \in Rebuilders |-> {}]
  /\ lost = {} /\ calm = FALSE /\ faults = 0

-----------------------------------------------------------------------------

Move(p, from, to) == pc[p] = from /\ pc' = [pc EXCEPT ![p] = to]

\* A run of ensureNodeForumTopic returns, a rebuild to its loop.
Return(p, from) ==
  /\ Move(p, from, IF p \in Rebuilders THEN "serve" ELSE "done")
  /\ node' = [node EXCEPT ![p] = None]
  /\ tid' = [tid EXCEPT ![p] = None]

\* Only an undisturbed rebuild keeps the calm it began with.
Calm(p) == calm' = (calm /\ p \in Rebuilders) /\ UNCHANGED faults

Fault == faults < MaxFaults /\ faults' = faults + 1 /\ calm' = FALSE

\* The topic of group g with the number of t.
At(g, t) == [t EXCEPT !.group = g]

\* The number in a node's row.
HasNumber(b, n, t) == b[n] # None /\ b[n].thread = t.thread

-----------------------------------------------------------------------------
(* ensureNodeForumTopic.                                                   *)

\* A bug to rule out: a name that sanitises to nothing is not refused.
StartUnnamed(p, n) ==
  /\ p \in Ensurers /\ Move(p, "idle", "lookup")
  /\ node' = [node EXCEPT ![p] = None]
  /\ present' = present \cup {None}
  /\ Calm(p)
  /\ UNCHANGED <<made, exists, group, bound, record, told, tid, locals, lost>>

\* The node's row is written (auth or confirmation), then ensure is called.
Start(p, n) ==
  /\ p \in Ensurers /\ Move(p, "idle", "lookup")
  /\ node' = [node EXCEPT ![p] = n]
  /\ present' = present \cup {n}
  /\ Calm(p)
  /\ UNCHANGED <<made, exists, group, bound, record, told, tid, locals, lost>>

\* A topic is bound already: nothing to do.
IsBound(p) ==
  /\ Return(p, "lookup") /\ bound[node[p]] # None
  /\ Calm(p)
  /\ UNCHANGED <<made, exists, group, tables, told, locals, lost>>

IsUnbound(p) ==
  /\ Move(p, "lookup", "create") /\ bound[node[p]] = None
  /\ Calm(p)
  /\ UNCHANGED <<made, exists, group, tables, told, node, tid, locals, lost>>

\* The group's next topic t, if the bound allows one, is created for node n.
NewTopic(t, n) ==
  LET free == {s \in Topic : s.group = group /\ made[s] = None /\ s \notin Foreign} IN
    /\ t \in free /\ \A s \in free : t.thread <= s.thread
    /\ made' = [made EXCEPT ![t] = n]
    /\ exists' = exists \cup {t}

\* createForumTopic succeeds.
Create(p) ==
  /\ Move(p, "create", "bind")
  /\ \E t \in Topic : NewTopic(t, node[p]) /\ tid' = [tid EXCEPT ![p] = t]
  /\ Calm(p)
  /\ UNCHANGED <<group, tables, told, node, locals, lost>>

\* It fails, or its answer is lost.
CreateFails(p) ==
  /\ Return(p, "create")
  /\ \/ UNCHANGED <<made, exists, lost>>
     \/ \E t \in Topic : NewTopic(t, node[p]) /\ lost' = lost \cup {t}
  /\ Fault
  /\ UNCHANGED <<group, tables, told, locals>>

\* A bug to rule out: the UPDATE names the owner and not the node.
BindAll(p) ==
  /\ Move(p, "bind", "record")
  /\ bound' = [n \in Nodes |-> IF n \in present THEN tid[p] ELSE bound[n]]
  /\ Calm(p)
  /\ UNCHANGED <<made, exists, group, present, record, told, node, tid, locals, lost>>

\* UPDATE nodes SET message_thread_id: of no effect if the row is gone.
Bind(p) ==
  /\ Move(p, "bind", "record")
  /\ bound' = IF node[p] \in present THEN [bound EXCEPT ![node[p]] = tid[p]] ELSE bound
  /\ Calm(p)
  /\ UNCHANGED <<made, exists, group, present, record, told, node, tid, locals, lost>>

\* A bug to rule out: the topic is recorded only when the row still exists.
RecordBound(p) ==
  /\ Move(p, "record", "tell")
  /\ record' = IF node[p] \in present THEN [record EXCEPT ![At(group, tid[p])] = node[p]] ELSE record
  /\ Calm(p)
  /\ UNCHANGED <<made, exists, group, present, bound, told, node, tid, locals, lost>>

\* INSERT OR REPLACE INTO forum_topics, under the group of the moment.
Record(p) ==
  /\ Move(p, "record", "tell")
  /\ record' = [record EXCEPT ![At(group, tid[p])] = node[p]]
  /\ Calm(p)
  /\ UNCHANGED <<made, exists, group, present, bound, told, node, tid, locals, lost>>

\* SendCommand /trigger_set_topic, whose failure is ignored.
Tell(p) ==
  /\ Return(p, "tell")
  /\ \/ told' = [told EXCEPT ![node[p]] = At(group, tid[p])] /\ Calm(p)
     \/ UNCHANGED told /\ Fault
  /\ UNCHANGED <<made, exists, group, tables, locals, lost>>

-----------------------------------------------------------------------------
(* applyForumBind and forumTopicsRebuild.                                  *)

\* It is calm at the start of a rebuild if nothing else is running.
Begin(r, g) ==
  /\ Move(r, "idle", "copy")
  /\ forum' = [forum EXCEPT ![r] = g]
  /\ calm' = \A p \in Procs \ {r} : pc[p] \in {"idle", "done"}
  /\ UNCHANGED <<faults, made, exists, tables, told, node, tid, nodes, wasBound, wasFor, kept>>

RebuildOnDemand(r) ==
  /\ Begin(r, group)
  /\ UNCHANGED <<group, lost>>

\* The owner binds another group.  A topic that is just being recorded will be
\* recorded for that one.
applyForumBind(r, g) ==
  /\ g # group /\ group' = g
  /\ Begin(r, g)
  /\ lost' = lost \cup {tid[p] : p \in {q \in Procs : pc[q] \in {"bind", "record"}}}

\* INSERT OR IGNORE: the numbers in the rows are recorded for the group, in the
\* order the rows come.
CopyBindings(r) ==
  LET rowsWith(t) == {n \in present : HasNumber(bound, n, t)}
      new == {t \in Topic : t.group = forum[r] /\ record[t] = None /\ rowsWith(t) # {}}
  IN
  /\ Move(r, "copy", "read")
  /\ \E first \in [new -> Nodes] :
       /\ \A t \in new : first[t] \in rowsWith(t)
       /\ record' = [t \in Topic |-> IF t \in new THEN first[t] ELSE record[t]]
  /\ Calm(r)
  /\ UNCHANGED <<made, exists, group, present, bound, told, node, tid, locals, lost>>

ReadNodes(r) ==
  /\ Move(r, "read", "list")
  /\ nodes' = [nodes EXCEPT ![r] = present]
  /\ wasBound' = [wasBound EXCEPT ![r] = bound]
  /\ Calm(r)
  /\ UNCHANGED <<made, exists, group, tables, told, node, tid, forum, wasFor, kept, lost>>

ListTopics(r) ==
  /\ Move(r, "list", "visit")
  /\ wasFor' = [wasFor EXCEPT ![r] =
       [t \in Topic |-> IF t.group = forum[r] THEN record[t] ELSE None]]
  /\ Calm(r)
  /\ UNCHANGED <<made, exists, group, tables, told, node, tid, forum, nodes, wasBound, kept, lost>>

\* A topic has the number its node was bound to.
Matches(r, t) ==
  LET n == wasFor[r][t] IN
    n \in nodes[r] \ kept[r] /\ HasNumber(wasBound[r], n, t)

Visit(r, t) ==
  /\ Move(r, "visit", "visit")
  /\ wasFor[r][t] # None
  /\ wasFor' = [wasFor EXCEPT ![r][t] = None]

Keep(r, t) == Matches(r, t) /\ kept' = [kept EXCEPT ![r] = @ \cup {wasFor[r][t]}]

\* editForumTopic succeeds, and the agent is told again.
KeepTopic(r, t) ==
  /\ Visit(r, t) /\ t \in exists
  /\ Keep(r, t)
  /\ \/ told' = [told EXCEPT ![wasFor[r][t]] = t] /\ Calm(r)
     \/ UNCHANGED told /\ Fault
  /\ UNCHANGED <<made, exists, group, tables, node, tid, forum, nodes, wasBound, lost>>

\* It fails in a way that says nothing of the topic: the binding is kept.
KeepUnchecked(r, t) ==
  /\ Visit(r, t) /\ Keep(r, t)
  /\ Fault
  /\ UNCHANGED <<made, exists, group, tables, told, node, tid, forum, nodes, wasBound, lost>>

\* A bug to rule out: a second topic of a kept node is passed over.
DropUnknown(r, t) ==
  /\ Visit(r, t) /\ ~(Matches(r, t) /\ t \in exists)
  /\ IF wasFor[r][t] \in nodes[r]
       THEN UNCHANGED <<exists, record>>
       ELSE exists' = exists \ {t} /\ record' = [record EXCEPT ![t] = None]
  /\ Calm(r)
  /\ UNCHANGED <<made, group, present, bound, told, node, tid, forum, nodes, wasBound, kept, lost>>

\* Any other topic is deleted, and forgotten even if that fails.
DropTopic(r, t) ==
  /\ Visit(r, t) /\ ~(Matches(r, t) /\ t \in exists)
  /\ record' = [record EXCEPT ![t] = None]
  /\ \/ exists' = exists \ {t} /\ UNCHANGED lost /\ Calm(r)
     \/ t \in exists /\ lost' = lost \cup {t} /\ Fault /\ UNCHANGED exists
  /\ UNCHANGED <<made, group, present, bound, told, node, tid, forum, nodes, wasBound, kept>>

Serve(r) ==
  /\ wasFor[r] = NoRecord /\ Move(r, "visit", "serve")
  /\ Calm(r)
  /\ UNCHANGED <<made, exists, group, tables, told, node, tid, locals, lost>>

\* The nodes that kept no topic are served one by one: their binding is
\* cleared, and ensureNodeForumTopic called.
ClearBinding(r, n) ==
  /\ Move(r, "serve", "lookup") /\ n \in nodes[r] \ kept[r]
  /\ kept' = [kept EXCEPT ![r] = @ \cup {n}]
  /\ bound' = [bound EXCEPT ![n] = None]
  /\ node' = [node EXCEPT ![r] = n]
  /\ Calm(r)
  /\ UNCHANGED <<made, exists, group, present, record, told, tid, forum, nodes, wasBound, wasFor, lost>>

Forget(r) ==
  /\ forum' = [forum EXCEPT ![r] = None]
  /\ nodes' = [nodes EXCEPT ![r] = {}]
  /\ wasBound' = [wasBound EXCEPT ![r] = NoBinding]
  /\ kept' = [kept EXCEPT ![r] = {}]

End(r) ==
  /\ nodes[r] \subseteq kept[r] /\ Move(r, "serve", "done")
  /\ Forget(r)
  /\ Calm(r)
  /\ UNCHANGED <<made, exists, group, tables, told, node, tid, wasFor, lost>>

-----------------------------------------------------------------------------

\* deleteNode: the row goes, the topic and its record stay.
DeleteNode(n) ==
  /\ n \in present
  /\ present' = present \ {n}
  /\ bound' = [bound EXCEPT ![n] = None]
  /\ calm' = FALSE
  /\ UNCHANGED <<faults, made, exists, group, record, told, pc, node, tid, locals, lost>>

\* Somebody deletes a node's topic in Telegram.
UserDeletes(t) ==
  /\ t \in exists \ Foreign
  /\ exists' = exists \ {t}
  /\ Fault
  /\ UNCHANGED <<made, group, tables, told, pc, node, tid, locals, lost>>

\* The Master dies; ids its goroutines held and had not recorded go with it.
Crash ==
  /\ \E p \in Procs : pc[p] \notin {"idle", "done"}
  /\ pc' = [p \in Procs |-> IF pc[p] = "idle" THEN "idle" ELSE "done"]
  /\ lost' = lost \cup {tid[p] : p \in {q \in Procs : pc[q] \in {"bind", "record"}}}
  /\ node' = [p \in Procs |-> None] /\ tid' = [p \in Procs |-> None]
  /\ forum' = [r \in Rebuilders |-> None]
  /\ nodes' = [r \in Rebuilders |-> {}]
  /\ wasBound' = [r \in Rebuilders |-> NoBinding]
  /\ wasFor' = [r \in Rebuilders |-> NoRecord]
  /\ kept' = [r \in Rebuilders |-> {}]
  /\ Fault
  /\ UNCHANGED <<made, exists, group, tables, told>>

Ensure(p) ==
  IsBound(p) \/ IsUnbound(p) \/ Create(p) \/ CreateFails(p) \/ Bind(p) \/ Record(p) \/ Tell(p)

Rebuild(r) ==
  \/ RebuildOnDemand(r) \/ \E g \in Groups : applyForumBind(r, g)
  \/ CopyBindings(r) \/ ReadNodes(r) \/ ListTopics(r) \/ Serve(r) \/ End(r)
  \/ \E t \in Topic : KeepTopic(r, t) \/ KeepUnchecked(r, t) \/ DropTopic(r, t)
  \/ \E n \in Nodes : ClearBinding(r, n)

Next ==
  \/ \E p \in Procs : Ensure(p)
  \/ \E p \in Ensurers, n \in Nodes : Start(p, n)
  \/ \E r \in Rebuilders : Rebuild(r)
  \/ \E n \in Nodes : DeleteNode(n)
  \/ \E t \in Topic : UserDeletes(t)
  \/ Crash

Spec == Init /\ [][Next]_vars

-----------------------------------------------------------------------------

\* A topic made for a node is known to the Master - recorded, or about to be -
\* or is one of those it could not know of.  A rebuild can only clean up what
\* is recorded: the Bot API does not list topics.  (handlers.go:803-806)
Accounted ==
  \A t \in exists \ Foreign :
    \/ record[t] # None \/ t \in lost
    \/ \E p \in Procs : pc[p] \in {"bind", "record"} /\ tid[p] = t

\* Topic t is n's: it was made for n or, after another group was bound, one
\* with its number was, in the old group.
IsOf(t, n) ==
  \/ made[t] = n
  \/ \E g \in Groups \ {t.group} : made[At(g, t)] = n

\* A node's messages never go to another node's topic or to one of somebody
\* else, and no such topic is recorded as its own, whatever is created,
\* rebuilt, rebound and deleted in whatever order - except a topic that has
\* the number the node's topic had in a group bound before: the number is all
\* the Master keeps.
OwnTopic ==
  /\ \A n \in Nodes :
       /\ bound[n] # None => made[bound[n]] = n
       /\ told[n] # None => IsOf(told[n], n)
  /\ \A t \in Topic : record[t] # None => IsOf(t, record[t])

\* After a rebuild that nothing failed or came in between, every node has one
\* topic in the bound group, which is recorded as its own, no other is recorded
\* there, and none is left but lost ones and other people's - in whatever state
\* duplicates, deletions, crashes and other groups had left the tables.
RebuildRestores ==
  (\E r \in Rebuilders : pc[r] = "done") /\ calm /\ (\A p \in Procs : pc[p] \in {"idle", "done"}) =>
    /\ \A n \in present : bound[n] # None /\ told[n] = At(group, bound[n]) /\ told[n] \in exists
    /\ \A t \in Topic : t.group = group =>
         \A n \in Nodes : record[t] = n <=> n \in present /\ told[n] = t
    /\ \A t \in exists \ (lost \cup Foreign) : t.group = group => \E n \in present : told[n] = t

\* ensureNodeForumTopic "creates a forum topic when ForumMode is on and none
\* is bound yet" (handlers.go:537): no step creates a topic for a bound node.
CreatedOnlyUnbound ==
  [][\A t \in Topic : made[t] = None /\ made'[t] # None => bound[made'[t]] = None]_vars
=============================================================================
