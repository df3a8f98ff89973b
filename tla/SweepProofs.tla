----------------------------- MODULE SweepProofs -----------------------------
(***************************************************************************)
(* Theorems about the unlock sweep, for any number of owners, nodes, calls *)
(* and slots.                                                              *)
(***************************************************************************)
EXTENDS Sweep, FiniteSetTheorems, TLAPS

Unfinished(s) == {n \in Nodes : worker[s][n] \notin {"none", "done"}}
Recorded(s)   == {n \in Nodes : worker[s][n] \in {"counted", "released", "done"}}
Total(s)      == count[s]["ok"] + count[s]["fail"] + count[s]["offline"]

\* One active call an owner.
Exclusive ==
  /\ \A s \in Sweeps : Active(s) => For[s] \in running
  /\ \A s, t \in Sweeps : Active(s) /\ Active(t) /\ For[s] = For[t] => s = t

\* Goroutines exist for the rows only, and only while their call waits for them.
Staged ==
  \A s \in Sweeps :
    /\ pc[s] \in {"idle", "admitted", "refused"} => rows[s] = {}
    /\ \A n \in Nodes :
         /\ worker[s][n] # "none" <=> n \in rows[s]
         /\ n \in rows[s] => OwnerOf[n] = For[s]
         /\ n \in Unfinished(s) => pc[s] = "waiting"
         /\ n \in Recorded(s) => line[s][n] # "empty"

\* The three counters count what they stand for.
Counted(s) ==
  /\ sem[s] = Cardinality(Holders(s)) /\ sem[s] <= Cap
  /\ wg[s] = Cardinality(Unfinished(s))
  /\ Total(s) = Cardinality(Recorded(s))

SweepInv == TypeOK /\ Exclusive /\ Staged /\ \A s \in Sweeps : Counted(s)

-----------------------------------------------------------------------------

\* All the counted sets are finite.
LEMMA SetsFinite ==
  ASSUME NEW s \in Sweeps
  PROVE  IsFiniteSet(Holders(s)) /\ IsFiniteSet(Unfinished(s)) /\ IsFiniteSet(Recorded(s))
<1>1. Holders(s) \in SUBSET Nodes /\ Unfinished(s) \in SUBSET Nodes /\ Recorded(s) \in SUBSET Nodes
  BY DEF Holders, Unfinished, Recorded
<1> QED
  BY <1>1, FS_Subset, SweepAssumption

\* Type correctness.
LEMMA TypeStep == TypeOK /\ SweepInv /\ [Next]_vars => TypeOK'
<1> SUFFICES ASSUME TypeOK, SweepInv, [Next]_vars
             PROVE  TypeOK'
  OBVIOUS
<1> USE DEF TypeOK, Statuses
<1>1. ASSUME NEW s \in Sweeps, Admit(s) \/ Refuse(s) \/ Report(s) \/ Finish(s)
      PROVE  TypeOK'
  <2>1. For[s] \in Owners
    BY SweepAssumption
  <2>2. CASE Admit(s)
    BY <2>1, <2>2 DEF Admit
  <2>3. CASE Refuse(s) \/ Report(s)
    BY <2>3 DEF Refuse, Report
  <2>4. CASE Finish(s)
    BY <2>4 DEF Finish
  <2> QED
    BY <1>1, <2>2, <2>3, <2>4
<1>2. ASSUME NEW s \in Sweeps, Spawn(s)
      PROVE  TypeOK'
  <2>1. PICK R \in SUBSET {n \in Nodes : OwnerOf[n] = For[s]} :
          /\ rows' = [rows EXCEPT ![s] = R]
          /\ worker' = [worker EXCEPT ![s] = [n \in Nodes |-> IF n \in R THEN "queued" ELSE "none"]]
          /\ wg' = [wg EXCEPT ![s] = Cardinality(R)]
    BY <1>2 DEF Spawn
  <2>2. R \in SUBSET Nodes
    OBVIOUS
  <2>3. Cardinality(R) \in Nat
    BY <2>2, FS_Subset, FS_CardinalityType, SweepAssumption
  <2> QED
    BY <1>2, <2>1, <2>2, <2>3 DEF Spawn
<1>3. ASSUME NEW s \in Sweeps, NEW n \in Nodes, Acquire(s, n) \/ Ask(s, n)
      PROVE  TypeOK'
  <2>1. sem[s] + 1 \in Nat
    OBVIOUS
  <2>2. CASE Acquire(s, n)
    BY <2>1, <2>2 DEF Acquire
  <2>3. CASE Ask(s, n)
    BY <2>3 DEF Ask
  <2> QED
    BY <1>3, <2>2, <2>3
<1>4. ASSUME NEW s \in Sweeps, NEW n \in Nodes, NEW r \in Statuses, Record(s, n, r),
             UNCHANGED <<running, pc, rows, sem, wg>>
      PROVE  TypeOK'
  <2>1. count[s][r] + 1 \in Nat
    OBVIOUS
  <2> QED
    BY <1>4, <2>1 DEF Record
<1>5. ASSUME NEW s \in Sweeps, NEW n \in Nodes, Release(s, n)
      PROVE  TypeOK'
  <2>1. n \in Holders(s)
    BY <1>5 DEF Release, Holders
  <2>2. sem[s] \in Nat /\ sem[s] = Cardinality(Holders(s)) /\ sem[s] # 0
    BY <2>1, SetsFinite, FS_EmptySet DEF SweepInv, Counted
  <2>3. sem[s] - 1 \in Nat
    BY <2>2
  <2> QED
    BY <1>5, <2>3 DEF Release
<1>6. ASSUME NEW s \in Sweeps, NEW n \in Nodes, Done(s, n)
      PROVE  TypeOK'
  <2>1. n \in Unfinished(s)
    BY <1>6 DEF Done, Unfinished
  <2>2. wg[s] \in Nat /\ wg[s] = Cardinality(Unfinished(s)) /\ wg[s] # 0
    BY <2>1, SetsFinite, FS_EmptySet DEF SweepInv, Counted
  <2>3. wg[s] - 1 \in Nat
    BY <2>2
  <2> QED
    BY <1>6, <2>3 DEF Done
<1>7. CASE UNCHANGED vars
  BY <1>7 DEF vars
<1> QED
  BY <1>1, <1>2, <1>3, <1>4, <1>5, <1>6, <1>7
  DEF Next, Quiet, Call, Worker, Offline, Answer

-----------------------------------------------------------------------------

\* A call is admitted only while no call of the owner is active.
LEMMA ExclusiveStep == SweepInv /\ [Next]_vars => Exclusive'
<1> SUFFICES ASSUME TypeOK, Exclusive, [Next]_vars
             PROVE  Exclusive'
  BY DEF SweepInv
<1> USE SweepAssumption DEF TypeOK, Exclusive, Active
<1>1. ASSUME NEW s \in Sweeps, Admit(s)
      PROVE  Exclusive'
  BY <1>1 DEF Admit, Callable
<1>2. ASSUME NEW s \in Sweeps, Refuse(s)
      PROVE  Exclusive'
  BY <1>2 DEF Refuse, Callable
<1>3. ASSUME NEW s \in Sweeps, Spawn(s) \/ Report(s)
      PROVE  Exclusive'
  <2>1. running' = running
    BY <1>3 DEF Spawn, Report
  <2>2. \A t \in Sweeps : Active(t)' <=> Active(t)
    <3>1. CASE Spawn(s)
      BY <3>1 DEF Spawn
    <3>2. CASE Report(s)
      BY <3>2 DEF Report
    <3> QED
      BY <1>3, <3>1, <3>2
  <2> QED
    BY <2>1, <2>2
<1>4. ASSUME NEW s \in Sweeps, Finish(s)
      PROVE  Exclusive'
  BY <1>4 DEF Finish
<1>5. CASE UNCHANGED <<running, pc>>
  BY <1>5
<1> QED
  BY <1>1, <1>2, <1>3, <1>4, <1>5
  DEF Next, Call, Worker, Quiet, vars, Acquire, Offline, Ask, Answer, Release, Done

\* The step of a goroutine that is not done keeps the stages in order.
LEMMA StagedWorker ==
  ASSUME SweepInv, NEW s \in Sweeps, NEW n \in Nodes, NEW v,
         n \in Unfinished(s), v # "none",
         worker' = [worker EXCEPT ![s][n] = v],
         UNCHANGED <<pc, rows>>,
         \A t \in Sweeps, m \in Nodes :
           m \in Recorded(t)' => line'[t][m] # "empty"
  PROVE  Staged'
<1>1. \A t \in Sweeps, m \in Nodes :
        worker'[t][m] = IF t = s /\ m = n THEN v ELSE worker[t][m]
  BY DEF SweepInv, TypeOK
<1>2. n \in rows[s] /\ pc[s] = "waiting"
  BY DEF SweepInv, Staged, Unfinished
<1> QED
  BY <1>1, <1>2 DEF SweepInv, Staged, Unfinished

\* Goroutines and rows go together through every step.
LEMMA StagedStep == SweepInv /\ [Next]_vars => Staged'
<1> SUFFICES ASSUME SweepInv, [Next]_vars
             PROVE  Staged'
  OBVIOUS
<1> USE SweepAssumption
<1>1. ASSUME NEW s \in Sweeps, Admit(s) \/ Refuse(s)
      PROVE  Staged'
  <2>1. pc[s] = "idle" /\ UNCHANGED <<rows, worker, line>>
    BY <1>1 DEF Admit, Refuse, Callable
  <2>2. \A t \in Sweeps : t # s => pc'[t] = pc[t]
    BY <1>1 DEF Admit, Refuse, SweepInv, TypeOK
  <2> QED
    BY <2>1, <2>2 DEF SweepInv, Staged, Unfinished, Recorded
<1>2. ASSUME NEW s \in Sweeps, Spawn(s)
      PROVE  Staged'
  <2>1. PICK R \in SUBSET {n \in Nodes : OwnerOf[n] = For[s]} :
          /\ rows' = [rows EXCEPT ![s] = R]
          /\ worker' = [worker EXCEPT ![s] = [n \in Nodes |-> IF n \in R THEN "queued" ELSE "none"]]
    BY <1>2 DEF Spawn
  <2>2. /\ \A t \in Sweeps \ {s} : rows'[t] = rows[t] /\ worker'[t] = worker[t] /\ pc'[t] = pc[t]
        /\ rows'[s] = R /\ pc'[s] = "waiting"
        /\ \A n \in Nodes : worker'[s][n] = IF n \in R THEN "queued" ELSE "none"
        /\ line' = line
    BY <1>2, <2>1 DEF Spawn, SweepInv, TypeOK
  <2> QED
    BY <2>2 DEF SweepInv, Staged, Unfinished, Recorded
<1>3. ASSUME NEW s \in Sweeps, Report(s)
      PROVE  Staged'
  <2>1. Cardinality(Unfinished(s)) = 0
    BY <1>3 DEF Report, SweepInv, Counted
  <2>2. Unfinished(s) = {}
    BY <2>1, SetsFinite, FS_EmptySet
  <2>3. /\ UNCHANGED <<rows, worker, line>>
        /\ \A t \in Sweeps : pc'[t] = IF t = s THEN "reported" ELSE pc[t]
    BY <1>3 DEF Report, SweepInv, TypeOK
  <2> QED
    BY <2>2, <2>3 DEF SweepInv, Staged, Unfinished, Recorded
<1>4. ASSUME NEW s \in Sweeps, Finish(s)
      PROVE  Staged'
  <2>1. /\ UNCHANGED <<rows, worker, line>> /\ pc[s] = "reported"
        /\ \A t \in Sweeps : pc'[t] = IF t = s THEN "done" ELSE pc[t]
    BY <1>4 DEF Finish, SweepInv, TypeOK
  <2> QED
    BY <2>1 DEF SweepInv, Staged, Unfinished, Recorded
<1>5. ASSUME NEW s \in Sweeps, NEW n \in Nodes,
             Acquire(s, n) \/ Ask(s, n) \/ Release(s, n) \/ Done(s, n)
      PROVE  Staged'
  <2>1. PICK v \in {"slot", "asking", "released", "done"} :
          /\ worker' = [worker EXCEPT ![s][n] = v]
          /\ v \in {"released", "done"} => n \in Recorded(s)
    BY <1>5 DEF Acquire, Ask, Release, Done, Recorded
  <2>2. n \in Unfinished(s) /\ UNCHANGED <<pc, rows, line>>
    BY <1>5 DEF Acquire, Ask, Release, Done, Unfinished
  <2>3. \A t \in Sweeps, m \in Nodes :
          worker'[t][m] = IF t = s /\ m = n THEN v ELSE worker[t][m]
    BY <2>1 DEF SweepInv, TypeOK
  <2>4. \A t \in Sweeps, m \in Nodes : m \in Recorded(t)' => line'[t][m] # "empty"
    BY <2>1, <2>2, <2>3 DEF SweepInv, Staged, Recorded
  <2> QED
    BY <2>1, <2>2, <2>4, StagedWorker
<1>6. ASSUME NEW s \in Sweeps, NEW n \in Nodes, NEW r \in Statuses, Record(s, n, r),
             worker[s][n] \in {"slot", "asking"}, UNCHANGED <<running, pc, rows, sem, wg>>
      PROVE  Staged'
  <2>1. worker' = [worker EXCEPT ![s][n] = "counted"] /\ n \in Unfinished(s)
    BY <1>6 DEF Record, Unfinished
  <2>2. \A t \in Sweeps, m \in Nodes :
          worker'[t][m] = IF t = s /\ m = n THEN "counted" ELSE worker[t][m]
    BY <2>1 DEF SweepInv, TypeOK
  <2>3. \A t \in Sweeps, m \in Nodes :
          line'[t][m] = IF t = s /\ m = n THEN r ELSE line[t][m]
    BY <1>6 DEF Record, SweepInv, TypeOK
  <2>4. \A t \in Sweeps, m \in Nodes : m \in Recorded(t)' => line'[t][m] # "empty"
    BY <2>2, <2>3 DEF SweepInv, Staged, Recorded, Statuses
  <2> QED
    BY <1>6, <2>1, <2>4, StagedWorker
<1>7. CASE UNCHANGED vars
  BY <1>7 DEF vars, SweepInv, Staged, Unfinished, Recorded
<1> QED
  BY <1>1, <1>2, <1>3, <1>4, <1>5, <1>6, <1>7
  DEF Next, Quiet, Call, Worker, Offline, Answer, Statuses

-----------------------------------------------------------------------------

\* What a step leaves alone stays counted.
LEMMA CountedElsewhere ==
  ASSUME NEW t \in Sweeps, Counted(t), worker'[t] = worker[t], sem'[t] = sem[t],
         wg'[t] = wg[t], count'[t] = count[t]
  PROVE  Counted(t)'
BY DEF Counted, Total, Holders, Unfinished, Recorded

\* The semaphore, the WaitGroup and the totals count what they stand for.
LEMMA CountedStep ==
  ASSUME SweepInv, [Next]_vars, NEW t \in Sweeps
  PROVE  Counted(t)'
<1> USE DEF SweepInv, TypeOK
<1> Counted(t)
  OBVIOUS
<1>1. ASSUME NEW s \in Sweeps, Spawn(s)
      PROVE  Counted(t)'
  <2>1. CASE t # s
    <3>1. worker'[t] = worker[t] /\ sem'[t] = sem[t] /\ wg'[t] = wg[t] /\ count'[t] = count[t]
      BY <1>1, <2>1 DEF Spawn
    <3> QED
      BY <3>1, CountedElsewhere
  <2>2. CASE t = s
    <3>1. PICK R \in SUBSET {n \in Nodes : OwnerOf[n] = For[s]} :
            /\ worker' = [worker EXCEPT ![s] = [n \in Nodes |-> IF n \in R THEN "queued" ELSE "none"]]
            /\ wg' = [wg EXCEPT ![s] = Cardinality(R)]
      BY <1>1 DEF Spawn
    <3>2. \A n \in Nodes : worker[s][n] = "none"
      BY <1>1 DEF Spawn, Staged
    <3>3. \A n \in Nodes : worker'[s][n] = IF n \in R THEN "queued" ELSE "none"
      BY <3>1
    <3>4. Holders(s)' = Holders(s) /\ Recorded(s)' = Recorded(s)
      BY <3>2, <3>3 DEF Holders, Recorded
    <3>5. Unfinished(s)' = R
      BY <3>3 DEF Unfinished
    <3>6. wg'[s] = Cardinality(R) /\ sem' = sem /\ Total(s)' = Total(s)
      BY <1>1, <3>1 DEF Spawn, Total
    <3> QED
      BY <2>2, <3>4, <3>5, <3>6 DEF Counted
  <2> QED
    BY <2>1, <2>2
<1>2. ASSUME NEW s \in Sweeps, NEW n \in Nodes, Worker(s, n)
      PROVE  Counted(t)'
  <2>1. CASE t # s
    <3>1. worker'[t] = worker[t] /\ sem'[t] = sem[t] /\ wg'[t] = wg[t] /\ count'[t] = count[t]
      BY <1>2, <2>1
      DEF Worker, Acquire, Offline, Ask, Answer, Record, Release, Done
    <3> QED
      BY <3>1, CountedElsewhere
  <2>2. CASE t = s /\ Acquire(s, n)
    <3>1. \A m \in Nodes : worker'[s][m] = IF m = n THEN "slot" ELSE worker[s][m]
      BY <2>2 DEF Acquire
    <3>2. worker[s][n] = "queued"
      BY <2>2 DEF Acquire
    <3>3. /\ Holders(s)' = Holders(s) \cup {n} /\ n \notin Holders(s)
          /\ Unfinished(s)' = Unfinished(s) /\ Recorded(s)' = Recorded(s)
      BY <3>1, <3>2 DEF Holders, Unfinished, Recorded
    <3>4. Cardinality(Holders(s)') = Cardinality(Holders(s)) + 1
      BY <3>3, SetsFinite, FS_AddElement
    <3>5. sem'[s] = sem[s] + 1 /\ sem[s] < Cap /\ wg' = wg /\ Total(s)' = Total(s)
      BY <2>2 DEF Acquire, Total
    <3> QED
      BY <2>2, <3>3, <3>4, <3>5, SweepAssumption DEF Counted
  <2>3. CASE t = s /\ Ask(s, n)
    <3>1. \A m \in Nodes : worker'[s][m] = IF m = n THEN "asking" ELSE worker[s][m]
      BY <2>3 DEF Ask
    <3>2. worker[s][n] = "slot"
      BY <2>3 DEF Ask
    <3>3. /\ Holders(s)' = Holders(s) /\ Unfinished(s)' = Unfinished(s)
          /\ Recorded(s)' = Recorded(s)
      BY <3>1, <3>2 DEF Holders, Unfinished, Recorded
    <3>4. sem' = sem /\ wg' = wg /\ Total(s)' = Total(s)
      BY <2>3 DEF Ask, Total
    <3> QED
      BY <2>3, <3>3, <3>4 DEF Counted
  <2>4. ASSUME t = s, NEW r \in Statuses, Record(s, n, r),
               worker[s][n] \in {"slot", "asking"}, UNCHANGED <<sem, wg>>
        PROVE  Counted(t)'
    <3>1. \A m \in Nodes : worker'[s][m] = IF m = n THEN "counted" ELSE worker[s][m]
      BY <2>4 DEF Record
    <3>2. /\ Recorded(s)' = Recorded(s) \cup {n} /\ n \notin Recorded(s)
          /\ Holders(s)' = Holders(s) /\ Unfinished(s)' = Unfinished(s)
      BY <2>4, <3>1 DEF Holders, Unfinished, Recorded
    <3>3. Cardinality(Recorded(s)') = Cardinality(Recorded(s)) + 1
      BY <3>2, SetsFinite, FS_AddElement
    <3>4. \A q \in Statuses : count[s][q] \in Nat /\ count'[s][q] = IF q = r THEN count[s][q] + 1 ELSE count[s][q]
      BY <2>4 DEF Record
    <3>5. Total(s)' = Total(s) + 1
      BY <3>4 DEF Total, Statuses
    <3> QED
      BY <2>4, <3>2, <3>3, <3>5 DEF Counted
  <2>5. CASE t = s /\ Release(s, n)
    <3>1. \A m \in Nodes : worker'[s][m] = IF m = n THEN "released" ELSE worker[s][m]
      BY <2>5 DEF Release
    <3>2. worker[s][n] = "counted"
      BY <2>5 DEF Release
    <3>3. /\ Holders(s)' = Holders(s) \ {n} /\ n \in Holders(s)
          /\ Unfinished(s)' = Unfinished(s) /\ Recorded(s)' = Recorded(s)
      BY <3>1, <3>2 DEF Holders, Unfinished, Recorded
    <3>4. Cardinality(Holders(s)') = Cardinality(Holders(s)) - 1
      BY <3>3, SetsFinite, FS_RemoveElement
    <3>5. sem'[s] = sem[s] - 1 /\ wg' = wg /\ Total(s)' = Total(s)
      BY <2>5 DEF Release, Total
    <3> QED
      BY <2>5, <3>3, <3>4, <3>5, SweepAssumption DEF Counted
  <2>6. CASE t = s /\ Done(s, n)
    <3>1. \A m \in Nodes : worker'[s][m] = IF m = n THEN "done" ELSE worker[s][m]
      BY <2>6 DEF Done
    <3>2. worker[s][n] = "released"
      BY <2>6 DEF Done
    <3>3. /\ Unfinished(s)' = Unfinished(s) \ {n} /\ n \in Unfinished(s)
          /\ Holders(s)' = Holders(s) /\ Recorded(s)' = Recorded(s)
      BY <3>1, <3>2 DEF Holders, Unfinished, Recorded
    <3>4. Cardinality(Unfinished(s)') = Cardinality(Unfinished(s)) - 1
      BY <3>3, SetsFinite, FS_RemoveElement
    <3>5. wg'[s] = wg[s] - 1 /\ sem' = sem /\ Total(s)' = Total(s)
      BY <2>6 DEF Done, Total
    <3> QED
      BY <2>6, <3>3, <3>4, <3>5 DEF Counted
  <2> QED
    BY <1>2, <2>1, <2>2, <2>3, <2>4, <2>5, <2>6 DEF Worker, Offline, Answer, Statuses
<1>3. CASE UNCHANGED <<worker, sem, wg, count>>
  BY <1>3, CountedElsewhere
<1> QED
  BY <1>1, <1>2, <1>3 DEF Next, Call, Quiet, vars, Admit, Refuse, Report, Finish

-----------------------------------------------------------------------------

\* The inductive invariant holds at first ...
LEMMA SweepInit == Init => SweepInv
<1> SUFFICES ASSUME Init
             PROVE  SweepInv
  OBVIOUS
<1> USE DEF Init
<1>1. TypeOK
  BY SweepAssumption DEF TypeOK, Statuses
<1>2. Exclusive /\ Staged
  BY DEF Exclusive, Active, Staged, Unfinished, Recorded
<1>3. ASSUME NEW s \in Sweeps
      PROVE  Counted(s)
  <2>1. Holders(s) = {} /\ Unfinished(s) = {} /\ Recorded(s) = {}
    BY DEF Holders, Unfinished, Recorded
  <2>2. Total(s) = 0
    BY DEF Total, Statuses
  <2> QED
    BY <2>1, <2>2, FS_EmptySet, SweepAssumption DEF Counted
<1> QED
  BY <1>1, <1>2, <1>3 DEF SweepInv

\* ... and always.
LEMMA SweepInvariant == Spec => []SweepInv
<1>1. SweepInv /\ [Next]_vars => SweepInv'
  BY TypeStep, ExclusiveStep, StagedStep, CountedStep DEF SweepInv
<1> QED
  BY <1>1, SweepInit, PTL DEF Spec

\* Every variable of the sweep keeps its type; in particular the WaitGroup's
\* counter, whose fall below zero would be a panic.
THEOREM SweepTypeCorrect == Spec => []TypeOK
<1>1. SweepInv => TypeOK
  BY DEF SweepInv
<1> QED
  BY <1>1, SweepInvariant, PTL

\* No node is asked twice at a time, whoever calls runUnlockSweep (fleet.go).
THEOREM AskedOnce == Spec => []NodeAskedOnce
<1>1. SweepInv => NodeAskedOnce
  <2> SUFFICES ASSUME SweepInv, NEW s \in Sweeps, NEW t \in Sweeps, NEW n \in Nodes,
                      worker[s][n] = "asking", worker[t][n] = "asking"
               PROVE  s = t
    BY DEF NodeAskedOnce
  <2>1. n \in Unfinished(s) /\ n \in Unfinished(t)
    BY DEF Unfinished
  <2>2. Active(s) /\ Active(t) /\ For[s] = For[t]
    BY <2>1 DEF SweepInv, Staged, Active
  <2> QED
    BY <2>2 DEF SweepInv, Exclusive
<1> QED
  BY <1>1, SweepInvariant, PTL

\* The semaphore bounds the nodes a sweep asks at a time (fleet.go:123-135).
THEOREM SlotsAreBounded == Spec => []SlotsBounded
<1>1. SweepInv => SlotsBounded
  BY DEF SweepInv, Counted, SlotsBounded
<1> QED
  BY <1>1, SweepInvariant, PTL

\* The summary that is posted accounts for every row (fleet.go:150-157).
THEOREM SummaryIsComplete == Spec => []SummaryComplete
<1>1. SweepInv => SummaryComplete
  <2> SUFFICES ASSUME SweepInv, NEW s \in Sweeps, pc[s] \in {"reported", "done"}
               PROVE  /\ \A n \in rows[s] : line[s][n] # "empty"
                      /\ Total(s) = Cardinality(rows[s])
    BY DEF SummaryComplete, Total
  <2>1. \A n \in Nodes : worker[s][n] \in {"none", "done"}
    BY DEF SweepInv, Staged, Unfinished
  <2>2. Recorded(s) = rows[s]
    BY <2>1 DEF SweepInv, TypeOK, Staged, Recorded
  <2> QED
    BY <2>2 DEF SweepInv, TypeOK, Staged, Counted
<1> QED
  BY <1>1, SweepInvariant, PTL
=============================================================================
