-------------------------------- MODULE Sweep --------------------------------
(***************************************************************************)
(* The unlock sweep of internal/master/fleet.go: runUnlockSweep asks every *)
(* node of an owner over the hub, at most Cap of them at once, and posts   *)
(* one summary.  It is called by users (startUnlockSweep, one goroutine a  *)
(* call) and once a day for every owner in turn (runFleetDaily).           *)
(*                                                                         *)
(* A sweep has one goroutine per row, guarded by a semaphore and awaited   *)
(* through a WaitGroup.  Their defers run in the order: slot, WaitGroup.   *)
(***************************************************************************)
EXTENDS Naturals, Sequences, FiniteSets

CONSTANTS
  Owners,    \* chat ids
  Nodes,     \* nodes that may be registered
  OwnerOf,   \* OwnerOf[n]: the owner of node n
  Sweeps,    \* calls of runUnlockSweep
  For,       \* For[s]: the owner call s is made for
  Daily,     \* the calls of runFleetDaily, in its order
  Cap        \* unlockSweepConcurrency

ASSUME SweepAssumption ==
  /\ IsFiniteSet(Nodes)
  /\ OwnerOf \in [Nodes -> Owners]
  /\ For \in [Sweeps -> Owners]
  /\ Daily \in Seq(Sweeps)
  /\ Cap \in Nat \ {0}

Statuses == {"ok", "fail", "offline"}

VARIABLES
  running,   \* sweepRunning
  pc,        \* control state of each call
  rows,      \* the nodes it read from the table
  worker,    \* control state of its goroutine for each node
  line,      \* the lines of its summary
  count,     \* okN, failN, offN
  sem,       \* slots taken
  wg         \* the WaitGroup's counter

vars == <<running, pc, rows, worker, line, count, sem, wg>>

TypeOK ==
  /\ running \in SUBSET Owners
  /\ pc \in [Sweeps -> {"idle", "admitted", "waiting", "reported", "done", "refused"}]
  /\ rows \in [Sweeps -> SUBSET Nodes]
  /\ worker \in [Sweeps -> [Nodes -> {"none", "queued", "slot", "asking", "counted",
                                      "released", "done"}]]
  /\ line \in [Sweeps -> [Nodes -> Statuses \cup {"empty"}]]
  /\ count \in [Sweeps -> [Statuses -> Nat]]
  /\ sem \in [Sweeps -> Nat]
  /\ wg \in [Sweeps -> Nat]

Init ==
  /\ running = {}
  /\ pc = [s \in Sweeps |-> "idle"]
  /\ rows = [s \in Sweeps |-> {}]
  /\ worker = [s \in Sweeps |-> [n \in Nodes |-> "none"]]
  /\ line = [s \in Sweeps |-> [n \in Nodes |-> "empty"]]
  /\ count = [s \in Sweeps |-> [r \in Statuses |-> 0]]
  /\ sem = [s \in Sweeps |-> 0]
  /\ wg = [s \in Sweeps |-> 0]

-----------------------------------------------------------------------------

\* runFleetDaily makes its calls one after another.
Callable(s) ==
  /\ pc[s] = "idle"
  /\ \A i \in 2..Len(Daily) : Daily[i] = s => pc[Daily[i - 1]] \in {"done", "refused"}

\* A bug to rule out: the flag is set and not tested.
AdmitAll(s) ==
  /\ Callable(s)
  /\ running' = running \cup {For[s]}
  /\ pc' = [pc EXCEPT ![s] = "admitted"]
  /\ UNCHANGED <<rows, worker, line, count, sem, wg>>

\* The guard under sweepMu: this call is the owner's only one.
Admit(s) ==
  /\ Callable(s) /\ For[s] \notin running
  /\ running' = running \cup {For[s]}
  /\ pc' = [pc EXCEPT ![s] = "admitted"]
  /\ UNCHANGED <<rows, worker, line, count, sem, wg>>

\* ... or it returns false at once.
Refuse(s) ==
  /\ Callable(s) /\ For[s] \in running
  /\ pc' = [pc EXCEPT ![s] = "refused"]
  /\ UNCHANGED <<running, rows, worker, line, count, sem, wg>>

\* The rows are read (an error is ignored: no rows) and the goroutines started.
Spawn(s) ==
  /\ pc[s] = "admitted"
  /\ pc' = [pc EXCEPT ![s] = "waiting"]
  /\ \E R \in SUBSET {n \in Nodes : OwnerOf[n] = For[s]} :
       /\ rows' = [rows EXCEPT ![s] = R]
       /\ worker' = [worker EXCEPT ![s] = [n \in Nodes |-> IF n \in R THEN "queued" ELSE "none"]]
       /\ wg' = [wg EXCEPT ![s] = Cardinality(R)]
  /\ UNCHANGED <<running, line, count, sem>>

\* A bug to rule out: a semaphore that admits one too many.
AcquireOneMore(s, n) ==
  /\ worker[s][n] = "queued" /\ sem[s] <= Cap
  /\ sem' = [sem EXCEPT ![s] = @ + 1]
  /\ worker' = [worker EXCEPT ![s][n] = "slot"]
  /\ UNCHANGED <<running, pc, rows, line, count, wg>>

\* sem <- struct{}{} on a channel of capacity Cap.
Acquire(s, n) ==
  /\ worker[s][n] = "queued" /\ sem[s] < Cap
  /\ sem' = [sem EXCEPT ![s] = @ + 1]
  /\ worker' = [worker EXCEPT ![s][n] = "slot"]
  /\ UNCHANGED <<running, pc, rows, line, count, wg>>

\* A bug to rule out: the switch has no default.
RecordNoDefault(s, n, status) ==
  /\ line' = [line EXCEPT ![s][n] = status]
  /\ count' = [count EXCEPT ![s][status] = IF status = "fail" THEN @ ELSE @ + 1]
  /\ worker' = [worker EXCEPT ![s][n] = "counted"]

\* The line is written, then counted under cntMu.
Record(s, n, status) ==
  /\ line' = [line EXCEPT ![s][n] = status]
  /\ count' = [count EXCEPT ![s][status] = @ + 1]
  /\ worker' = [worker EXCEPT ![s][n] = "counted"]

\* unlockOne: the node is not connected ...
Offline(s, n) ==
  /\ worker[s][n] = "slot"
  /\ Record(s, n, "offline")
  /\ UNCHANGED <<running, pc, rows, sem, wg>>

\* ... or SendCommand is called ...
Ask(s, n) ==
  /\ worker[s][n] = "slot"
  /\ worker' = [worker EXCEPT ![s][n] = "asking"]
  /\ UNCHANGED <<running, pc, rows, line, count, sem, wg>>

\* ... and returns a result, an error of the agent, or FAILED.
Answer(s, n) ==
  /\ worker[s][n] = "asking"
  /\ \E status \in {"ok", "fail"} : Record(s, n, status)
  /\ UNCHANGED <<running, pc, rows, sem, wg>>

\* <-sem
Release(s, n) ==
  /\ worker[s][n] = "counted"
  /\ sem' = [sem EXCEPT ![s] = @ - 1]
  /\ worker' = [worker EXCEPT ![s][n] = "released"]
  /\ UNCHANGED <<running, pc, rows, line, count, wg>>

\* A bug to rule out: Done is called and deferred.
DoneTwice(s, n) ==
  /\ worker[s][n] = "released"
  /\ wg' = [wg EXCEPT ![s] = @ - 2]
  /\ worker' = [worker EXCEPT ![s][n] = "done"]
  /\ UNCHANGED <<running, pc, rows, line, count, sem>>

\* wg.Done()
Done(s, n) ==
  /\ worker[s][n] = "released"
  /\ wg' = [wg EXCEPT ![s] = @ - 1]
  /\ worker' = [worker EXCEPT ![s][n] = "done"]
  /\ UNCHANGED <<running, pc, rows, line, count, sem>>

\* A bug to rule out: the summary is posted without waiting.
ReportEarly(s) ==
  /\ pc[s] = "waiting"
  /\ pc' = [pc EXCEPT ![s] = "reported"]
  /\ UNCHANGED <<running, rows, worker, line, count, sem, wg>>

\* wg.Wait() returns and the summary is posted (an error is logged).
Report(s) ==
  /\ pc[s] = "waiting" /\ wg[s] = 0
  /\ pc' = [pc EXCEPT ![s] = "reported"]
  /\ UNCHANGED <<running, rows, worker, line, count, sem, wg>>

\* A bug to rule out: the flag stays.
FinishKeepsFlag(s) ==
  /\ pc[s] = "reported"
  /\ pc' = [pc EXCEPT ![s] = "done"]
  /\ UNCHANGED <<running, rows, worker, line, count, sem, wg>>

\* The deferred delete, and return true.
Finish(s) ==
  /\ pc[s] = "reported"
  /\ running' = running \ {For[s]}
  /\ pc' = [pc EXCEPT ![s] = "done"]
  /\ UNCHANGED <<rows, worker, line, count, sem, wg>>

-----------------------------------------------------------------------------

Call(s) == Admit(s) \/ Refuse(s) \/ Spawn(s) \/ Report(s) \/ Finish(s)

Worker(s, n) ==
  Acquire(s, n) \/ Offline(s, n) \/ Ask(s, n) \/ Answer(s, n) \/ Release(s, n) \/ Done(s, n)

\* Every call has been made and has returned.
Quiet == (\A s \in Sweeps : pc[s] \in {"done", "refused"}) /\ UNCHANGED vars

Next ==
  \/ \E s \in Sweeps : Call(s) \/ \E n \in Nodes : Worker(s, n)
  \/ Quiet

Spec == Init /\ [][Next]_vars

\* Goroutines run.  SendCommand returns after 120 seconds at the latest (see
\* ImplementsCommand in Hub); users may call or not, the daily job does.
Fairness ==
  /\ \A s \in Sweeps : WF_vars(Spawn(s) \/ Report(s) \/ Finish(s))
  /\ \A i \in 1..Len(Daily) : WF_vars(Admit(Daily[i]) \/ Refuse(Daily[i]))
  /\ \A s \in Sweeps, n \in Nodes :
       /\ WF_vars(Offline(s, n) \/ Ask(s, n) \/ Answer(s, n) \/ Release(s, n) \/ Done(s, n))
       /\ SF_vars(Acquire(s, n))

LiveSpec == Spec /\ Fairness

-----------------------------------------------------------------------------

Active(s)  == pc[s] \in {"admitted", "waiting", "reported"}
Holders(s) == {n \in Nodes : worker[s][n] \in {"slot", "asking", "counted"}}

\* However many users and the daily job call at once, no node is asked for
\* two unlock checks at a time: a check takes minutes and loads the node.
NodeAskedOnce ==
  \A s, t \in Sweeps : \A n \in Nodes :
    worker[s][n] = "asking" /\ worker[t][n] = "asking" => s = t

\* A sweep never has more than unlockSweepConcurrency nodes in its hands.
SlotsBounded == \A s \in Sweeps : Cardinality(Holders(s)) <= Cap

\* The summary accounts for every row: no line is blank when it is posted,
\* and succeeded, failed and offline add up to the total it states.
SummaryComplete ==
  \A s \in Sweeps : pc[s] \in {"reported", "done"} =>
    /\ \A n \in rows[s] : line[s][n] # "empty"
    /\ count[s]["ok"] + count[s]["fail"] + count[s]["offline"] = Cardinality(rows[s])

\* An admitted sweep ends and lets the owner sweep again, and the daily job
\* gets through all of its owners: no slot or flag stays taken.
SweepsEnd ==
  /\ \A s \in Sweeps : (pc[s] = "admitted") ~> (pc[s] = "done" /\ For[s] \notin running)
  /\ \A i \in 1..Len(Daily) : <>(pc[Daily[i]] \in {"done", "refused"})
=============================================================================
