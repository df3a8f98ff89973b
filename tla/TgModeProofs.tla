----------------------------- MODULE TgModeProofs -----------------------------
(***************************************************************************)
(* Theorems about TgMode, for any number of updates, crashes and tasks:    *)
(* type correctness, one receiver at a time, no update lost, and somebody  *)
(* who receives until a POST has confirmed the webhook.                    *)
(***************************************************************************)
EXTENDS TgMode, FiniteSetTheorems, WellFoundedInduction, TLAPS

-----------------------------------------------------------------------------
(* The least element of a set of updates.                                  *)

LEMMA Least ==
  ASSUME NEW S, S \subseteq Nat, S # {}
  PROVE  \E x \in S : \A y \in S : x <= y
<1> DEFINE R == {ss \in Nat \X Nat : ss[1] < ss[2]}
<1>1. IsWellFoundedOn(R, Nat)
  BY NatLessThanWellFounded DEF OpToRel
<1> HIDE DEF R
<1>2. PICK x \in S : \A y \in S : ~(<<y, x>> \in R)
  BY <1>1, WFMin
<1>3. \A i, j \in Nat : j < i => <<j, i>> \in R
  BY DEF R
<1>4. \A y \in S : ~(y < x)
  BY <1>2, <1>3
<1>5. \A y \in S : x <= y
  BY <1>4
<1> QED
  BY <1>5

LEMMA MinIsLeast ==
  ASSUME NEW S, S \subseteq Nat, S # {}
  PROVE  Min(S) \in S /\ \A y \in S : Min(S) <= y
BY Least DEF Min

-----------------------------------------------------------------------------
(* Type correctness.                                                       *)

\* Whoever saves an offset, or runs the wizard, has an update in his batch.
Batched == \A t \in Tasks : pc[t] \in {"save", "wizard"} => batch[t] # {}

Typed == TypeOK /\ Batched

LEMMA InitTyped == Init => Typed
<1> SUFFICES ASSUME Init PROVE Typed
  OBVIOUS
<1>1. sent \in 0..MaxUpdates /\ offset \in 0..(MaxUpdates + 1) /\ crashes \in 0..MaxCrashes
  BY TgAssumption DEF Init
<1>2. {hook, diskBase, base, up, inbound, polling, stopped, raced} \subseteq BOOLEAN
  BY Zenon DEF Init
<1>3. diskMode \in Modes /\ mode \in Modes
  BY DEF Init
<1>4. /\ pc = [t \in Tasks |-> "none"]
      /\ batch \in [Tasks -> SUBSET Updates]
      /\ read \in [Tasks -> Modes \cup {"torn"}]
  BY DEF Init, Modes
<1>5. /\ post = [u \in Updates |-> "none"] /\ wiz = "asked"
      /\ queue = {} /\ handled = {} /\ dropped = {}
  BY DEF Init
<1> QED
  BY <1>1, <1>2, <1>3, <1>4, <1>5 DEF Typed, TypeOK, Batched

\* The death of the process.
LEMMA DiesTyped ==
  ASSUME Typed, Dies, offset' \in {offset, 0}, crashes' \in 0..MaxCrashes
  PROVE  Typed'
<1>1. offset' \in 0..(MaxUpdates + 1)
  BY TgAssumption DEF Typed, TypeOK
<1>2. {hook', diskBase', base', up', inbound', polling', stopped', raced'} \subseteq BOOLEAN
  BY DEF Dies, Typed, TypeOK, tgVars
<1>3. diskMode' \in Modes /\ mode' \in Modes /\ sent' \in 0..MaxUpdates
  BY DEF Dies, Typed, TypeOK, tgVars
<1>4. /\ pc' = [t \in Tasks |-> "none"]
      /\ batch' \in [Tasks -> SUBSET Updates]
      /\ read' \in [Tasks -> Modes \cup {"torn"}]
  BY DEF Dies, Modes
<1>5. /\ post' = [u \in Updates |-> "none"] /\ wiz' = "over"
      /\ queue' \in SUBSET Updates /\ handled' \in SUBSET Updates /\ dropped' \in SUBSET Updates
  BY DEF Dies, Typed, TypeOK, tgVars
<1> QED
  BY <1>1, <1>2, <1>3, <1>4, <1>5 DEF Typed, TypeOK, Batched

LEMMA DispatchTyped ==
  ASSUME Typed, NEW u \in Updates, Dispatch(u) \/ DispatchInVain(u)
  PROVE  /\ handled' \in SUBSET Updates
         /\ wiz' \in {"asked", "hooking", "accepted", "rejected", "over"}
         /\ {base, diskBase}' \subseteq BOOLEAN
BY DEF Dispatch, DispatchInVain, Typed, TypeOK

LEMMA TelegramTyped ==
  ASSUME Typed, Send \/ StartWebhook \/ StartPolling \/ Crash \/ SetWebhook \/ FinishWizard
  PROVE  Typed'
<1>1. CASE Send
  BY <1>1, TgAssumption DEF Send, Typed, TypeOK, Batched, Updates, fileVars, flagVars, history
<1>2. CASE StartWebhook
  BY <1>2 DEF StartWebhook, Only, Typed, TypeOK, Batched, fileVars, flagVars, history
<1>3. CASE StartPolling
  <2>1. {hook', diskBase', base', up', inbound', polling', stopped', raced'} \subseteq BOOLEAN
    BY <1>3 DEF StartPolling, Typed, TypeOK, history
  <2>2. /\ pc' \in [Tasks -> {"none", "top"}]
        /\ UNCHANGED <<batch, read>>
    BY <1>3 DEF StartPolling, Only
  <2> QED
    BY <1>3, <2>1, <2>2 DEF StartPolling, Typed, TypeOK, Batched, Modes, history
<1>4. CASE Crash
  <2>1. crashes' \in 0..MaxCrashes
    BY <1>4, TgAssumption DEF Crash, Typed, TypeOK
  <2>2. Dies /\ offset' \in {offset, 0}
    BY <1>4 DEF Crash
  <2> QED
    BY <2>1, <2>2, DiesTyped
<1>5. CASE SetWebhook
  BY <1>5 DEF SetWebhook, Typed, TypeOK, Batched, fileVars, flagVars, history
<1>6. CASE FinishWizard
  BY <1>6 DEF FinishWizard, Typed, TypeOK, Batched, Modes, tgVars, history
<1> QED
  BY <1>1, <1>2, <1>3, <1>4, <1>5, <1>6

LEMMA PostTyped ==
  ASSUME Typed, NEW u \in Updates, Post(u) \/ Webhook(u)
  PROVE  Typed'
<1> USE DEF Typed, TypeOK, Batched, tgVars, fileVars, flagVars, history
<1>1. CASE Post(u)
  BY <1>1 DEF Post
<1>2. CASE ConfirmInbound(u)
  BY <1>2 DEF ConfirmInbound, Answered
<1>3. CASE SwitchMode(u)
  BY <1>3 DEF SwitchMode, Modes
<1>4. CASE PostStopsPolling(u)
  BY <1>4 DEF PostStopsPolling
<1>5. CASE PostCloses(u)
  BY <1>5 DEF PostCloses
<1>6. CASE PostStopped(u)
  BY <1>6 DEF PostStopped, Answered
<1>7. CASE PostDispatches(u)
  BY <1>7, DispatchTyped DEF PostDispatches
<1> QED
  BY <1>1, <1>2, <1>3, <1>4, <1>5, <1>6, <1>7 DEF Webhook

LEMMA TaskTyped ==
  ASSUME Typed, NEW t \in Tasks, Task(t)
  PROVE  Typed'
<1> USE DEF Typed, TypeOK, Batched, tgVars, fileVars, flagVars, history
<1>1. CASE PollTop(t)
  BY <1>1 DEF PollTop, Replace
<1>2. CASE GetUpdates(t)
  BY <1>2 DEF GetUpdates
<1>3. CASE GetConflicts(t)
  BY <1>3 DEF GetConflicts
<1>4. CASE GetFails(t)
  BY <1>4 DEF GetFails
<1>5. CASE Conflict(t)
  BY <1>5 DEF Conflict, Loaded, Apply, Replace, Modes
<1>6. CASE RemoveLeftover(t)
  BY <1>6 DEF RemoveLeftover, DeleteWebhook
<1>7. CASE PollDispatch(t)
  BY <1>7, MinIsLeast, DispatchTyped DEF PollDispatch, Updates
<1>8. CASE SaveOffset(t)
  <2>1. Min(batch[t]) \in batch[t]
    BY <1>8, MinIsLeast DEF SaveOffset, Updates
  <2>2. offset' \in 0..(MaxUpdates + 1)
    BY <1>8, <2>1, TgAssumption DEF SaveOffset, Updates
  <2> QED
    BY <1>8, <2>2 DEF SaveOffset
<1>9. CASE LoadConfig(t)
  BY <1>9 DEF LoadConfig, Loaded
<1>10. CASE ApplyConfig(t)
  BY <1>10 DEF ApplyConfig, Apply, Modes
<1>11. CASE WatchTick(t) \/ WatchOn(t) \/ WatchStuck(t) \/ WatchUnhealthy(t)
  BY <1>11 DEF WatchTick, WatchOn, WatchStuck, WatchUnhealthy
<1>12. CASE FallbackDelete(t)
  BY <1>12 DEF FallbackDelete, DeleteWebhook
<1>13. CASE FallbackMode(t)
  BY <1>13 DEF FallbackMode, Modes
<1>14. CASE FallbackInbound(t)
  BY <1>14 DEF FallbackInbound
<1>15. CASE FallbackStop(t)
  BY <1>15 DEF FallbackStop
<1>16. CASE FallbackClose(t)
  BY <1>16, DiesTyped DEF FallbackClose
<1>17. CASE FallbackStopped(t)
  BY <1>17 DEF FallbackStopped
<1>18. CASE FallbackStart(t)
  BY <1>18 DEF FallbackStart, Replace
<1> QED
  BY <1>1, <1>2, <1>3, <1>4, <1>5, <1>6, <1>7, <1>8, <1>9, <1>10, <1>11, <1>12, <1>13, <1>14,
     <1>15, <1>16, <1>17, <1>18 DEF Task

LEMMA TypedInductive == Spec => []Typed
<1>1. Typed /\ UNCHANGED vars => Typed'
  BY DEF Typed, TypeOK, Batched, vars, tgVars, fileVars, flagVars, history
<1>2. Typed /\ [Next]_vars => Typed'
  BY <1>1, TelegramTyped, PostTyped, TaskTyped DEF Next
<1> QED
  BY <1>2, InitTyped, PTL DEF Spec

\* Whatever the loops, the POSTs and the wizard do at the same time, every
\* state is of the types the code expects: no read of a torn file leaves a mode
\* that is neither, and no offset is beyond the next update.  (app.go:203-406)
THEOREM TgTypeCorrect == Spec => []TypeOK
BY TypedInductive, PTL DEF Typed

-----------------------------------------------------------------------------
(* One receiver.                                                           *)

Single == \A s, t \in Tasks : pc[s] # "none" /\ pc[t] # "none" => s = t

\* While the process is down nothing of an earlier life is left in memory.
Down ==
  ~up => /\ mode = diskMode /\ base = diskBase /\ ~inbound /\ ~stopped /\ ~raced
         /\ wiz \in {"asked", "over"}
         /\ \A t \in Tasks : pc[t] = "none"
         /\ \A u \in Updates : post[u] = "none"

\* A step moves a task, hands its place to another, or starts the only one.
Moves(t) == \A s \in Tasks \ {t} : pc'[s] = pc[s]
HandsOver(t) == \E s \in Tasks : pc'[t] = "none" /\ \A r \in Tasks \ {s, t} : pc'[r] = pc[r]

LEMMA HandOver ==
  ASSUME Typed, NEW t \in Tasks, NEW p, Replace(t, p)
  PROVE  HandsOver(t)
BY DEF Replace, HandsOver, Typed, TypeOK

LEMMA TaskMoves ==
  ASSUME Typed, NEW t \in Tasks, Task(t)
  PROVE  /\ pc[t] # "none"
         /\ Moves(t) \/ HandsOver(t) \/ Dies
<1> USE DEF Moves, Typed, TypeOK
<1>1. CASE PollTop(t)
  BY <1>1, HandOver DEF PollTop
<1>2. CASE Conflict(t)
  BY <1>2, HandOver DEF Conflict
<1>3. CASE FallbackStart(t)
  BY <1>3, HandOver DEF FallbackStart
<1>4. CASE FallbackClose(t)
  BY <1>4 DEF FallbackClose
<1>5. CASE GetUpdates(t) \/ GetConflicts(t) \/ GetFails(t) \/ RemoveLeftover(t) \/ PollDispatch(t)
  BY <1>5 DEF GetUpdates, GetConflicts, GetFails, RemoveLeftover, PollDispatch
<1>6. CASE SaveOffset(t) \/ LoadConfig(t) \/ ApplyConfig(t)
  BY <1>6 DEF SaveOffset, LoadConfig, ApplyConfig
<1>7. CASE WatchTick(t) \/ WatchOn(t) \/ WatchStuck(t) \/ WatchUnhealthy(t)
  BY <1>7 DEF WatchTick, WatchOn, WatchStuck, WatchUnhealthy
<1>8. CASE \/ FallbackDelete(t) \/ FallbackMode(t) \/ FallbackInbound(t)
           \/ FallbackStop(t) \/ FallbackStopped(t)
  BY <1>8 DEF FallbackDelete, FallbackMode, FallbackInbound, FallbackStop, FallbackStopped
<1> QED
  BY <1>1, <1>2, <1>3, <1>4, <1>5, <1>6, <1>7, <1>8 DEF Task

LEMMA SingleStep ==
  ASSUME Typed, Down, Single, [Next]_vars
  PROVE  Single'
<1>1. ASSUME NEW t \in Tasks, Task(t)
      PROVE  Single'
  <2>1. pc[t] # "none" /\ (Moves(t) \/ HandsOver(t) \/ Dies)
    BY <1>1, TaskMoves
  <2>2. CASE Moves(t)
    BY <2>1, <2>2 DEF Moves, Single
  <2>3. CASE HandsOver(t)
    BY <2>1, <2>3 DEF HandsOver, Single
  <2>4. CASE Dies
    BY <2>4 DEF Dies, Single
  <2> QED
    BY <2>1, <2>2, <2>3, <2>4
<1>2. CASE StartWebhook \/ StartPolling
  BY <1>2 DEF StartWebhook, StartPolling, Only, Single
<1>3. CASE Crash
  BY <1>3 DEF Crash, Dies, Single
<1>4. CASE FinishWizard
  BY <1>4 DEF FinishWizard, Single, Typed, TypeOK
<1>5. ASSUME NEW u \in Updates, Post(u) \/ Webhook(u)
      PROVE  UNCHANGED pc
  BY <1>5 DEF Post, Webhook, ConfirmInbound, SwitchMode, PostStopsPolling, PostCloses, PostStopped,
              PostDispatches
<1>6. CASE Send \/ SetWebhook \/ UNCHANGED vars
  BY <1>6 DEF Send, SetWebhook, vars, Single
<1> QED
  BY <1>1, <1>2, <1>3, <1>4, <1>5, <1>6 DEF Next, Single

LEMMA DiesDown == Dies => Down'
BY DEF Dies, Down, tgVars

LEMMA DownStep ==
  ASSUME Typed, Down, [Next]_vars
  PROVE  Down'
<1>1. CASE StartWebhook \/ StartPolling
  BY <1>1 DEF StartWebhook, StartPolling, Down
<1>2. CASE Crash
  BY <1>2, DiesDown DEF Crash
<1>3. CASE Send \/ UNCHANGED vars
  BY <1>3 DEF Send, vars, Down, fileVars, flagVars, history
<1>4. ASSUME NEW t \in Tasks, Task(t)
      PROVE  Down'
  <2>1. CASE FallbackClose(t)
    BY <1>4, <2>1, TaskMoves, DiesDown DEF FallbackClose, Down
  <2>2. CASE ~FallbackClose(t)
    <3>1. up /\ UNCHANGED up
      BY <1>4, <2>2, TaskMoves
      DEF Down, Task, PollTop, GetUpdates, GetConflicts, GetFails, Conflict, RemoveLeftover, PollDispatch,
          SaveOffset, LoadConfig, ApplyConfig, WatchTick, WatchOn, WatchStuck, WatchUnhealthy,
          FallbackDelete, FallbackMode, FallbackInbound, FallbackStop, FallbackStopped, FallbackStart
    <3> QED
      BY <3>1 DEF Down
  <2> QED
    BY <2>1, <2>2
<1>5. ASSUME NEW u \in Updates, Post(u) \/ Webhook(u)
      PROVE  Down'
  <2>1. up /\ UNCHANGED up
    BY <1>5 DEF Down, Post, Webhook, ConfirmInbound, SwitchMode, PostStopsPolling, PostCloses,
                PostStopped, PostDispatches
  <2> QED
    BY <2>1 DEF Down
<1>6. CASE SetWebhook \/ FinishWizard
  <2>1. up /\ UNCHANGED up
    BY <1>6 DEF SetWebhook, FinishWizard, Down
  <2> QED
    BY <2>1 DEF Down
<1> QED
  BY <1>1, <1>2, <1>3, <1>4, <1>5, <1>6 DEF Next

LEMMA SingleInductive == Spec => [](Typed /\ Down /\ Single)
<1>1. Init => Down /\ Single
  BY DEF Init, Down, Single
<1>2. Typed /\ Down /\ Single /\ [Next]_vars => Down' /\ Single'
  BY DownStep, SingleStep
<1> QED
  BY <1>1, <1>2, TypedInductive, PTL DEF Spec

\* The poll loop and the watcher of the webhook start each other and never run
\* side by side: whoever starts the next one ends with that step, and the one
\* start of the process finds none.  Two long polls would end each other with
\* Conflict, and two loops overwrite each other's offset.  (app.go:203-295, 306-344)
THEOREM ReceiverIsAlone == Spec => []OneReceiver
<1>1. Single => OneReceiver
  <2> SUFFICES ASSUME Single PROVE Cardinality(Receiving) <= 1
    BY DEF OneReceiver
  <2>1. CASE Receiving = {}
    BY <2>1, FS_EmptySet
  <2>2. CASE Receiving # {}
    <3>1. PICK t : t \in Receiving
      BY <2>2
    <3>2. \A s \in Receiving : s = t
      BY <3>1 DEF Single, Receiving
    <3>3. Receiving = {t}
      BY <3>1, <3>2
    <3>4. Cardinality({t}) = 1
      BY FS_Singleton
    <3> QED
      BY <3>3, <3>4
  <2> QED
    BY <2>1, <2>2
<1> QED
  BY <1>1, SingleInductive, PTL

-----------------------------------------------------------------------------
(* Nothing is lost.                                                        *)

\* An update has been dispatched, or a goroutine is about to without any help of
\* Telegram's, or was when the process died.
Safe(u) == u \in handled \/ u \in dropped \/ post[u] \in {"dispatch", "wizard"}

\* What is not in the queue is safe, and so is what the saved offset, or the
\* next one the poll loop saves, confirms.
Kept ==
  /\ queue \subseteq 1..sent
  /\ \A t \in Tasks : batch[t] \subseteq 1..sent
  /\ offset <= sent + 1
  /\ \A u \in 1..sent : u \in queue \/ Safe(u)
  /\ \A u \in 1..sent : u < offset => Safe(u)
  /\ \A t \in Tasks : \A v \in batch[t] : \A u \in 1..sent : u < v => u \in batch[t] \/ Safe(u)
  /\ \A t \in Tasks : pc[t] \in {"save", "wizard"} => Min(batch[t]) \in handled
  /\ \A u \in Updates : post[u] = "wizard" => u \in handled

LEMMA InitKept == Init => Kept
BY DEF Init, Kept, Updates

\* What is safe stays so, and what has run the wizard has been dispatched.
StaysSafe ==
  /\ \A u \in Updates : Safe(u) => Safe(u)'
  /\ \A u \in Updates : post'[u] = "wizard" => u \in handled'
  /\ handled \subseteq handled'

LEMMA SafeForever ==
  ASSUME Typed, Kept, [Next]_vars
  PROVE  StaysSafe
<1> USE DEF StaysSafe, Safe, Kept
<1>1. CASE UNCHANGED <<post, handled, dropped>>
  BY <1>1
<1>2. CASE Dies
  BY <1>2 DEF Dies
<1>3. CASE FinishWizard
  BY <1>3 DEF FinishWizard, history, Typed, TypeOK
<1>4. ASSUME NEW u \in Updates, Post(u) \/ Webhook(u)
      PROVE  StaysSafe
  <2> USE DEF Typed, TypeOK, history
  <2>1. CASE Post(u) \/ ConfirmInbound(u) \/ SwitchMode(u)
    BY <1>4, <2>1 DEF Post, ConfirmInbound, Answered, SwitchMode
  <2>2. CASE PostStopsPolling(u) \/ PostCloses(u) \/ PostStopped(u)
    BY <1>4, <2>2 DEF PostStopsPolling, PostCloses, PostStopped, Answered
  <2>3. CASE PostDispatches(u)
    BY <2>3 DEF PostDispatches, Dispatch, DispatchInVain
  <2> QED
    BY <1>4, <2>1, <2>2, <2>3 DEF Webhook
<1>5. ASSUME NEW t \in Tasks, Task(t)
      PROVE  StaysSafe
  <2>1. CASE PollDispatch(t)
    BY <2>1 DEF PollDispatch, Dispatch, DispatchInVain
  <2>2. CASE FallbackClose(t)
    BY <1>1, <1>2, <2>2 DEF FallbackClose, history
  <2>3. CASE ~PollDispatch(t) /\ ~FallbackClose(t)
    BY <1>1, <1>5, <2>3
    DEF Task, PollTop, GetUpdates, GetConflicts, GetFails, Conflict, RemoveLeftover,
        SaveOffset, LoadConfig, ApplyConfig, WatchTick, WatchOn, WatchStuck, WatchUnhealthy,
        FallbackDelete, FallbackMode, FallbackInbound, FallbackStop, FallbackStopped, FallbackStart, history
  <2> QED
    BY <2>1, <2>2, <2>3
<1>6. CASE Send \/ StartWebhook \/ StartPolling \/ SetWebhook \/ UNCHANGED vars
  BY <1>1, <1>6 DEF Send, StartWebhook, StartPolling, SetWebhook, vars, history
<1> QED
  BY <1>2, <1>3, <1>4, <1>5, <1>6 DEF Next, Crash

\* Most steps touch neither the queue nor an offset or a batch.
LEMMA KeptFrame ==
  ASSUME Typed, Kept, StaysSafe, UNCHANGED <<sent, batch>>,
         queue' \subseteq queue, \A u \in queue \ queue' : Safe(u)',
         offset' \in {offset, 0},
         \A t \in Tasks : pc'[t] \in {"save", "wizard"} => pc[t] \in {"save", "wizard"}
  PROVE  Kept'
<1>1. 1..sent \subseteq Updates
  BY TgAssumption DEF Typed, TypeOK, Updates
<1>2. \A u \in 1..sent : Safe(u) => Safe(u)'
  BY <1>1 DEF StaysSafe
<1>3. offset' <= sent' + 1
  BY DEF Kept, Typed, TypeOK
<1>4. \A u \in 1..sent : u < offset' => Safe(u)'
  BY <1>2 DEF Kept, Typed, TypeOK
<1>5. \A t \in Tasks : pc'[t] \in {"save", "wizard"} => Min(batch'[t]) \in handled'
  BY DEF Kept, StaysSafe
<1>6. \A u \in 1..sent : u \in queue' \/ Safe(u)'
  BY <1>2 DEF Kept
<1>7. \A t \in Tasks : \A v \in batch'[t] : \A u \in 1..sent' : u < v => u \in batch'[t] \/ Safe(u)'
  BY <1>2 DEF Kept
<1> QED
  BY <1>3, <1>4, <1>5, <1>6, <1>7 DEF Kept, StaysSafe

LEMMA KeptStep ==
  ASSUME Typed, Kept, [Next]_vars
  PROVE  Kept'
<1>0. StaysSafe
  BY SafeForever
<1>1. 1..sent \subseteq Updates
  BY TgAssumption DEF Typed, TypeOK, Updates
<1>2. CASE Send
  <2>1. UNCHANGED <<offset, batch, pc, post, handled, dropped>> /\ sent' = sent + 1 /\ queue' = queue \cup {sent + 1}
    BY <1>2 DEF Send, fileVars, history
  <2>2. \A u \in 1..sent' : u \in 1..sent \/ u = sent + 1
    BY <2>1 DEF Typed, TypeOK
  <2>3. sent \in Nat /\ sent' \in Nat /\ 1..sent \subseteq 1..sent' /\ sent + 1 \in 1..sent'
    BY <2>1 DEF Typed, TypeOK
  <2>4. offset <= sent + 1 /\ offset \in Nat /\ \A t \in Tasks : \A v \in batch[t] : ~(sent + 1 < v)
    BY <2>3 DEF Kept, Typed, TypeOK
  <2>5. offset' <= sent' + 1 /\ ~(sent + 1 < offset')
    BY <2>1, <2>3, <2>4
  <2> QED
    BY <2>1, <2>2, <2>3, <2>4, <2>5 DEF Kept, Safe
<1>3. ASSUME NEW t \in Tasks, GetUpdates(t)
      PROVE  Kept'
  <2>1. /\ UNCHANGED <<sent, offset, post, handled, dropped>>
        /\ pc' = [pc EXCEPT ![t] = "process"]
        /\ queue' = {u \in queue : u >= offset}
        /\ batch' = [batch EXCEPT ![t] = queue']
    BY <1>3 DEF GetUpdates, fileVars, history
  <2>2. \A u : Safe(u)' <=> Safe(u)
    BY <2>1 DEF Safe
  <2>3. \A u \in 1..sent : u \in queue' \/ Safe(u)
    BY <2>1 DEF Kept, Typed, TypeOK
  <2>4. /\ queue' \subseteq 1..sent
        /\ \A s \in Tasks : batch'[s] \subseteq 1..sent
    BY <2>1 DEF Kept, Typed, TypeOK
  <2>5. \A s \in Tasks : \A v \in batch'[s] : \A u \in 1..sent : u < v => u \in batch'[s] \/ Safe(u)
    BY <2>1, <2>3 DEF Kept, Typed, TypeOK
  <2>6. \A s \in Tasks : pc'[s] \in {"save", "wizard"} => Min(batch'[s]) \in handled
    BY <2>1 DEF Kept, Typed, TypeOK
  <2> QED
    BY <2>1, <2>2, <2>3, <2>4, <2>5, <2>6 DEF Kept
<1>4. ASSUME NEW t \in Tasks, PollDispatch(t)
      PROVE  Kept'
  <2>1. /\ UNCHANGED <<sent, offset, queue, batch, post, dropped>>
        /\ handled' = handled \cup {Min(batch[t])}
        /\ \A s \in Tasks \ {t} : pc'[s] = pc[s]
    BY <1>4 DEF PollDispatch, Dispatch, DispatchInVain, tgVars, Typed, TypeOK
  <2>2. \A s \in Tasks : pc'[s] \in {"save", "wizard"} => Min(batch'[s]) \in handled'
    BY <2>1 DEF Kept
  <2>3. \A u : Safe(u) => Safe(u)'
    BY <2>1 DEF Safe
  <2> QED
    BY <2>1, <2>2, <2>3 DEF Kept
<1>5. ASSUME NEW t \in Tasks, SaveOffset(t)
      PROVE  Kept'
  <2> DEFINE m == Min(batch[t])
  <2>1. /\ UNCHANGED <<sent, queue, post, handled, dropped>>
        /\ offset' \in {m + 1, offset, 0}
        /\ batch' = [batch EXCEPT ![t] = @ \ {m}]
        /\ pc' = [pc EXCEPT ![t] = "process"] /\ pc[t] = "save"
    BY <1>5 DEF SaveOffset, tgVars, history
  <2>2. batch[t] \subseteq Nat /\ batch[t] # {}
    BY <2>1 DEF Typed, TypeOK, Batched, Updates
  <2>3. m \in batch[t] /\ \A v \in batch[t] : m <= v
    BY <2>2, MinIsLeast
  <2>4. m \in handled /\ m \in 1..sent
    BY <2>1, <2>3 DEF Kept
  <2> HIDE DEF m
  <2>5. \A u : Safe(u)' <=> Safe(u)
    BY <2>1 DEF Safe
  <2>6. \A u \in 1..sent : u < m => Safe(u)
    <3> SUFFICES ASSUME NEW u \in 1..sent, u < m PROVE Safe(u)
      OBVIOUS
    <3>1. u \notin batch[t]
      BY <2>2, <2>3, <2>4
    <3> QED
      BY <2>3, <3>1 DEF Kept
  <2>7. Safe(m)
    BY <2>4 DEF Safe
  <2>8. \A u \in 1..sent : u < m + 1 => Safe(u)
    BY <2>4, <2>6, <2>7
  <2>9. offset' <= sent + 1 /\ \A u \in 1..sent : u < offset' => Safe(u)
    BY <2>1, <2>4, <2>8 DEF Kept, Typed, TypeOK
  <2>10. \A s \in Tasks : \A v \in batch'[s] : \A u \in 1..sent : u < v => u \in batch'[s] \/ Safe(u)
    BY <2>1, <2>7 DEF Kept, Typed, TypeOK
  <2>11. \A s \in Tasks : batch'[s] \subseteq 1..sent
    BY <2>1 DEF Kept, Typed, TypeOK
  <2>12. \A s \in Tasks : pc'[s] \in {"save", "wizard"} => Min(batch'[s]) \in handled
    BY <2>1 DEF Kept, Typed, TypeOK
  <2> QED
    BY <2>1, <2>5, <2>9, <2>10, <2>11, <2>12 DEF Kept
<1>6. ASSUME NEW u \in Updates, Post(u) \/ Webhook(u)
      PROVE  Kept'
  <2>1. UNCHANGED <<sent, batch, offset, pc>>
    BY <1>6 DEF Post, Webhook, ConfirmInbound, SwitchMode, PostStopsPolling, PostCloses,
                PostStopped, PostDispatches, tgVars, fileVars
  <2>2. queue' \subseteq queue /\ \A v \in queue \ queue' : Safe(v)'
    <3>1. CASE ConfirmInbound(u) \/ PostStopped(u)
      BY <3>1 DEF ConfirmInbound, PostStopped, Answered, Safe, Typed, TypeOK
    <3>2. CASE ~ConfirmInbound(u) /\ ~PostStopped(u)
      BY <1>6, <3>2 DEF Post, Webhook, SwitchMode, PostStopsPolling, PostCloses, PostDispatches, tgVars
    <3> QED
      BY <3>1, <3>2
  <2> QED
    BY <1>0, <2>1, <2>2, KeptFrame
<1>7. CASE Dies /\ UNCHANGED <<sent, queue>> /\ offset' \in {offset, 0}
  <2>1. \A t \in Tasks : batch'[t] = {} /\ pc'[t] = "none"
    BY <1>7 DEF Dies
  <2>2. \A u \in 1..sent : Safe(u) => Safe(u)'
    BY <1>0, <1>1 DEF StaysSafe
  <2>3. offset' <= sent + 1 /\ \A u \in 1..sent : u < offset' => Safe(u)
    BY <1>7 DEF Kept, Typed, TypeOK
  <2> QED
    BY <1>0, <1>7, <2>1, <2>2, <2>3 DEF Kept, StaysSafe
<1>8. CASE \/ UNCHANGED vars \/ SetWebhook \/ FinishWizard \/ StartWebhook \/ StartPolling
  <2>1. UNCHANGED <<sent, queue, batch, offset>>
    BY <1>8 DEF vars, SetWebhook, FinishWizard, StartWebhook, StartPolling, tgVars, fileVars
  <2>2. \A t \in Tasks : pc'[t] \in {"save", "wizard"} => pc[t] \in {"save", "wizard"}
    BY <1>8 DEF vars, SetWebhook, FinishWizard, StartWebhook, StartPolling, Only
  <2> QED
    BY <1>0, <2>1, <2>2, KeptFrame
<1>9. ASSUME NEW t \in Tasks, Task(t), ~GetUpdates(t), ~PollDispatch(t), ~SaveOffset(t), ~FallbackClose(t)
      PROVE  Kept'
  <2>1. UNCHANGED <<sent, queue, batch, offset>>
    BY <1>9
    DEF Task, PollTop, GetConflicts, GetFails, Conflict, RemoveLeftover, LoadConfig, ApplyConfig,
        WatchTick, WatchOn, WatchStuck, WatchUnhealthy, FallbackDelete, FallbackMode,
        FallbackInbound, FallbackStop, FallbackStopped, FallbackStart, tgVars, fileVars
  <2>2. pc'[t] \notin {"save", "wizard"} /\ \A s \in Tasks \ {t} : pc'[s] \in {"save", "wizard"} => pc'[s] = pc[s]
    BY <1>9
    DEF Task, PollTop, GetConflicts, GetFails, Conflict, RemoveLeftover, LoadConfig, ApplyConfig,
        WatchTick, WatchOn, WatchStuck, WatchUnhealthy, FallbackDelete, FallbackMode,
        FallbackInbound, FallbackStop, FallbackStopped, FallbackStart, Replace, Typed, TypeOK
  <2> QED
    BY <1>0, <2>1, <2>2, KeptFrame
<1>10. ASSUME NEW t \in Tasks, FallbackClose(t)
       PROVE  Kept'
  <2>1. CASE stopped
    BY <1>7, <1>10, <2>1 DEF FallbackClose, Dies, tgVars
  <2>2. CASE ~stopped
    BY <1>0, <1>10, <2>2, KeptFrame DEF FallbackClose, tgVars, fileVars, Typed, TypeOK
  <2> QED
    BY <2>1, <2>2
<1>11. CASE Crash
  BY <1>7, <1>11 DEF Crash, Dies, tgVars
<1> QED
  BY <1>2, <1>3, <1>4, <1>5, <1>6, <1>8, <1>9, <1>10, <1>11 DEF Next

\* An update Telegram no longer keeps has been dispatched, is about to be, or
\* was when the process died.  getUpdates confirms what is below the offset, so
\* the proof shows of every update below it - and below any that the poll loop
\* has in hand - that it needs no delivery any more, whatever POSTs deliver
\* meanwhile, whatever writes of the offset fail and whenever the Master dies.
\* (app.go:297-396)
THEOREM UpdatesAreKept == Spec => []NothingLost
<1>1. Typed /\ Kept => NothingLost
  BY DEF Kept, NothingLost, Safe
<1>2. Typed /\ Kept /\ [Next]_vars => Kept'
  BY KeptStep
<1> QED
  BY <1>1, <1>2, InitKept, SingleInductive, PTL DEF Spec

-----------------------------------------------------------------------------
(* Somebody receives until a POST confirms the webhook.                    *)

\* No POST has confirmed the webhook, nor met a way back to polling.
Unconfirmed == ~inbound /\ ~raced

Watching == {"tick", "info", "fbDelete", "fbMode"}

\* A POST that switches to the webhook has confirmed it, so until then the
\* channel is closed by the fallback alone, which opens it again, and the mode
\* is what the receiver takes it for.  Only the end of the wizard could change
\* it under a watcher: but whatever brings the wizard's last answer to a
\* watched webhook confirms it.
Attended ==
  /\ up /\ Unconfirmed => \E t \in Tasks : pc[t] # "none"
  /\ \A u \in Updates : post[u] \in {"mode", "stop", "close", "flag"} => ~Unconfirmed
  /\ up /\ stopped /\ Unconfirmed => \E t \in Tasks : pc[t] \in {"fbFlag", "fbStart"}
  /\ \A t \in Tasks : pc[t] = "fbStart" => ~polling
  /\ \A t \in Tasks : pc[t] \in {"tick", "info"} /\ Unconfirmed => mode = "webhook"
  /\ Unconfirmed /\ wiz # "over" =>
       \A t \in Tasks :
         /\ pc[t] \in Watching =>
              /\ base /\ mode = "webhook" /\ wiz = "asked"
              /\ \A u \in Updates : post[u] \in {"none", "entry"}
         /\ pc[t] \notin Watching \cup {"none"} => mode = "polling" /\ diskMode = "polling"
         /\ pc[t] = "apply" => read[t] # "webhook"

AttendedInv == Typed /\ Down /\ Single /\ Attended

LEMMA InitAttended ==
  ASSUME Init
  PROVE  Attended
<1>1. ~up /\ (\A t \in Tasks : pc[t] = "none") /\ \A u \in Updates : post[u] = "none"
  BY DEF Init
<1> QED
  BY <1>1 DEF Attended, Watching

LEMMA DiesAttended ==
  ASSUME Dies
  PROVE  Attended'
<1>1. ~up' /\ wiz' = "over" /\ (\A t \in Tasks : pc'[t] = "none") /\ \A u \in Updates : post'[u] = "none"
  BY DEF Dies
<1> QED
  BY <1>1 DEF Attended

\* A task that goes on somewhere among its own kind.
LEMMA PollerAttended ==
  ASSUME AttendedInv, NEW t \in Tasks,
         \/ GetUpdates(t) \/ GetConflicts(t) \/ GetFails(t) \/ RemoveLeftover(t)
         \/ SaveOffset(t) \/ LoadConfig(t) \/ ApplyConfig(t) \/ PollDispatch(t)
  PROVE  Attended'
<1> USE DEF AttendedInv, Attended, Unconfirmed, Watching, Single, Typed, TypeOK
<1>1. CASE GetUpdates(t) \/ GetConflicts(t) \/ GetFails(t) \/ RemoveLeftover(t) \/ SaveOffset(t)
  BY <1>1 DEF GetUpdates, GetConflicts, GetFails, RemoveLeftover, SaveOffset, flagVars, fileVars, history
<1>2. CASE LoadConfig(t)
  <2>1. UNCHANGED <<up, inbound, raced, post, stopped, polling, mode, diskMode, base, wiz>>
    BY <1>2 DEF LoadConfig, flagVars, fileVars, history
  <2>2. pc' = [pc EXCEPT ![t] = "apply"] /\ pc[t] = "process"
    BY <1>2 DEF LoadConfig
  <2>3. diskMode = "polling" => read'[t] # "webhook"
    BY <1>2 DEF LoadConfig, Loaded
  <2>4. \A s \in Tasks \ {t} : pc'[s] = "none"
    BY <2>2
  <2> QED
    BY <2>1, <2>2, <2>3, <2>4
<1>3. CASE ApplyConfig(t)
  <2>1. UNCHANGED <<up, inbound, raced, post, stopped, polling, diskMode, wiz, read>>
    BY <1>3 DEF ApplyConfig, fileVars, history
  <2>2. pc' = [pc EXCEPT ![t] = "top"] /\ pc[t] = "apply"
    BY <1>3 DEF ApplyConfig
  <2>3. read[t] # "webhook" => mode' = "polling"
    BY <1>3 DEF ApplyConfig, Apply, Modes
  <2>4. \A s \in Tasks \ {t} : pc'[s] = "none"
    BY <2>2
  <2> QED
    BY <2>1, <2>2, <2>3, <2>4
<1>4. CASE PollDispatch(t)
  BY <1>4 DEF PollDispatch, Dispatch, DispatchInVain, Answers
<1> QED
  BY <1>1, <1>2, <1>3, <1>4

\* The poll loop stops or hands over to a watcher.
LEMMA HandOverAttended ==
  ASSUME AttendedInv, NEW t \in Tasks, PollTop(t) \/ Conflict(t)
  PROVE  Attended'
<1> USE DEF AttendedInv, Attended, Unconfirmed, Watching, Single, Typed, TypeOK
<1>0. up /\ \A s \in Tasks \ {t} : pc[s] = "none"
  BY DEF PollTop, Conflict, Down
<1>1. ASSUME NEW s \in Tasks, pc' = [pc EXCEPT ![t] = "none", ![s] = "tick"],
             UNCHANGED <<up, inbound, raced, post, stopped, wiz>>, mode' = "webhook",
             Unconfirmed => wiz = "over", pc[t] \in {"top", "conflict"}
      PROVE  Attended'
  <2>1. pc'[s] = "tick" /\ \A r \in Tasks \ {s} : pc'[r] = "none"
    BY <1>0, <1>1
  <2> QED
    BY <1>0, <1>1, <2>1
<1>2. CASE PollTop(t)
  <2>1. UNCHANGED <<up, inbound, raced, post, stopped, mode, diskMode, base, wiz, read>> /\ pc[t] = "top"
    BY <1>2 DEF PollTop, fileVars, history
  <2>2. CASE pc' = [pc EXCEPT ![t] = "none"] /\ (stopped \/ (mode = "webhook" /\ inbound))
    <3>1. ~Unconfirmed
      BY <1>0, <2>1, <2>2
    <3>2. \A s \in Tasks : pc'[s] = "none"
      BY <1>0, <2>2
    <3> QED
      BY <2>1, <3>1, <3>2
  <2>3. CASE ~stopped /\ mode = "webhook" /\ ~inbound /\ Replace(t, "tick")
    <3>1. PICK s \in Tasks : pc' = [pc EXCEPT ![t] = "none", ![s] = "tick"]
      BY <2>3 DEF Replace
    <3> QED
      BY <1>1, <2>1, <2>3, <3>1
  <2>4. CASE pc' = [pc EXCEPT ![t] = "get"] /\ ~stopped /\ UNCHANGED polling
    <3>1. pc'[t] = "get" /\ \A s \in Tasks \ {t} : pc'[s] = "none"
      BY <1>0, <2>4
    <3> QED
      BY <2>1, <2>4, <3>1
  <2> QED
    BY <1>2, <2>2, <2>3, <2>4 DEF PollTop
<1>3. CASE Conflict(t)
  <2>1. UNCHANGED <<up, inbound, raced, post, stopped, diskMode, wiz, read>> /\ pc[t] = "conflict"
    BY <1>3 DEF Conflict, fileVars, history
  <2>2. diskMode = "polling" => mode' = "polling"
    BY <1>3 DEF Conflict, Loaded, Apply
  <2>3. CASE mode' = "webhook" /\ Replace(t, "tick")
    <3>1. PICK s \in Tasks : pc' = [pc EXCEPT ![t] = "none", ![s] = "tick"]
      BY <2>3 DEF Replace
    <3> QED
      BY <1>1, <2>1, <2>2, <2>3, <3>1
  <2>4. CASE pc' = [pc EXCEPT ![t] = "unhook"]
    <3>1. pc'[t] = "unhook" /\ \A s \in Tasks \ {t} : pc'[s] = "none"
      BY <1>0, <2>4
    <3> QED
      BY <2>1, <2>2, <3>1
  <2> QED
    BY <1>3, <2>3, <2>4 DEF Conflict
<1> QED
  BY <1>2, <1>3

\* The watcher and its fallback.
LEMMA WatcherAttended ==
  ASSUME AttendedInv, NEW t \in Tasks,
         \/ WatchTick(t) \/ WatchOn(t) \/ WatchStuck(t) \/ WatchUnhealthy(t)
         \/ FallbackDelete(t) \/ FallbackMode(t) \/ FallbackInbound(t)
         \/ FallbackStop(t) \/ FallbackClose(t) \/ FallbackStopped(t) \/ FallbackStart(t)
  PROVE  Attended'
<1> USE DEF AttendedInv, Attended, Unconfirmed, Watching, Single, Typed, TypeOK
<1>0. up /\ pc[t] # "none" /\ \A s \in Tasks \ {t} : pc[s] = "none"
  BY DEF WatchTick, WatchOn, WatchStuck, WatchUnhealthy, FallbackDelete, FallbackMode, FallbackInbound,
         FallbackStop, FallbackClose, FallbackStopped, FallbackStart, Down
<1>1. CASE WatchTick(t)
  <2>1. UNCHANGED <<up, inbound, raced, post, stopped, polling, mode, diskMode, base, wiz, read>> /\ pc[t] = "tick"
    BY <1>1 DEF WatchTick, flagVars, fileVars, history
  <2>2. CASE Unconfirmed
    <3>1. pc' = [pc EXCEPT ![t] = "info"]
      BY <1>1, <2>1, <2>2 DEF WatchTick
    <3>2. pc'[t] = "info" /\ \A s \in Tasks \ {t} : pc'[s] = "none"
      BY <1>0, <3>1
    <3> QED
      BY <1>0, <2>1, <3>2
  <2>3. CASE ~Unconfirmed
    <3>1. pc' = [pc EXCEPT ![t] = "info"] \/ pc' = [pc EXCEPT ![t] = "none"]
      BY <1>1 DEF WatchTick
    <3>2. pc'[t] \in {"info", "none"} /\ \A s \in Tasks \ {t} : pc'[s] = "none"
      BY <1>0, <3>1
    <3>3. ~Unconfirmed'
      BY <2>1, <2>3
    <3> QED
      BY <1>0, <2>1, <3>2, <3>3
  <2> QED
    BY <2>2, <2>3
<1>2. CASE WatchOn(t) \/ WatchStuck(t) \/ WatchUnhealthy(t) \/ FallbackDelete(t)
  <2>1. UNCHANGED <<up, inbound, raced, post, stopped, polling, mode, diskMode, base, wiz, read>> /\ pc[t] \in {"info", "fbDelete"}
    BY <1>2 DEF WatchOn, WatchStuck, WatchUnhealthy, FallbackDelete, flagVars, fileVars, history
  <2>2. pc' = [pc EXCEPT ![t] = pc'[t]] /\ (pc'[t] \in {"fbDelete", "fbMode"} \/ (pc'[t] = "tick" /\ pc[t] = "info"))
    BY <1>2 DEF WatchOn, WatchStuck, WatchUnhealthy, FallbackDelete
  <2>3. \A s \in Tasks \ {t} : pc'[s] = "none"
    BY <1>0, <2>2
  <2> QED
    BY <1>0, <2>1, <2>2, <2>3
<1>3. CASE FallbackMode(t)
  BY <1>0, <1>3 DEF FallbackMode, history
<1>4. CASE FallbackInbound(t)
  BY <1>0, <1>4 DEF FallbackInbound, fileVars
<1>5. CASE FallbackStop(t)
  BY <1>0, <1>5 DEF FallbackStop, flagVars, fileVars, history
<1>6. CASE FallbackClose(t)
  <2>1. CASE Dies
    BY <2>1, DiesAttended
  <2>2. CASE ~Dies
    <3>1. pc[t] = "fbClose" /\ pc' = [pc EXCEPT ![t] = "fbFlag"]
      BY <1>6, <2>2 DEF FallbackClose
    <3>2. UNCHANGED <<up, inbound, raced, post, mode, diskMode, base, wiz, read, polling>>
      BY <1>6, <2>2 DEF FallbackClose, fileVars, history
    <3>3. pc'[t] = "fbFlag" /\ \A s \in Tasks \ {t} : pc'[s] = "none"
      BY <1>0, <3>1
    <3> QED
      BY <1>0, <3>1, <3>2, <3>3
  <2> QED
    BY <2>1, <2>2
<1>7. CASE FallbackStopped(t)
  BY <1>0, <1>7 DEF FallbackStopped, fileVars, history
<1>8. CASE FallbackStart(t)
  <2>1. UNCHANGED <<up, inbound, raced, post, mode, diskMode, base, wiz, read>> /\ pc[t] = "fbStart"
    BY <1>8 DEF FallbackStart, fileVars, history
  <2>2. PICK s \in Tasks : pc' = [pc EXCEPT ![t] = "none", ![s] = "top"]
    BY <1>8, <2>1 DEF FallbackStart, Replace
  <2>3. ~stopped' /\ pc'[s] = "top" /\ \A r \in Tasks \ {s} : pc'[r] = "none"
    BY <1>0, <1>8, <2>1, <2>2 DEF FallbackStart
  <2> QED
    BY <1>0, <2>1, <2>3
<1> QED
  BY <1>1, <1>2, <1>3, <1>4, <1>5, <1>6, <1>7, <1>8

\* The POSTs, and the wizard one of them runs.
LEMMA PostAttended ==
  ASSUME AttendedInv, NEW u \in Updates, Post(u) \/ Webhook(u)
  PROVE  Attended'
<1> USE DEF AttendedInv, Attended, Unconfirmed, Watching, Typed, TypeOK
<1>1. CASE Post(u)
  BY <1>1 DEF Post, flagVars, fileVars, history
<1>2. CASE ConfirmInbound(u)
  <2>1. UNCHANGED <<up, raced, stopped, mode, diskMode, base, wiz, read, polling, pc>>
    BY <1>2 DEF ConfirmInbound, fileVars, history
  <2>2. CASE base /\ ~inbound
    BY <1>2, <2>1, <2>2 DEF ConfirmInbound
  <2>3. CASE ~base \/ inbound
    BY <1>2, <2>1, <2>3 DEF ConfirmInbound, Answered
  <2> QED
    BY <2>2, <2>3
<1>3. CASE SwitchMode(u)
  BY <1>3 DEF SwitchMode, history
<1>4. CASE PostStopsPolling(u)
  BY <1>4 DEF PostStopsPolling, flagVars, fileVars
<1>5. CASE PostCloses(u)
  BY <1>5 DEF PostCloses, fileVars, history
<1>6. CASE PostStopped(u)
  BY <1>6 DEF PostStopped, Answered, fileVars, history
<1>7. CASE PostDispatches(u)
  BY <1>7 DEF PostDispatches, Dispatch, DispatchInVain, Answers
<1> QED
  BY <1>1, <1>2, <1>3, <1>4, <1>5, <1>6, <1>7 DEF Webhook

LEMMA ElseAttended ==
  ASSUME AttendedInv,
         \/ Send \/ StartWebhook \/ StartPolling \/ Crash \/ SetWebhook \/ FinishWizard
         \/ UNCHANGED vars
  PROVE  Attended'
<1> USE DEF AttendedInv, Attended, Unconfirmed, Watching
<1>1. CASE Send \/ UNCHANGED vars
  BY <1>1 DEF Send, vars, flagVars, fileVars, history
<1>2. CASE StartWebhook
  <2>1. /\ ~up /\ base /\ mode = "webhook"
        /\ UNCHANGED <<inbound, raced, stopped, mode, base, wiz, post>>
    BY <1>2 DEF StartWebhook, flagVars, fileVars, history
  <2>2. PICK t \in Tasks : pc' = [s \in Tasks |-> IF s = t THEN "tick" ELSE "none"]
    BY <1>2 DEF StartWebhook, Only
  <2> QED
    BY <2>1, <2>2 DEF Down
<1>3. CASE StartPolling
  <2>1. /\ ~up /\ mode' = "polling" /\ diskMode' = "polling"
        /\ UNCHANGED <<inbound, raced, stopped, wiz, post>>
    BY <1>3 DEF StartPolling, history
  <2>2. PICK t \in Tasks : pc' = [s \in Tasks |-> IF s = t THEN "top" ELSE "none"]
    BY <1>3 DEF StartPolling, Only
  <2> QED
    BY <2>1, <2>2 DEF Down
<1>4. CASE Crash
  BY <1>4, DiesAttended DEF Crash
<1>5. CASE SetWebhook
  BY <1>5 DEF SetWebhook, flagVars, fileVars, history
<1>6. CASE FinishWizard
  <2>1. wiz \in {"accepted", "rejected"} /\ wiz' = "over" /\ UNCHANGED <<up, inbound, raced, stopped, polling>>
    BY <1>6 DEF FinishWizard, history
  <2>2. pc' = [t \in Tasks |-> IF pc[t] = "wizard" THEN "save" ELSE pc[t]]
    BY <1>6 DEF FinishWizard
  <2>3. \A u \in Updates : post'[u] \in {post[u], "none"}
    BY <1>6 DEF FinishWizard
  <2>4. Unconfirmed => \A t \in Tasks : pc[t] \notin {"tick", "info"}
    BY <2>1
  <2> QED
    BY <2>1, <2>2, <2>3, <2>4
<1> QED
  BY <1>1, <1>2, <1>3, <1>4, <1>5, <1>6

\* As long as no POST has confirmed the webhook somebody polls, or watches and
\* will fall back to polling - except after a POST whose switch met a fallback
\* or a webhook just deleted, which MCTgModeDeaf shows to be a real exception.
\* (app.go:115-155, 203-295)
THEOREM WebhookIsAttended == Spec => []AttendedUntilConfirmed
<1>1. Attended => AttendedUntilConfirmed
  BY DEF Attended, Unconfirmed, AttendedUntilConfirmed, Receiving
<1>2. AttendedInv /\ [Next]_vars => Attended'
  BY PollerAttended, HandOverAttended, WatcherAttended, PostAttended, ElseAttended DEF Next, Task
<1> QED
  BY <1>1, <1>2, InitAttended, SingleInductive, PTL DEF Spec, AttendedInv
=============================================================================
