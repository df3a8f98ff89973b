------------------------------- MODULE TgMode -------------------------------
(***************************************************************************)
(* How the Master receives Telegram updates: long polling, or a webhook    *)
(* with a watcher that falls back to polling until a first POST proves the *)
(* public address works.  Sources: internal/master/app.go and the last     *)
(* question of the /nginx wizard in internal/master/handlers.go.           *)
(*                                                                         *)
(* Goroutines: pollLoop and watchWebhook run as Tasks, one of which starts *)
(* another and ends; every POST of Telegram runs handleWebhook and then    *)
(* processUpdate, at most one at a time per update.  Telegram keeps what   *)
(* it has not delivered; every call to it may fail.  StartTG is one step:  *)
(* it returns before the HTTP server serves.                               *)
(***************************************************************************)
EXTENDS Naturals, FiniteSetsExt

CONSTANTS
  MaxUpdates,   \* bound: updates users send; update_id is 1..MaxUpdates
  MaxCrashes,   \* bound: how often the Master process dies
  Wizard,       \* the update that answers the wizard's last question
  Tasks         \* slots for the receiving goroutines

ASSUME TgAssumption == MaxUpdates \in Nat /\ MaxCrashes \in Nat

Updates == 1..MaxUpdates
Modes   == {"polling", "webhook"}

VARIABLES
  \* Telegram
  sent,      \* updates users have sent: 1..sent
  queue,     \* updates Telegram still wants to deliver
  hook,      \* a webhook is registered
  \* Files
  diskMode,  \* TG_MODE in master.conf
  diskBase,  \* it has a PUBLIC_BASE_URL
  offset,    \* .tg_offset
  \* The Master's memory
  up,        \* the process serves
  crashes,
  mode,      \* a.Cfg.TGMode
  base,      \* a.Cfg.PublicBaseURL is not empty
  inbound,   \* a.tgInbound
  polling,   \* a.polling
  stopped,   \* the current a.pollStop is closed
  pc,        \* control state of each task
  batch,     \* what its last getUpdates returned and it has not processed
  read,      \* what its last LoadConfig returned
  post,      \* control state of the POST of each update
  wiz,       \* h.nginx and the wizard's progress
  \* History
  handled,   \* updates whose Dispatch has begun
  dropped,   \* updates whose processing died with the process, after the 200
  raced      \* a POST's switch to the webhook overlapped a way back to polling

tgVars   == <<sent, queue, hook>>
fileVars == <<diskMode, diskBase, offset>>
flagVars == <<mode, base, inbound, polling, stopped>>
history  == <<handled, dropped, raced>>
vars == <<tgVars, fileVars, up, crashes, flagVars, pc, batch, read, post, wiz, history>>

TypeOK ==
  /\ sent \in 0..MaxUpdates
  /\ queue \in SUBSET Updates
  /\ offset \in 0..(MaxUpdates + 1)
  /\ diskMode \in Modes /\ mode \in Modes
  /\ {hook, diskBase, base, up, inbound, polling, stopped, raced} \subseteq BOOLEAN
  /\ crashes \in 0..MaxCrashes
  /\ pc \in [Tasks -> {"none", "top", "get", "conflict", "unhook", "process", "wizard",
                       "save", "load", "apply", "tick", "info", "fbDelete", "fbMode",
                       "fbInbound", "fbStop", "fbClose", "fbFlag", "fbStart"}]
  /\ batch \in [Tasks -> SUBSET Updates]
  /\ read \in [Tasks -> Modes \cup {"torn"}]
  /\ post \in [Updates -> {"none", "entry", "mode", "stop", "close", "flag", "dispatch", "wizard"}]
  /\ wiz \in {"asked", "hooking", "accepted", "rejected", "over"}
  /\ handled \in SUBSET Updates
  /\ dropped \in SUBSET Updates

\* The Master is down, its configuration as an earlier run left it.
Init ==
  /\ sent = 0 /\ queue = {} /\ handled = {} /\ dropped = {} /\ raced = FALSE
  /\ diskMode \in Modes
  /\ diskBase \in {b \in BOOLEAN : diskMode = "webhook" => b}
  /\ hook = (diskMode = "webhook")
  /\ offset = 0
  /\ up = FALSE /\ crashes = 0
  /\ mode = diskMode /\ base = diskBase /\ inbound = FALSE /\ polling = FALSE /\ stopped = FALSE
  /\ pc = [t \in Tasks |-> "none"]
  /\ batch = [t \in Tasks |-> {}]
  /\ read = [t \in Tasks |-> "polling"]
  /\ post = [u \in Updates |-> "none"]
  /\ wiz = "asked"

-----------------------------------------------------------------------------
(* Telegram and its users.                                                 *)

Send ==
  /\ sent < MaxUpdates
  /\ sent' = sent + 1
  /\ queue' = queue \cup {sent + 1}
  /\ UNCHANGED <<hook, fileVars, up, crashes, flagVars, pc, batch, read, post, wiz, history>>

\* deleteWebhook: every caller ignores an error.
DeleteWebhook == hook' \in {FALSE, hook}

-----------------------------------------------------------------------------
(* StartTG.                                                                *)

\* A task t of the kind that starts in state p, and nothing else, runs.
Only(t, p) == pc' = [s \in Tasks |-> IF s = t THEN p ELSE "none"]

\* A webhook is wanted and setWebhook succeeds: watch it.
StartWebhook ==
  /\ ~up /\ base /\ mode = "webhook"
  /\ up' = TRUE /\ hook' = TRUE
  /\ \E t \in Tasks : Only(t, "tick")
  /\ UNCHANGED <<sent, queue, fileVars, crashes, flagVars, batch, read, post, wiz, history>>

\* No webhook is wanted, or setWebhook fails: poll.
StartPolling ==
  /\ ~up
  /\ up' = TRUE
  /\ hook' \in IF base /\ mode = "webhook" THEN BOOLEAN ELSE {FALSE, hook}
  /\ diskMode' = "polling" /\ mode' = "polling"
  /\ polling' = TRUE
  /\ \E t \in Tasks : Only(t, "top")
  /\ UNCHANGED <<sent, queue, diskBase, offset, crashes, base, inbound, stopped, batch, read, post, wiz, history>>

\* The process is gone; systemd starts it again.
Dies ==
  /\ up' = FALSE
  /\ mode' = diskMode /\ base' = diskBase /\ inbound' = FALSE /\ polling' = FALSE /\ stopped' = FALSE
  /\ pc' = [t \in Tasks |-> "none"]
  /\ batch' = [t \in Tasks |-> {}]
  /\ read' = [t \in Tasks |-> "polling"]
  /\ post' = [u \in Updates |-> "none"]
  /\ wiz' = "over"
  /\ dropped' = dropped \cup {u \in Updates : post[u] \in {"dispatch", "wizard"}}
  /\ raced' = FALSE
  /\ UNCHANGED <<tgVars, diskMode, diskBase, handled>>

\* It dies, or is stopped, maybe with .tg_offset cut and not written.
Crash ==
  /\ up /\ crashes < MaxCrashes
  /\ crashes' = crashes + 1
  /\ Dies
  /\ offset' \in {offset} \cup {0 : t \in {s \in Tasks : pc[s] = "save"}}

-----------------------------------------------------------------------------
(* Dispatch of an update, and the wizard's last step.                      *)

\* Whether u is the answer the wizard still waits for.
Answers(u) == u = Wizard /\ wiz = "asked"

\* Dispatch(u) begins; the wizard deploys nginx and saves PUBLIC_BASE_URL.
Dispatch(u) ==
  /\ handled' = handled \cup {u}
  /\ wiz'  = IF Answers(u) THEN "hooking" ELSE wiz
  /\ base' = (base \/ Answers(u))
  /\ diskBase' = (diskBase \/ Answers(u))

\* The wizard fails before it calls setWebhook (cancel, nginx, certificate).
DispatchInVain(u) ==
  /\ Answers(u)
  /\ handled' = handled \cup {u}
  /\ wiz' = "over"
  /\ UNCHANGED <<base, diskBase>>

\* An answer that is lost counts as an error.
SetWebhook ==
  /\ wiz = "hooking"
  /\ \/ wiz' = "accepted" /\ hook' = TRUE
     \/ wiz' = "rejected" /\ hook' \in {hook, TRUE}
  /\ UNCHANGED <<sent, queue, fileVars, up, crashes, flagVars, pc, batch, read, post, history>>

\* The outcome is saved, and the goroutine that ran the wizard goes on.
FinishWizard ==
  /\ wiz \in {"accepted", "rejected"}
  /\ mode' = IF wiz = "accepted" THEN "webhook" ELSE "polling"
  /\ diskMode' = mode'
  /\ wiz' = "over"
  /\ pc' = [t \in Tasks |-> IF pc[t] = "wizard" THEN "save" ELSE pc[t]]
  /\ post' = [u \in Updates |-> IF post[u] = "wizard" THEN "none" ELSE post[u]]
  /\ UNCHANGED <<tgVars, diskBase, offset, up, crashes, base, inbound, polling, stopped, batch, read, history>>

-----------------------------------------------------------------------------
(* handleWebhook.                                                          *)

Post(u) ==
  /\ up /\ hook /\ u \in queue /\ post[u] = "none"
  /\ post' = [post EXCEPT ![u] = "entry"]
  /\ UNCHANGED <<tgVars, fileVars, up, crashes, flagVars, pc, batch, read, wiz, history>>

\* handleWebhook starts processUpdate and returns; what it wrote, a 200, leaves
\* its buffer only then.  If that is lost, Telegram keeps the update.
Answered(u) ==
  /\ post' = [post EXCEPT ![u] = "dispatch"]
  /\ queue' \in {queue, queue \ {u}}

\* The first POST under a public address wins the CompareAndSwap.
ConfirmInbound(u) ==
  /\ post[u] = "entry"
  /\ IF base /\ ~inbound
       THEN inbound' = TRUE /\ post' = [post EXCEPT ![u] = "mode"] /\ UNCHANGED queue
       ELSE Answered(u) /\ UNCHANGED inbound
  /\ UNCHANGED <<sent, hook, fileVars, up, crashes, base, mode, polling, stopped, pc, batch, read, wiz, history>>

SwitchMode(u) ==
  /\ post[u] = "mode"
  /\ post' = [post EXCEPT ![u] = "stop"]
  /\ diskMode' = "webhook" /\ mode' = "webhook"
  /\ UNCHANGED <<tgVars, diskBase, offset, up, crashes, base, inbound, polling, stopped, pc, batch, read, wiz, history>>

\* StopPolling: it looks whether the channel is closed ...
PostStopsPolling(u) ==
  /\ post[u] = "stop"
  /\ post' = [post EXCEPT ![u] = IF stopped THEN "flag" ELSE "close"]
  /\ raced' = (raced \/ ~inbound \/ ~hook)
  /\ UNCHANGED <<tgVars, fileVars, up, crashes, flagVars, pc, batch, read, wiz, handled, dropped>>

\* ... and closes it.  If the watcher has done so meanwhile, that panics: the
\* HTTP server recovers and drops the connection, unanswered.
PostCloses(u) ==
  /\ post[u] = "close"
  /\ post' = [post EXCEPT ![u] = IF stopped THEN "none" ELSE "flag"]
  /\ stopped' = TRUE
  /\ UNCHANGED <<tgVars, fileVars, up, crashes, base, mode, inbound, polling, pc, batch, read, wiz, history>>

PostStopped(u) ==
  /\ post[u] = "flag"
  /\ polling' = FALSE
  /\ Answered(u)
  /\ UNCHANGED <<sent, hook, fileVars, up, crashes, base, mode, inbound, stopped, pc, batch, read, wiz, history>>

\* go a.processUpdate(update)
PostDispatches(u) ==
  /\ post[u] = "dispatch"
  /\ Dispatch(u) \/ DispatchInVain(u)
  /\ post' = [post EXCEPT ![u] = IF wiz' = "hooking" /\ Answers(u) THEN "wizard" ELSE "none"]
  /\ UNCHANGED <<tgVars, diskMode, offset, up, crashes, mode, inbound, polling, stopped, pc, batch, read, dropped, raced>>

-----------------------------------------------------------------------------
(* pollLoop.                                                               *)

\* Task t ends and a new one starts in state p.
Replace(t, p) ==
  \E s \in Tasks : pc[s] = "none" /\ pc' = [pc EXCEPT ![t] = "none", ![s] = p]

\* A bug to rule out: the loop leaves without a successor.
PollTopUnwatched(t) ==
  /\ pc[t] = "top"
  /\ IF stopped \/ mode = "webhook"
       THEN pc' = [pc EXCEPT ![t] = "none"] /\ polling' = FALSE
       ELSE pc' = [pc EXCEPT ![t] = "get"] /\ UNCHANGED polling
  /\ UNCHANGED <<tgVars, fileVars, up, crashes, base, mode, inbound, stopped, batch, read, post, wiz, history>>

\* The head of the loop: stop, leave to the webhook, or hand over to a watcher.
PollTop(t) ==
  /\ pc[t] = "top"
  /\ \/ /\ stopped \/ (mode = "webhook" /\ inbound)
        /\ pc' = [pc EXCEPT ![t] = "none"] /\ polling' = FALSE
     \/ /\ ~stopped /\ mode = "webhook" /\ ~inbound
        /\ Replace(t, "tick") /\ polling' = FALSE
     \/ /\ ~stopped /\ mode = "polling"
        /\ pc' = [pc EXCEPT ![t] = "get"] /\ UNCHANGED polling
  /\ UNCHANGED <<tgVars, fileVars, up, crashes, base, mode, inbound, stopped, batch, read, post, wiz, history>>

\* getUpdates answers: it confirms everything below offset.
GetUpdates(t) ==
  /\ pc[t] = "get" /\ ~hook
  /\ pc' = [pc EXCEPT ![t] = "process"]
  /\ queue' = {u \in queue : u >= offset}
  /\ batch' = [batch EXCEPT ![t] = queue']
  /\ UNCHANGED <<sent, hook, fileVars, up, crashes, flagVars, read, post, wiz, history>>

\* getUpdates is refused while a webhook is registered.
GetConflicts(t) ==
  /\ pc[t] = "get" /\ hook
  /\ pc' = [pc EXCEPT ![t] = "conflict"]
  /\ UNCHANGED <<tgVars, fileVars, up, crashes, flagVars, batch, read, post, wiz, history>>

\* getUpdates fails otherwise; the loop waits and goes on.
GetFails(t) ==
  /\ pc[t] = "get"
  /\ pc' = [pc EXCEPT ![t] = "top"]
  /\ UNCHANGED <<tgVars, fileVars, up, crashes, flagVars, batch, read, post, wiz, history>>

\* LoadConfig takes no lock.  While another goroutine rewrites the file with
\* SaveKeys, it may find it empty: no address, and TG_MODE by its default.
Loaded ==
  {diskMode} \cup {r \in {"torn"} : \E u \in Updates : post[u] \in {"mode", "dispatch", "wizard"}}

Apply(r) ==
  /\ mode' = IF r = "torn" THEN "polling" ELSE r
  /\ base' = (r # "torn" /\ diskBase)

\* After a Conflict the configuration is read again; if it says webhook, a
\* watcher takes over, otherwise the webhook is a leftover to remove.
Conflict(t) ==
  /\ pc[t] = "conflict"
  /\ \E r \in Loaded : Apply(r)
  /\ IF mode' = "webhook"
       THEN Replace(t, "tick") /\ polling' = FALSE
       ELSE pc' = [pc EXCEPT ![t] = "unhook"] /\ UNCHANGED polling
  /\ UNCHANGED <<tgVars, fileVars, up, crashes, inbound, stopped, batch, read, post, wiz, history>>

\* deleteWebhook, and on with the loop.
RemoveLeftover(t) ==
  /\ pc[t] = "unhook"
  /\ DeleteWebhook
  /\ pc' = [pc EXCEPT ![t] = "top"]
  /\ UNCHANGED <<sent, queue, fileVars, up, crashes, flagVars, batch, read, post, wiz, history>>

\* The updates of a batch are processed in order ...
PollDispatch(t) ==
  /\ pc[t] = "process" /\ batch[t] # {}
  /\ LET u == Min(batch[t]) IN
       /\ Dispatch(u) \/ DispatchInVain(u)
       /\ pc' = [pc EXCEPT ![t] = IF wiz' = "hooking" /\ Answers(u) THEN "wizard" ELSE "save"]
  /\ UNCHANGED <<tgVars, diskMode, offset, up, crashes, mode, inbound, polling, stopped, batch, read, post, dropped, raced>>

\* A bug to rule out: the whole batch is confirmed after its first update.
SaveOffsetAhead(t) ==
  /\ pc[t] = "save"
  /\ offset' = Max(batch[t]) + 1
  /\ batch' = [batch EXCEPT ![t] = @ \ {Min(@)}]
  /\ pc' = [pc EXCEPT ![t] = "process"]
  /\ UNCHANGED <<tgVars, diskMode, diskBase, up, crashes, flagVars, read, post, wiz, history>>

\* ... and after each one the offset is written to its file.  An error is
\* ignored: the old offset stays, or an empty file, which reads as 0.
SaveOffset(t) ==
  /\ pc[t] = "save"
  /\ offset' \in {Min(batch[t]) + 1, offset, 0}
  /\ batch' = [batch EXCEPT ![t] = @ \ {Min(@)}]
  /\ pc' = [pc EXCEPT ![t] = "process"]
  /\ UNCHANGED <<tgVars, diskMode, diskBase, up, crashes, flagVars, read, post, wiz, history>>

\* A bug to rule out: TG_MODE has no default when the file is torn.
LoadConfigNoDefault(t) ==
  /\ pc[t] = "process" /\ batch[t] = {}
  /\ read' \in {[read EXCEPT ![t] = m] : m \in {diskMode, ""}}
  /\ pc' = [pc EXCEPT ![t] = "apply"]
  /\ UNCHANGED <<tgVars, fileVars, up, crashes, flagVars, batch, post, wiz, history>>

\* At the end of a batch the configuration is read from disk ...
LoadConfig(t) ==
  /\ pc[t] = "process" /\ batch[t] = {}
  /\ read' \in {[read EXCEPT ![t] = r] : r \in Loaded}
  /\ pc' = [pc EXCEPT ![t] = "apply"]
  /\ UNCHANGED <<tgVars, fileVars, up, crashes, flagVars, batch, post, wiz, history>>

\* ... and replaces the one in memory, which a POST may have set since.
ApplyConfig(t) ==
  /\ pc[t] = "apply"
  /\ Apply(read[t])
  /\ pc' = [pc EXCEPT ![t] = "top"]
  /\ UNCHANGED <<tgVars, fileVars, up, crashes, inbound, polling, stopped, batch, read, post, wiz, history>>

-----------------------------------------------------------------------------
(* watchWebhook and fallbackToPolling.                                     *)

\* A tick: the watch is over once the mode has changed or a POST came in.
WatchTick(t) ==
  /\ pc[t] = "tick"
  /\ pc' = [pc EXCEPT ![t] = IF mode # "webhook" \/ inbound THEN "none" ELSE "info"]
  /\ UNCHANGED <<tgVars, fileVars, up, crashes, flagVars, batch, read, post, wiz, history>>

\* getWebhookInfo fails, or finds nothing wrong (yet).
WatchOn(t) ==
  /\ pc[t] = "info"
  /\ pc' = [pc EXCEPT ![t] = "tick"]
  /\ UNCHANGED <<tgVars, fileVars, up, crashes, flagVars, batch, read, post, wiz, history>>

\* A bug to rule out: only a webhook that is gone is noticed.
WatchGone(t) ==
  /\ pc[t] = "info" /\ ~hook
  /\ pc' = [pc EXCEPT ![t] = "fbDelete"]
  /\ UNCHANGED <<tgVars, fileVars, up, crashes, flagVars, batch, read, post, wiz, history>>

\* The webhook is gone, or updates wait in vain for over 90 seconds.
WatchStuck(t) ==
  /\ pc[t] = "info" /\ (~hook \/ queue # {})
  /\ pc' = [pc EXCEPT ![t] = "fbDelete"]
  /\ UNCHANGED <<tgVars, fileVars, up, crashes, flagVars, batch, read, post, wiz, history>>

\* Telegram reports a failed delivery, perhaps of an update delivered since.
WatchUnhealthy(t) ==
  /\ pc[t] = "info" /\ hook /\ sent > 0
  /\ pc' = [pc EXCEPT ![t] = "fbDelete"]
  /\ UNCHANGED <<tgVars, fileVars, up, crashes, flagVars, batch, read, post, wiz, history>>

\* The fallback: one call after another, errors ignored.
FallbackDelete(t) ==
  /\ pc[t] = "fbDelete"
  /\ DeleteWebhook
  /\ pc' = [pc EXCEPT ![t] = "fbMode"]
  /\ UNCHANGED <<sent, queue, fileVars, up, crashes, flagVars, batch, read, post, wiz, history>>

FallbackMode(t) ==
  /\ pc[t] = "fbMode"
  /\ diskMode' = "polling" /\ mode' = "polling"
  /\ pc' = [pc EXCEPT ![t] = "fbInbound"]
  /\ UNCHANGED <<tgVars, diskBase, offset, up, crashes, base, inbound, polling, stopped, batch, read, post, wiz, history>>

FallbackInbound(t) ==
  /\ pc[t] = "fbInbound"
  /\ inbound' = FALSE
  /\ pc' = [pc EXCEPT ![t] = "fbStop"]
  /\ raced' = (raced \/ inbound)
  /\ UNCHANGED <<tgVars, fileVars, up, crashes, base, mode, polling, stopped, batch, read, post, wiz, handled, dropped>>

FallbackStop(t) ==
  /\ pc[t] = "fbStop"
  /\ pc' = [pc EXCEPT ![t] = IF stopped THEN "fbFlag" ELSE "fbClose"]
  /\ UNCHANGED <<tgVars, fileVars, up, crashes, flagVars, batch, read, post, wiz, history>>

\* If a POST has closed the channel meanwhile, the process panics.
FallbackClose(t) ==
  /\ pc[t] = "fbClose"
  /\ \/ /\ ~stopped /\ stopped' = TRUE
        /\ pc' = [pc EXCEPT ![t] = "fbFlag"]
        /\ UNCHANGED <<tgVars, fileVars, up, base, mode, inbound, polling, batch, read, post, wiz, history>>
     \/ stopped /\ Dies /\ UNCHANGED offset
  /\ UNCHANGED crashes

FallbackStopped(t) ==
  /\ pc[t] = "fbFlag"
  /\ polling' = FALSE
  /\ pc' = [pc EXCEPT ![t] = "fbStart"]
  /\ UNCHANGED <<tgVars, fileVars, up, crashes, base, mode, inbound, stopped, batch, read, post, wiz, history>>

\* A bug to rule out: the watcher goes on after the fallback.
FallbackStartOn(t) ==
  /\ pc[t] = "fbStart"
  /\ stopped' = FALSE /\ polling' = TRUE
  /\ \E s \in Tasks : pc[s] = "none" /\ pc' = [pc EXCEPT ![t] = "tick", ![s] = "top"]
  /\ UNCHANGED <<tgVars, fileVars, up, crashes, base, mode, inbound, batch, read, post, wiz, history>>

\* startPolling, after which the watcher returns.
FallbackStart(t) ==
  /\ pc[t] = "fbStart"
  /\ IF polling
       THEN pc' = [pc EXCEPT ![t] = "none"] /\ UNCHANGED <<polling, stopped>>
       ELSE Replace(t, "top") /\ polling' = TRUE /\ stopped' = FALSE
  /\ UNCHANGED <<tgVars, fileVars, up, crashes, base, mode, inbound, batch, read, post, wiz, history>>

-----------------------------------------------------------------------------

Task(t) ==
  \/ PollTop(t) \/ GetUpdates(t) \/ GetConflicts(t) \/ GetFails(t) \/ Conflict(t) \/ RemoveLeftover(t)
  \/ PollDispatch(t) \/ SaveOffset(t) \/ LoadConfig(t) \/ ApplyConfig(t)
  \/ WatchTick(t) \/ WatchOn(t) \/ WatchStuck(t) \/ WatchUnhealthy(t)
  \/ FallbackDelete(t) \/ FallbackMode(t) \/ FallbackInbound(t)
  \/ FallbackStop(t) \/ FallbackClose(t) \/ FallbackStopped(t) \/ FallbackStart(t)

Webhook(u) ==
  \/ ConfirmInbound(u) \/ SwitchMode(u) \/ PostStopsPolling(u) \/ PostCloses(u) \/ PostStopped(u)
  \/ PostDispatches(u)

Next ==
  \/ Send \/ StartWebhook \/ StartPolling \/ Crash
  \/ SetWebhook \/ FinishWizard
  \/ \E t \in Tasks : Task(t)
  \/ \E u \in Updates : Post(u) \/ Webhook(u)

Spec == Init /\ [][Next]_vars

\* Go runs every goroutine that can run; systemd restarts the Master
\* (Restart=always); a call to Telegram tried again and again succeeds in the
\* end.  Nothing says that Telegram can reach the webhook.
Fairness ==
  /\ WF_vars(StartWebhook \/ StartPolling)
  /\ WF_vars(SetWebhook) /\ WF_vars(FinishWizard)
  /\ \A u \in Updates : WF_vars(Webhook(u))
  /\ \A t \in Tasks : WF_vars(Task(t))
  /\ SF_vars(\E t \in Tasks : GetUpdates(t))
  /\ SF_vars(\E t \in Tasks : GetConflicts(t))
  /\ SF_vars(\E t \in Tasks : WatchStuck(t))
  /\ SF_vars(\E t \in Tasks : RemoveLeftover(t) /\ ~hook')

LiveSpec == Spec /\ Fairness

-----------------------------------------------------------------------------

Receiving == {t \in Tasks : pc[t] # "none"}

\* pollLoop and watchWebhook start each other, but never two of them run:
\* two long polls would end each other with Conflict, and two loops would
\* overwrite each other's offset.
OneReceiver == Cardinality(Receiving) <= 1

\* An update Telegram no longer keeps has been dispatched, or a POST is about
\* to, or the process died after it had answered that POST with 200.  So
\* polling, with its offset saved after each update, loses nothing.
NothingLost ==
  \A u \in 1..sent :
    u \in queue \/ u \in handled \/ post[u] # "none" \/ u \in dropped

\* As long as no POST has confirmed the webhook, somebody watches or polls;
\* the one exception is a POST whose switch overlaps the watcher's fallback.
AttendedUntilConfirmed ==
  up /\ Receiving = {} => inbound \/ raced

\* The code guards handleWebhook against stray POSTs because one that switches
\* the mode and stops polling leaves the Master deaf (app.go:139-140): a
\* running Master has a webhook registered or a goroutine that receives.
NeverDeaf == up => hook \/ Receiving # {}

\* Every update is dispatched in the end, unless a POST confirmed the webhook
\* and nobody looks any more, or one's switch overlapped a way back to polling:
\* an address that never works does not keep the Master from its users.
HandledUnlessConfirmed ==
  \A u \in Updates : (sent >= u) ~> (u \in handled \/ u \in dropped \/ inbound \/ raced)
=============================================================================
