# Formal models of IP-Sentinel

IP-Sentinel is a Master that a user drives through a Telegram bot and that
drives agents on many servers ("nodes") over WebSocket.  This directory holds
TLA+ models of its concurrent parts, the TLC configurations that check them, and
theorems checked by TLAPS.  Paths and line numbers refer to `src/`; where
`file.go` alone is named, it is in `internal/master/`.

## Inventory

| Component | State | Operations | Interacts with | What is hard, what must hold |
|---|---|---|---|---|
| Command channel: `wshub.go`, `internal/agent/wsclient.go` | registry of connections by (owner, node); table of pending requests; a session per connection | `ServeHTTP` (auth, read loop, cleanup), `onMessage`, `pingLoop`, `SendCommand`; `Run`, `session` | everything on the Master that commands a node; agents | A goroutine per connection, call and command; reconnects overlap; results are late, lost or for nobody. A node has one registered connection, a caller gets its own result or FAILED, nothing leaks. |
| Telegram reception: `app.go`, end of `handlers.go` | mode in memory and in `master.conf`, `.tg_offset`, flags `polling` and `tgInbound`, the stop channel | `StartTG`, `pollLoop`, `watchWebhook`, `fallbackToPolling`, `handleWebhook`, the `/nginx` wizard's end | Telegram, the configuration file, `Dispatch` | Three kinds of goroutine switch the mode; Telegram refuses to poll while a webhook is set; restarts. One receiver at a time, no update lost, never deaf. |
| Fleet sweep: `fleet.go` | owners with a running sweep; semaphore, WaitGroup, counters | `runUnlockSweep`, `unlockOne`, `runFleetDaily` | command channel, Telegram, `nodes` table | Users and the daily job at once; a worker per node. A node is not asked twice at a time, sweeps end, the summary adds up. |
| Forum topics: `handlers.go` | `nodes.message_thread_id`, table `forum_topics`, topics in Telegram, `MESSAGE_THREAD_ID` at the agent | `ensureNodeForumTopic`, `forumTopicsRebuild`, `deleteNode` | command channel (`OnAuthed`), Telegram | Every database statement and call is separate, errors are ignored, the Bot API cannot list topics. A topic is accounted for and belongs to one node. |
| Nodes and registration: `handlers.go`, `db.go` | `nodes` rows, pending registrations in memory | registration, toggle, rename, delete; the upsert of every auth | command channel | Master and agent hold copies of the toggles; deleted nodes come back with an auth; restarts forget registrations. |
| Agent: `internal/agent/`, `cmd/agent` | `config.conf`, a `Config` per session and one of the scheduler, maintenance mutex, trend queue | `main`, `Run`, `ExecuteCommand`, `RunMaintenance`, scheduler, unlock check, reports | command channel, configuration file, Telegram | Goroutines share a session's `Config` and outlive it; commands rewrite the file the scheduler reloads. Switches are obeyed, messages go to one topic, a report is counted once and says what was probed. |
| Configuration files: `internal/confutil`, `config.go` | `KEY=VALUE` files, a map in memory | `Load`, `SaveKeys` | all of the above | The file is truncated and rewritten; readers take no lock. A save is atomic for the next save, and only a fault loses keys. |
| Wire protocol: `internal/protocol` | none | codec, `Sign`, `VerifyAuth`, URL checks | both ends | Clock skew. |
| Nginx deployment and its wizard: `nginx.go`, `handlers.go` | the site's files, certificates; the wizard of each owner; address, mode and secret in `master.conf`; the webhook | `Dispatch`, `startNginxWizard`, `handleNginxWizard`, `DeployNginx`, `EnableWebhookFromConfig` | nginx, certbot, Telegram, configuration file | A dozen steps, each of which may fail, overlapping for two owners; crashes. nginx can always start again, and site, address, webhook and secret agree with what the owner was told. |
| Rest of the user interface, sanitising | the forum binding's question | `Dispatch` and its menus | all | Mostly stateless. |
| Workers deployment: `deploy/workers` | Durable Object's sessions and pending maps, KV rows | the same channel as `wshub.go` | agents | Hibernation empties the maps; KV read-modify-write. |
| Installers, packaging, data | files | shell scripts, systemd units | | Run by an administrator. |

`PROJECT.json` lists the components with their status and, under `hazards`, the
places where this code can go wrong in ways a test would hardly reach.

## Modules

| Module | Models | Checked by | Proved in |
|---|---|---|---|
| `Command` | what a caller of `SendCommand` may rely on, abstractly | as `ImplementsCommand` | |
| `Hub` | `wshub.go`, `wsclient.go` | `MCHub` | `HubProofs` |
| `TgMode` | `app.go`, the end of the wizard in `handlers.go` | `MCTgMode` | `TgModeProofs` |
| `Nginx` | `nginx.go` | with `Dialog` | `DialogProofs` |
| `Dialog` | the `/nginx` wizard in `handlers.go`, with `app.go`'s start | `MCDialog` | `DialogProofs` |
| `Sweep` | `fleet.go` | `MCSweep` | `SweepProofs` |
| `Topics` | the forum part of `handlers.go` | `MCTopics` | `TopicsProofs` |
| `ConfStore` | what the users of a configuration file may rely on, abstractly | as `ImplementsStore` | |
| `ConfFile` | `internal/confutil` | with `Agent` | `ConfFileProofs` |
| `Unlock` | the classification in `internal/agent/unlock.go` | with `Agent` | `AgentProofs` |
| `Agent` | `internal/agent/{commands,modules,scheduler,config,tg,wsclient}.go`, `cmd/agent` | `MCAgent` | `AgentProofs` |
| `Nodes` | a node's settings in `handlers.go`, `wshub.go`, `db.go` and in `internal/agent/{wsclient,commands,config}.go` | `MCNodes` | `NodesProofs` |

The components meet at narrow interfaces, and each module takes the other side
of its interface as a choice: `Sweep` and `Topics` see of the hub what `Command`
promises (a result or FAILED, and always an answer); `Topics` starts an ensure at
any time because an agent may authenticate at any time; `TgMode` sees of
`Dispatch` only what changes the mode, and `Dialog`, which has the addresses and
secrets, lets the webhook be lost at any time as `TgMode` allows; `Nodes` has the
connections of one node at the grain of its database statements, and leaves the
pending table to `Hub`; `Agent` takes commands and broken connections as they come.
Two compositions are explicit: `Agent` extends `ConfFile` and `Unlock`, so that the
file its goroutines share is the one with torn reads, and `Dialog` extends `Nginx`.

Operators called "a bug to rule out" are variants of an action with a mistake
in it.  No specification uses them; they serve to see that each property fails
when the code is wrong.

### Hub

A step is what a goroutine does between two points where another can run: a
critical section of `h.mu`, a frame read or written, a channel operation.

- `conns`, `pending` are the fields of `Hub`; `handler[c]` is where `ServeHTTP`
  is for connection `c`, `call[m]` where `SendCommand` is for call `m`, `agent[c]`
  where `session` is.  `taken[c]` holds what `onMessage` has taken from the table
  and not yet put into the call's channel `chan`.
- `up` and `down` are the frames in flight.  Each end closes on its own
  (`srvOpen`, `agtOpen`), and the other may notice late or, as far as safety goes,
  never.  Closing loses what is in flight; `wshub.go:119` closes a replaced
  connection while its handler is still in its read loop.
- A dial of an agent is a fresh connection, a call a fresh request id
  (`uuid.NewString`), so `KeyOf` and `Target` are constants.  An agent process has
  one session at a time (`Run`), which is `Dial`'s guard; but commands of an ended
  session may still run, and write to a socket that has closed.

Left out: the row `ServeHTTP` writes before `auth_ok` (see `Nodes`); `last_seen`;
`trend_save` (see `Agent`); app-level pings (they change only deadlines, and a deadline may
pass at any time in the model); a restart of the Master, which empties `conns`
and `pending` together and ends every call with the process.

### Command

An abstract channel: a call is refused, or issued and then answered once, with
FAILED or with the result of the one execution.  FAILED says nothing about
execution.  `Hub`'s `Promise` maps `exec` and `call` to it.

### TgMode

- `diskMode`, `diskBase`, `offset` are files and survive `Crash`; `mode`, `base`,
  `inbound`, `polling`, `stopped` are fields of `App` and `Config`.
- `pc[t]` is the receiving goroutine in slot `t`: a poll loop (`top` ... `apply`) or
  a watcher (`tick` ... `fbStart`).  When one starts the other it is in the other
  slot; two slots are enough to see two receivers at once, and `OneReceiver` says
  that it never comes to that.
- `post[u]` is the handler of the POST of update `u`, including `processUpdate`.
- The wizard's last question is asked from the start (`wiz`); the answer comes in
  as update `Wizard`, through polling or a POST, and is processed in that goroutine.
- The clock is a choice: `WatchStuck` may find the webhook stuck whenever updates
  wait, which includes the 90 seconds the code gives them.
- `LoadConfig` takes no lock: while a goroutine that rewrites the file is running
  it may see an empty file, and then the mode is polling and there is no base
  (`Loaded`, `Apply`).
- `queue` is what Telegram keeps.  A POST removes an update or, if its answer is
  lost, does not; `getUpdates` removes what is below its offset.

- `handleWebhook`'s 200 leaves when the handler returns (`Answered`), after the switch
  and `StopPolling`.  `StopPolling` tests and closes the channel in two steps
  (`PostStopsPolling`, `PostCloses`; `FallbackStop`, `FallbackClose`): when the second
  of two closes comes, a POST's handler panics, is recovered and stays unanswered, and
  in the watcher the process dies.
- A write of `.tg_offset` may fail, or be cut by a crash: the loop, which reads the
  offset from the file before every `getUpdates`, then starts from an older one or 0.
- `dropped` is history: updates whose processing died with the process after the 200.

Left out: the values of addresses and secrets (see `Dialog`); wizards of further owners;
a crash in the middle of the rewriting of `master.conf` (see `ConfFile`).

### Sweep

`running` is `sweepRunning`.  A call has a goroutine per row; the semaphore and
the WaitGroup are counters as in Go, and the deferred calls run in the order in
which Go runs them.  The rows a call reads are any subset of the owner's nodes: a
node may be registered or deleted at any time, and a failed query gives none.
`Daily` is the order in which `runFleetDaily` makes its calls.

### Topics

One owner and two forum groups, one of which is bound at first.  A topic is a thread of
a group, numbered in the order Telegram creates them there; `nodes.message_thread_id`
and what goroutines carry are numbers only, and a number means the thread of the group
that is bound when it is used (`At`, `HasNumber`).  `Foreign` are topics others have
made.  Every database statement and every call of Telegram is a step, and a rebuild
works with copies of the tables it read before (`nodes`, `wasBound`, `wasFor`).  `Start`
is the upsert of a node's row (auth or confirmed registration) and the call of
`ensureNodeForumTopic`; `forumTopicsRebuild`, on demand or after `applyForumBind`, calls
the same function, so `Ensure` is shared.  `faults` counts calls that fail, topics users
delete and deaths of the Master.  `lost` and `calm` are history: topics nobody could have
recorded or has failed to delete, and whether anything failed or came in between since the rebuild began.

### Nodes

One node, and its settings as they are kept twice: `row` is the Master's row (one
of the two switches, `enable_google`, and `node_alias`; the other switch is written
in the same statements), `file` is the agent's `config.conf`.

- `handler[c]` is `ServeHTTP` between the statements of an auth: `Publish`,
  `UpsertNode` (alias, and the column's default for a new row's switch),
  `StoreSwitches` (and `auth_ok`).  What it writes is `loaded[c]`, read by `Run` when
  the session began.  A connection is used again when its handler has ended, so
  agents come back without bound.
- `change[p]` is `toggleMod`, `handleRenameReply` or `deleteNode`, with the steps of
  `SendCommand`: the first two store and then send, the third sends and then
  deletes.  `cmd[p]` is the command on its way and in its goroutine at the agent,
  which may outlive its session.  A command sent before `auth_ok` is `early` and ends
  the session that reads it first.
- `req[r]` is a registration request: a button that waits in memory with the alias
  it was sent with.
- `mixed` and `dirty` are history.  A setting is mixed once two changes of it
  overlapped, once an auth wrote it whose load-to-write window overlapped a change
  of it, once a registration wrote it, and once an auth inserted a row and has yet
  to store its switches; an auth without such an overlap clears it.

Left out: the columns ip, region and ota, which only the agent and registrations
write; failing statements and failing writes of the file (both are ignored by the
code); other owners' buttons, which only withdraw a request.

### ConfFile, ConfStore

`SaveKeys` is a read of the file, an open that cuts it and a write, under `fileMu`;
`Load` is whatever is there at the moment (`Loads`), maybe nothing.  An error of the
read is taken for an empty file (`ReadFails`), a full disk leaves the cut (`WriteFails`),
and so does the death of the process (`Die`); these count as faults.  `ConfStore` is a
table changed in one step; the mapping is `tableBar`: while the file is cut, the table
is what the holder of the lock has read.  `ImplementsStore` therefore says that no
update is lost or half done however saves overlap, and that only a fault costs keys.

Left out: files with two lines for one key, comments and unknown lines, which the
installers do not write for these keys.

### Unlock

Operators for what the probes make of a page: whether it has a body, the region it
names (`Codes`), the phrases found in it (`has`).  `Probed` is `ProbeUnlock`, `Trend` the fields
`RunQuality` reports.  Fetching and the expressions themselves are left out.

### Agent

- `conf[i]` is the `Config` of session `i`, loaded in `Connect` and shared by the
  goroutines of its commands (`task[c].cfg`), which may outlive it; `sched` is the
  scheduler's.  A `Config` is the switches, whether it has an address, and the topic's
  chat and thread.
- `Deliver` starts a command's goroutine: toggle and set_topic call `SaveKeys`
  (`Saving`, a step of `ConfFile`), then set_topic's keys go one by one into the shared
  map (`StoreRaw`); run and module look at the switches; quality probes, pushes its
  report and queues a trend.
- A message reads its address from the shared map in two steps, the chat (`ReadChat`)
  and the thread (`TGPushHTML`, which sends); `dest[c]` is what it has of it, and in the
  end where it was sent.  That a send fails, or that there is no bot token, is only
  logged, so `dest` is where it is sent if it is.
- `round` is the holder of `maintMu`: `Tick` reloads and begins a round, which sleeps
  (`Choose`) and runs a module; `Tick` and the command run come away empty while it does.
- A trend goes from `queue` over `batch` and `wire` to `saved`, or to `lost`.
- `wish`, `asof`, `mixed` and `crossed` are history: each switch as the last save left it,
  that of the moment a `Config` was loaded, sessions in which set_topic commands
  overlapped, and messages whose two reads met a set_topic of their session.

Left out: rename (`Nodes` has it), log and the daily summary's text, OTA and uninstall
(the scripts end the process), and the visits themselves.

### Nginx, Dialog

`Nginx` has the file in `sites-available` or `conf.d` (`conf`), what is in
`sites-enabled` (`site`: a link, or a copy where links cannot be made), the
certificates, and how far each deployment has come.  nginx and certbot are external:
`nginx -t` accepts (`Passes`) a domain that can be a `server_name`, and a 443 block whose
certificate is there and whose directives this nginx knows.

`Dialog` takes an owner's messages, polled one after the other or posted with a
goroutine each, through `Dispatch`, the two questions and the deployment to
`PUBLIC_BASE_URL`, `setWebhook`, secret and mode, which are saved in the code's order.
The state of a wizard is read in `Dispatch` and used later (`st`), as in the code.
`told` is history: what the owner was told last; `mixed` and `overlap` mark deployments
that overlapped, `refused` a registration that failed and left another webhook.

## Runs

| Run | Instance | Shows |
|---|---|---|
| `hub` | 1 node, 2 dials, 1 call | `OpenIsRegistered`, `NoGhost`, `NoPendingLeak`, `ReplyIsOwn`, `DeadIsForgotten`, `ImplementsCommand` (refinement with its liveness) |
| `hub_first_frame` | 1 node, 1 call | violated: a command can overtake `auth_ok` |
| `tg` | 2 updates, 1 crash | `OneReceiver`, `NothingLost`, `AttendedUntilConfirmed` |
| `tg_live` | 1 update, 1 crash | `HandledUnlessConfirmed` |
| `tg_deaf` | as `tg` | violated: a POST can leave the Master deaf |
| `sweep` | 2 owners, 2 nodes, 1 user's call and 2 daily ones, 1 slot | `NodeAskedOnce`, `SlotsBounded`, `SummaryComplete`, `SweepsEnd` |
| `topics` | 2 nodes, 2 ensures, 1 rebuild, 2 groups with 3 topics each, 1 foreign topic, 2 faults | `Accounted`, `OwnTopic`, `RebuildRestores` |
| `topics_twice` | 1 node, no faults | violated: two topics for a node |
| `nodes` | 2 connections, 2 changes of any kind, 2 aliases | `AgreeAtRest`: without an overlap, row and file agree at rest |
| `nodes_live` | 2 connections, 1 toggle or deletion, 1 registration, 1 crash of the Master | `Heals`: with auths coming in, they agree in the end whatever overlapped |
| `agent` | 2 commands out of 8 orders, 2 sessions, 1 crash, 1 fault of the disk | `ObeysSwitch`, `TopicAgrees`, `OneDestination`, `TrendsOnce`, `TrendHonest`, `ImplementsStore` (refinement), `SchedulerCatchesUp` |
| `dialog` | 2 messages of 7 texts, from 2 owners, every kind of host, 1 crash, 1 fault | `CertFirst`, `AnswerIsTrue`, `AddressAgrees`, `PostsAccepted` |

Every passing run also checks its module's `TypeOK`.

**Why these bounds.**  *Hub*: the races are among the connections of one node and a call
over one of them; nodes and calls share nothing but the two maps, whose keys differ.
The safety properties and the refinement are proved for any number of dials and calls,
so this run is for the liveness.  *TgMode*: a batch of two updates can switch the mode
halfway; with one crash every state is one in which the process can die, and the state
of the files after a crash is again one of the initial states or a later one.  The
liveness is checked with one update, which is the wizard's answer or an ordinary one, and
may be repeated; with two the graph is too large for the search of cycles.  *Sweep*:
proved for any number as far as safety goes; for the liveness a user's call is admitted,
refused or admitted again while a daily one runs, and a second owner waits behind the
first.  *Topics*: two ensures of one node can collide with each other and with the
rebuild; three topics are a duplicate and a replacement; two faults are a failing call
or a deletion before the rebuild and another during it.  *Nodes*: two connections are a
late handler and the session that overtook it, again and again; two changes overlap each
other and the auths.  A registration only writes the row once more, so it is left to
`nodes_live`, and so is the crash.  *Agent*: two commands are two writers of the file or
of a session's map, or a writer and a reader; the third party, the scheduler, comes round
without bound; a second session is one that loads what a command of the first has left.
*Dialog*: the last answers of two owners overlap in every order, or one owner gives both
answers; one crash and one fault fall into any step.

`CHECK_DEADLOCK FALSE` stands where an instance ends because its dials, calls or
updates are used up; `Sweep` has the step `Quiet` instead.

## Fairness

- `Hub`: a call that has begun goes on, since its context has a deadline; a
  handler goes on, and notices an end that has closed, because its read deadline
  is `WSDeadAfter`.  Nothing is assumed of agents, of the network or of callers.
- `TgMode`: goroutines run; systemd restarts the Master (`Restart=always`);
  a call of Telegram tried again and again succeeds in the end, by whichever loop or
  watcher tries (strong fairness of `GetUpdates`, `GetConflicts`, `RemoveLeftover` that
  takes effect, and of `WatchStuck`, which needs `getWebhookInfo` to answer).  POSTs are
  not fair: the public address may never work.
- `Sweep`: goroutines run; a goroutine that waits for a slot gets one if slots
  become free again and again (Go's channels are FIFO); `SendCommand` returns,
  which `hub` shows.  Users need not call; the daily job does.
- `Nodes`: handlers, changes and the agent's goroutines run.  That the agent dials
  is not assumed: `Heals` says what follows if its auths go on coming in.
- `Agent`: the scheduler's ticker comes round, and a `SaveKeys` that has begun ends, since
  its steps are system calls.  Commands, connections and modules are not fair.
- `Topics` and `Dialog` have no liveness property.

## Findings

1. **A command can overtake `auth_ok`** (`hub_first_frame`).  `wshub.go:121`
   publishes the connection, `wshub.go:142` writes `auth_ok` after two database
   statements.  A `SendCommand` in between is the agent's first frame;
   `wsclient.go:140` takes it for a failed auth and ends the session, and the
   command is not executed.  The agent dials again after its backoff.
2. **A POST can leave the Master deaf** (`tg_deaf`).  While the watcher is in
   `fallbackToPolling`, or the poll loop removes what it takes for a leftover webhook
   (`app.go:345`), a POST that was delivered before the webhook was deleted
   may win the `CompareAndSwap` of `app.go:149`, save webhook mode and stop
   polling.  The poll loop leaves; nobody polls, there is no webhook, and `tgInbound`
   says that all is well.  Only a restart helps.  `AttendedUntilConfirmed` and
   `HandledUnlessConfirmed` hold with this overlap excepted (`raced`).
3. **Two topics for a node** (`topics_twice`).  `ensureNodeForumTopic` reads the
   binding at `handlers.go:547` and creates at `handlers.go:563`; the goroutine of
   `OnAuthed` and a confirmed registration run it for one node at a time when both
   find none.  A rebuild removes the duplicate (`RebuildRestores`).

### What the properties except, and other observations

A property that holds only with an exception says so in its comment.  The exceptions,
and what else came up while modelling:

- The wizard (`Dialog`): two deployments that overlap leave whatever came last of each of
  site, address, webhook and secret, until the next undisturbed one or a new start.
  Where links cannot be made, a rollback restores only the file in `sites-available`
  and nginx keeps refusing the copy (`nginx.go:151`).  After a `setWebhook` that fails the
  owner is told that polling goes on (`handlers.go:1042`), but if a webhook brought the
  answer in, nobody polls, and a webhook that an earlier wizard registered in the meantime
  stays at Telegram with its old address until a poll loop takes it away: its next POST
  makes the Master take it for confirmed (`app.go:149`) while `PUBLIC_BASE_URL` is the new
  address.  It takes a third message; `AddressAgrees` excepts a registration that failed.  Any text is taken for a domain or an e-mail address, a
  button's included, and `Dispatch` reads `h.nginx` without its lock.
- The update that answers the wizard's last question has not been confirmed when the
  webhook is set, so the new webhook delivers it again.
- A rewritten file (`ConfFile`): any error of `ReadFile` is taken for an empty file, after
  which `SaveKeys` writes a file with nothing but its own keys; a process that dies
  between the cut and the write leaves none, and cannot start again.
- An agent's session (`Agent`): a single set_topic and a single report are enough for a
  message to the chat of one binding and the thread of another, although `RunQuality`
  "pushes the report to this node's topic" (`internal/agent/modules.go:99`).
  `Config.SaveKeys` assigns `TG_DEST_CHAT_ID` and `MESSAGE_THREAD_ID` one after the other,
  in any order and without a lock (`internal/agent/config.go:90-91`), `TGPushHTML` reads
  them one after the other (`internal/agent/tg.go:15`, `26`), and both are goroutines of
  one session: the message gets the old chat, both keys are assigned, it gets the new
  thread; or it reads both between the two assignments.  Without its exception
  (`c \in crossed`) `OneDestination` is violated by that.  With it, it says that nothing
  else mixes bindings.  `TopicAgrees` likewise excepts a `Config` while a set_topic is between its two
  assignments (`HalfStored`).
- Two set_topic commands that overlap leave the shared map with parts of both for as long
  as the session lasts, whatever the file has; `TopicAgrees` and `OneDestination` except
  that session (`mixed`).  A toggle does not reach the
  session that received it, only the scheduler and later sessions.
- `.tg_offset` is the poll loop's only memory of what it has processed: while it cannot
  be written, the same updates are dispatched again and again.
- Forum groups (`Topics`): the row keeps the number of a thread without its group.  After
  another group was bound, a rebuild takes a topic that has the number there for the
  node's own, somebody else's included, and renames it (`handlers.go:804`, `838`).
  A record made under an old group's number also replaces another node's record in the
  new group (`handlers.go:571`); the next rebuild then leaves that node's topic to the
  first one and makes it a new one.  `RebuildRestores` therefore asks for one topic a
  node, and not for the one that was made for it.
  `applyForumBind` takes the digits of any text for a group (`handlers.go:778`).
- The project's README says that the transport pings every 10 seconds and the
  application every 10 with a wait of 15; the code has 15, 15 and 45
  (`internal/protocol/protocol.go:29-33`).

## Theorems

Checked by TLAPS for every value of the constants that satisfies the modules'
named assumptions: `HubAssumption` (each connection and call has its node, and
`nil` is no connection), `SweepAssumption` (finitely many nodes, each with an
owner; a positive number of slots), `NodesAssumption` (there is an alias; `nil` and
the absent row are no values), `NginxAssumption` and `DialogAssumption`,
`TgAssumption` (the bounds are numbers),
`ConfAssumption` (callers and keys; what may be saved are partial tables; an absent key
is no value), `TopicsAssumption` (one of the groups is bound at first, foreign topics are topics, no run is
both an ensure's and a rebuild's), `UnlockAssumption` (no region is called `N/A`: `ytGLRe` and the other
expressions of `unlock.go` find capital letters only, and the lookups give ISO codes) and
`AgentAssumption` (the callers of `SaveKeys` are the commands and `main`; the keys and
values the code uses are among `Keys` and `Values`; orders are well-formed; the files an
installer leaves have both halves of a topic's address or neither).

`HubProofs`:

- `TypeCorrect`: `Spec => []TypeOK`.  `TypeOK` is inductive because it also says
  that a call under way has looked up a connection.
- `RegistrySound`: `OpenIsRegistered /\ NoGhost` is inductive together with
  `TypeOK`: `Register` closes what it replaces, and `HandlerExit` takes out only
  itself.
- `PendingSound`: `NoPendingLeak`; an entry is added by the call itself and removed
  at the latest by its deferred delete.
- `ReplySound`: `ReplyIsOwn` is not inductive, since it says nothing about results
  on their way.  `ReplyInv` strengthens it along a result's whole path:
  a `cmd` frame exists at most once and only while the command has not begun
  (`CommandInv`), a result in flight, taken or in the channel is the one its
  command produced (`ResultInv`), and a call's outcome fits its control state
  (`OutcomeInv`).
- `ImplementsCommandSafely`: `Spec => Promise!SafetySpec`.  With `ReplyInv`, every
  step of `Hub` is a step of `Command` or a stutter (`CommandStep`, by cases over
  the actions).

`SweepProofs`: one inductive invariant, `SweepInv`, for all four theorems:
`Exclusive` (the flag stands for one active call an owner), `Staged` (workers exist
for rows only, and have all finished before their call reports), `Counted` (the
semaphore, the WaitGroup and the three counters are cardinalities of sets of
workers).  `SweepTypeCorrect`, `AskedOnce`, `SlotsAreBounded` and
`SummaryIsComplete` follow from it.

`NodesProofs`, for any number of connections, changes, requests, names and crashes:

- `NodesTypeCorrect`: `Spec => []TypeOK`, with the addition that what waits to be stored
  is a setting and no deletion (`StoresSetting`): `order[p].kind` is then a column of the
  row.  `TypeOK` also says that a change that sends has a connection.
- `NodesAgree`: `AgreeAtRest` says nothing of a state that is not at rest.  `Agreeing` does:
  an auth that no change has come across carries what is in the file (`CleanAuth`); of
  a setting that is not mixed one change at most is under way (`Alone`); once the
  session's auth has stored the setting, row and file agree (`Settled`) or the change
  under way has put its value into the row before it sends, sends to this very session,
  and is executed by the time it is over (`Underway`).  For the second of these the hub has
  to keep a session's connection the current one (`Attached`).

`DialogProofs`, for any number of messages, owners and domains, from `NginxAssumption`
and `DialogAssumption`:

- `DialogTypeCorrect`: `Spec => []TypeOK`, inductive together with `SavesDeployed` (a
  goroutine that saves an address has a deployment that has ended, and so a domain).
- `CertificateFirst`: `CertFirst` looks at the enabled file only, and is not inductive:
  it is `Certified` that is kept: past certbot a deployment's certificate is there, and
  so is that of every 443 block in either file, for only such a deployment writes one.
  Nothing in it depends on the order in which deployments overlap, on faults or crashes.
- `AnswersHold`, `AddressesAgree`, `PostsAreAccepted`: one invariant for the three.
  `Noticed` says what the history means: a goroutine that is busy and not among the mixed
  is the only one (`Lone`), and an answer is the last deployment's while nothing overlaps.
  `SiteAt` then follows a lone deployment through `DeployNginx` (`SiteStep`), `AddressAt` its
  goroutine from the saved address to the saved mode; `ToldKnows` and `HookKnows` keep at
  rest what it left.  A crash keeps it, too, since an answer that stands for something
  means that no deployment is under way.

`TgModeProofs`, for any number of updates, tasks and crashes:

- `TgTypeCorrect`: `Spec => []TypeOK`, with the addition that whoever saves an offset or
  runs the wizard has an update in his batch (`Batched`), so that it has a least one:
  `MinIsLeast`, from the well-foundedness of `<` on the naturals.
- `ReceiverIsAlone`: `OneReceiver` is kept in the form `Single` (one task in all, whatever it
  does), with `Down` (a dead process has none): a task starts another as its own last step.
- `UpdatesAreKept`: `NothingLost` speaks of the queue only; `Kept` says of the whole way
  of an update that it is in Telegram's queue, in a batch at or before the place the loop
  has come to, in a POST, handled or among the `dropped`, and bounds the offset by them.
- `WebhookIsAttended`: `Attended` says at which points of the poll loop, of the watcher and
  of a POST the flags `tgInbound` and `polling` may be as they are; it needs `Single`.

`ConfFileProofs`: `FileImplementsStore`, `ConfSpec => ImplementsStore`.  The inductive
invariant is `OneHolder` (one caller is past the lock) and `HolderKnows`: what the holder
has read is the file until he cuts it, unless the read failed, and that only while
there are faults left to fail with.  Every step is then a save, a fault or a stutter of
`ConfStore` (`StoreStep`).

`AgentProofs`, for any number of commands, sessions, crashes and faults:

- `AgentFileImplementsStore`: a step of the agent is one of `ConfFile` (`FileSteps`).
- `AgentTypeCorrect`: `Typed` adds `ConfInv`, that a caller of `SaveKeys` is a goroutine
  that saves, with its own update (`Callers`), and that goroutines belong to sessions
  that have begun, whose `Config` they still have (`Current`).
- `SwitchesObeyed`: `Followed` relates the table to the owner's wishes, and every loaded
  `Config` to those of the moment it was loaded; `RoundOn` and `CommandsOn` say that what
  runs was on in its `Config`.  `LoadConfig` fails on a
  torn file, so that no `Config` has a switch on for lack of its line.
- `TrendsCountedOnce`, `TrendsHonest`: `Sound` (every trend on its way is the one its
  goroutine reported) and `Counted` (their number is that of the goroutines that have
  reported).  `ReportsMove` is the lemma that every step moves trends or appends one.
- `TopicsAgree`: `TopicInv`, by where a set_topic is: outside `mixed` sessions one at
  most is under way (`OneSetter`), and what is not saved yet is the live session's own
  (`OwnSaves`); then the table is as ordered (`InTable`), and so is the map but for the keys
  it has yet to assign (`HalfDone`); with none under way the map is the table (`AtRest`) and
  whole, as the file is (`WholeFile`).  What is not at rest is a `Config` between the two
  assignments of a set_topic (`HalfStored`), and no other: `WholeConfigs`.
- `MessagesInOnePlace`: `OneDestination` looks at messages that are sent.  `ReadOnce` follows one
  that has its chat only: unless it is `crossed`, that is still the chat in its `Config`, and
  no set_topic is between its assignments; by `WholeConfigs` the thread it reads next
  belongs to it.

`TopicsProofs`, for any number of nodes, groups, ensures and rebuilds:

- `TopicsTypeCorrect`: with `Located` (whoever ensures has a node, and a topic once it is
  created).
- `TopicsAreOwn`: `OwnTopic` speaks of tables and agents; `Own` adds what goroutines hold
  and a rebuild's copy, which may be old, but a topic never changes the node it was
  made for (`StepGrows`).
- `TopicsAccounted`: `Accounted` with `RightGroup`: what is in hand will be recorded under its
  own group or is lost already.
- `RebuildsRestore`: `CalmInv` follows a rebuild through its stages: in the calm it runs
  alone (`Alone`), what it has visited is a kept node's and what it has not is as it
  read it (`Visiting`), and the nodes it has served have their topics (`Served`, `Ensured`).
  A new topic is fresh, since what exists was made or is foreign (`Existing`), so it
  takes no record away.

Only model-checked: liveness (`DeadIsForgotten`, `HandledUnlessConfirmed`,
`SweepsEnd`, `Heals`, `SchedulerCatchesUp`, the liveness half of `ImplementsCommand`),
which is out of the prover's reach.  Every safety invariant of the passing runs is proved.

## Plan

Proofs: the safety properties of the runs are all proved; a module that is added is to
have its invariants proved with it, without recursive operators.

Modules: `WorkersHub` (the Durable Object of `deploy/workers` against `Command`: after
hibernation its maps are empty while its sockets are open, so nodes look offline until
they dial again); `Keepalive` (ping, pong and read deadlines in ticks, the backoff of
`Run`, `IsOnline`'s grace, the daily clock of the two schedulers).

## Merged steps

Steps that are apart in the code and one in the models, or left out.  The properties
do not look between them, except where it is said:

- `Nginx`: `Enable` removes the old link, makes the new one or writes the copy
  (`nginx.go:108-110`).
- `TgMode`: `Conflict` loads the configuration and takes its mode over (`app.go:333-336`),
  which `Apply` does in two steps at the end of a batch.
- `Topics`: `Tell` is executed in time or not at all; a set_topic whose caller has timed out
  and which the agent executes later is not there.  For `RebuildRestores` it would be one
  more thing that may come in between; what it names is a topic of the node, which is what `OwnTopic` asks.
- `Dialog`: base and secret in memory and in the file change together, so the poll loop
  never has old ones to write over newer ones (`app.go:391-395`; `TgMode` has this of the mode).
- `Agent`: `Start` leaves out that a missing `NODE_NAME` is saved (`cmd/agent/main.go:41`), one more
  save by `main` before the address's.

## Not modelled

- The codec (MessagePack), signatures and checks of URLs in `internal/protocol`, the
  sanitising in `security.go`, the wording of messages and the menus: pure functions
  on strings, or calls without state of their own.
- The fetching of pages, Chrome, SMTP and address lookups: their outcomes are choices.
- Keepalive intervals, backoffs and the daily clocks: a timer may fire at any time in the
  models, so safety holds for all values, but nothing is said of how long things take.
- Of `Nodes`: the columns ip, region and ota, which only agents and registrations write;
  failing database statements.  Of `Topics`: owners who share a group.
- A torn read of the secret or of the address by the poll loop (`TgMode` has that of the
  mode); the forum binding's question, whose answer is `applyForumBind` in `Topics`.
- The Workers deployment (see the plan), installers, migration and packaging, which an
  administrator runs.
