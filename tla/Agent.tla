-------------------------------- MODULE Agent --------------------------------
(***************************************************************************)
(* An agent's own process: what its goroutines do with the configuration   *)
(* they were given, while commands of the Master rewrite the file it came  *)
(* from.  Sources: internal/agent/commands.go, modules.go, scheduler.go,   *)
(* config.go, tg.go, wsclient.go and cmd/agent/main.go.                    *)
(*                                                                         *)
(* Every session of WSClient loads the file once; the goroutines of its    *)
(* commands share that Config, and outlive the session.  The scheduler has *)
(* a Config of its own, which it loads again before each round and report. *)
(* How a command gets here is module Hub's subject.  The file is module    *)
(* ConfFile, with a saver for each command and one for main.               *)
(***************************************************************************)
EXTENDS ConfFile, Unlock, FiniteSets, Sequences

CONSTANTS
  Cmds,         \* commands the Master sends
  Menu,         \* what each command may order, see Deliver
  Installed,    \* the files an installer may have left
  Main,         \* main, as a caller of SaveKeys
  MaxSessions,  \* bound: sessions of WSClient
  MaxCrashes    \* bound: how often the process dies

Modules  == {"google", "trust"}
Switch   == [google |-> "ENABLE_GOOGLE", trust |-> "ENABLE_TRUST"]
Topic    == {"TG_DEST_CHAT_ID", "MESSAGE_THREAD_ID"}
Sessions == 1..MaxSessions

\* A partial table for SaveKeys.
Only(ks, v) == [k \in Keys |-> IF k \in ks THEN v ELSE Absent]

Raw(t, k) == IF t[k] = Absent THEN "" ELSE t[k]

\* The topic of t has a chat and a thread, or neither.
Whole(t) == \A j, k \in Topic : t[j] = t[k]

\* What the Master may order.
Orders ==
  [path : {"toggle"}, mod : Modules, value : {"true", "false"}]
    \cup [path : {"set_topic"}, value : Values]
    \cup [path : {"module"}, mod : Modules]
    \cup [path : {"run", "report"}]
    \cup [path : {"quality"}, egress : BOOLEAN, cc : Codes, pages : Pages]

\* A toggle saves a switch, set_topic both halves of the topic's address (""
\* to clear it).
Saves(o) == o.path \in {"toggle", "set_topic"}
Saved(o) == IF o.path = "toggle" THEN Only({Switch[o.mod]}, o.value) ELSE Only(Topic, o.value)
Address  == Only({"PUBLIC_IP"}, "ip")

ASSUME AgentAssumption ==
  /\ IsFiniteSet(Cmds) /\ Main \notin Cmds /\ Savers = Cmds \cup {Main}
  /\ MaxSessions \in Nat /\ MaxCrashes \in Nat
  /\ Topic \cup {Switch[m] : m \in Modules} \cup {"PUBLIC_IP", "CHAT_ID"} \subseteq Keys
  /\ {"", "ip", "true", "false"} \subseteq Values
  /\ Address \in Updates
  /\ \A c \in Cmds : Menu[c] \subseteq Orders /\ \A o \in Menu[c] : Saves(o) => Saved(o) \in Updates
  /\ Installed \subseteq Tables /\ \A t \in Installed : Whole(t)

VARIABLES
  alive,     \* the process: "dead", main's start, or "up"
  crashes,
  sched,     \* the switches in the scheduler's Config
  conf,      \* the Config of each session
  sess,      \* the last session begun, in any life; 0 if none
  net,       \* its connection: none, in order, or broken and not yet noticed
  task,      \* the goroutine of each command
  round,     \* the holder of maintMu
  queue,     \* c.trends: reports not yet taken by a session
  batch,     \* those the session has taken and not yet written
  wire,      \* those on the connection
  saved,     \* those in the Master's table
  \* History
  lost,      \* reports that went down with a connection or the process
  wish,      \* each switch as the last toggle left it
  mixed,     \* sessions in which one set_topic overlapped another
  dest,      \* what the message of each command has of its address, in the end
             \* where it was sent
  crossed    \* messages whose address was read while a set_topic was at it

trendVars == <<queue, batch, wire, saved, lost>>
destVars  == <<dest, crossed>>
agentVars == <<alive, crashes, sched, conf, sess, net, task, round, trendVars, wish, mixed, destVars>>
vars == <<confVars, agentVars>>

\* The switches in a file with content t: on unless the file says "false".
\* asof is history.
Switches(t) == [on |-> {m \in Modules : Raw(t, Switch[m]) # "false"}, asof |-> wish]

\* A bug to rule out: the thread of the topic is not read.
LoadConfigChatOnly(t) ==
  [sw |-> Switches(t), ip |-> Raw(t, "PUBLIC_IP") # "",
   topic |-> [k \in {"TG_DEST_CHAT_ID"} |-> Raw(t, k)]]

\* LoadConfig of a file with content t.
LoadConfig(t) ==
  [sw    |-> Switches(t),
   ip    |-> Raw(t, "PUBLIC_IP") # "",
   topic |-> [k \in Topic |-> Raw(t, k)]]

HasOwner(t) == Raw(t, "CHAT_ID") # ""

Nowhere == [k \in Topic |-> Absent]

None  == [on |-> {}, asof |-> [m \in Modules |-> ""]]
Blank == [sw |-> None, ip |-> FALSE, topic |-> [k \in Topic |-> ""]]

Idle == [pc |-> "none"]
Free == [state |-> "free"]

Is(c, pc) == task[c].pc = pc
Running(c) == task[c].pc \notin {"none", "done", "queued"}
Goto(c, pc) == task' = [task EXCEPT ![c].pc = pc]
End(c) == task' = [task EXCEPT ![c] = [pc |-> "done"]]

Wishes     == [Modules -> Values \cup {Absent}]
Rulings    == [on : SUBSET Modules, asof : Wishes]
Configs    == [sw : Rulings, ip : BOOLEAN, topic : [Topic -> Values]]
Rounds     == {Free} \cup [state : {"sleep"} \cup Modules, on : SUBSET Modules, asof : Wishes]
Goroutines ==
  [pc : {"none", "done"}]
    \cup [pc : {"save", "map", "module", "push", "thread", "trend", "queued"},
          order : Orders, cfg : Sessions, todo : SUBSET Topic]
Fields     == Codes \cup Statuses
Trends     == [of : Cmds, fields : [goog : Fields, play : Fields, gemini : Fields]]

TypeOK ==
  /\ ConfTypeOK
  /\ alive \in {"dead", "starting", "up"} /\ crashes \in 0..MaxCrashes
  /\ sched \in Rulings /\ conf \in [Sessions -> Configs]
  /\ sess \in 0..MaxSessions /\ net \in {"down", "up", "broken"}
  /\ task \in [Cmds -> Goroutines]
  /\ round \in Rounds
  /\ wish \in Wishes /\ mixed \in SUBSET Sessions
  /\ dest \in [Cmds -> [Topic -> Values \cup {Absent}]] /\ crossed \in SUBSET Cmds
  /\ {queue, batch, wire, saved, lost} \subseteq Seq(Trends)

-----------------------------------------------------------------------------
(* The process.                                                            *)

\* Everything but the file is gone.
Reset ==
  /\ sched' = None /\ conf' = [i \in Sessions |-> Blank]
  /\ net' = "down" /\ round' = Free
  /\ task' = [c \in Cmds |-> IF Running(c) THEN [pc |-> "done"] ELSE task[c]]
  /\ mixed' = {} /\ dest' = [c \in Cmds |-> Nowhere] /\ crossed' = {}
  /\ queue' = <<>> /\ batch' = <<>> /\ wire' = <<>>
  /\ lost' = lost \o queue \o batch \o wire
  /\ UNCHANGED <<sess, saved, wish>>

Crash ==
  /\ alive # "dead" /\ crashes < MaxCrashes
  /\ alive' = "dead" /\ crashes' = crashes + 1
  /\ Die /\ Reset

\* main: a file without keys, or without CHAT_ID, ends the process; the address
\* is saved before the scheduler and the client start, if it was found.
Start ==
  /\ alive = "dead" /\ ~LoadFails /\ HasOwner(Loads)
  /\ sched' = Switches(Loads)
  /\ \/ alive' = "starting" /\ Call(Main, Address)
     \/ alive' = "up" /\ UNCHANGED confVars
  /\ UNCHANGED <<crashes, conf, sess, net, task, round, trendVars, wish, mixed, destVars>>

AddressSaved ==
  /\ alive = "starting" /\ Return(Main)
  /\ alive' = "up"
  /\ UNCHANGED <<crashes, sched, conf, sess, net, task, round, trendVars, wish, mixed, destVars>>

-----------------------------------------------------------------------------
(* WSClient.                                                               *)

\* A set_topic is under way.
Setting(c) == task[c].pc \in {"save", "map"} /\ task[c].order.path = "set_topic"

\* ... and what it sets is not in the file yet.
Unsaved(c) == Setting(c) /\ Is(c, "save") /\ saver[c] # "saved"

\* Run loads the file and dials; a file it cannot load is tried again later.
Connect ==
  /\ alive = "up" /\ net = "down" /\ sess < MaxSessions
  /\ ~LoadFails /\ HasOwner(Loads)
  /\ sess' = sess + 1 /\ net' = "up"
  /\ conf' = [conf EXCEPT ![sess + 1] = LoadConfig(Loads)]
  /\ mixed' = IF \E c \in Cmds : Unsaved(c) THEN mixed \cup {sess + 1} ELSE mixed
  /\ UNCHANGED <<confVars, alive, crashes, sched, task, round, trendVars, wish, destVars>>

\* The connection breaks: what the Master has not read of it is lost.
Break ==
  /\ net = "up" /\ net' = "broken"
  /\ wire' = <<>> /\ lost' = lost \o wire
  /\ UNCHANGED <<confVars, alive, crashes, sched, conf, sess, task, round, queue, batch, saved, wish, mixed, destVars>>

\* session returns.  It is one loop: a flush it has begun comes first.  Its
\* Config lives on in the goroutines that have it.
EndSession ==
  /\ net = "broken" /\ batch = <<>>
  /\ net' = "down"
  /\ conf' = IF \E c \in Cmds : Running(c) /\ task[c].cfg = sess THEN conf ELSE [conf EXCEPT ![sess] = Blank]
  /\ UNCHANGED <<confVars, alive, crashes, sched, sess, task, round, trendVars, wish, mixed, destVars>>

\* flushTrend takes all reports ...
TakeTrends ==
  /\ net # "down" /\ batch = <<>> /\ queue # <<>>
  /\ batch' = queue /\ queue' = <<>>
  /\ UNCHANGED <<confVars, alive, crashes, sched, conf, sess, net, task, round, wire, saved, lost, wish, mixed, destVars>>

\* A bug to rule out: a write that fails drops the rest of the batch.
WriteTrendOrGiveUp ==
  /\ batch # <<>>
  /\ IF net = "up" THEN batch' = Tail(batch) /\ wire' = Append(wire, Head(batch)) /\ UNCHANGED lost
                   ELSE batch' = <<>> /\ lost' = Append(lost, Head(batch)) /\ UNCHANGED wire
  /\ UNCHANGED <<confVars, alive, crashes, sched, conf, sess, net, task, round, queue, saved, wish, mixed, destVars>>

\* ... and writes them one by one, whatever a write returns.
WriteTrend ==
  /\ batch # <<>>
  /\ batch' = Tail(batch)
  /\ IF net = "up" THEN wire' = Append(wire, Head(batch)) /\ UNCHANGED lost
                   ELSE lost' = Append(lost, Head(batch)) /\ UNCHANGED wire
  /\ UNCHANGED <<confVars, alive, crashes, sched, conf, sess, net, task, round, queue, saved, wish, mixed, destVars>>

\* The Master's onMessage: InsertTrend.
InsertTrend ==
  /\ wire # <<>>
  /\ wire' = Tail(wire) /\ saved' = Append(saved, Head(wire))
  /\ UNCHANGED <<confVars, alive, crashes, sched, conf, sess, net, task, round, queue, batch, lost, wish, mixed, destVars>>

-----------------------------------------------------------------------------
(* RunMaintenance and the scheduler.                                       *)

\* One round at a time: TryLock.  A round has the switches of its Config.
StartRound(switches, state) ==
  round' = IF round.state = "free" THEN [state |-> state, on |-> switches.on, asof |-> switches.asof] ELSE round

\* The runner's ticker: reload, which keeps the old Config if it fails, and go.
\* A bug to rule out: the scheduler keeps the Config it was started with.
ReloadedNot == sched

Reloaded == IF LoadFails THEN sched ELSE Switches(Loads)

Tick ==
  /\ alive = "up"
  /\ sched' = Reloaded
  /\ StartRound(Reloaded, "sleep")
  /\ UNCHANGED <<confVars, alive, crashes, conf, sess, net, task, trendVars, wish, mixed, destVars>>

\* The daily report goes where the reloaded file says.
DailyReport ==
  /\ alive = "up"
  /\ sched' = Reloaded
  /\ UNCHANGED <<confVars, alive, crashes, conf, sess, net, task, round, trendVars, wish, mixed, destVars>>

\* The sleep is over (a manual round does not sleep); the dice may fall either
\* way.  With both modules off there is no round.
Choose ==
  /\ round.state = "sleep"
  /\ IF round.on = {}
       THEN round' = Free
       ELSE \E m \in round.on : round' = [round EXCEPT !.state = m]
  /\ UNCHANGED <<confVars, alive, crashes, sched, conf, sess, net, task, trendVars, wish, mixed, destVars>>

\* RunGoogle or RunTrust returns; all its calls have a time limit.
EndRound ==
  /\ round.state \in Modules
  /\ round' = Free
  /\ UNCHANGED <<confVars, alive, crashes, sched, conf, sess, net, task, trendVars, wish, mixed, destVars>>

-----------------------------------------------------------------------------
(* ExecuteCommand: the goroutine of a command, with its session's Config.  *)

Config(c) == conf[task[c].cfg]

Begin(c, o, pc) == task' = [task EXCEPT ![c] =
  IF pc = "done" THEN [pc |-> pc] ELSE [pc |-> pc, order |-> o, cfg |-> sess, todo |-> {}]]

\* A command that saves.
DeliverSave(c, o) ==
  /\ Call(c, Saved(o))
  /\ Begin(c, o, "save")
  /\ mixed' = IF o.path = "set_topic" /\ \E d \in Cmds : Unsaved(d) \/ (Setting(d) /\ task[d].cfg = sess)
                THEN mixed \cup {sess} ELSE mixed
  /\ UNCHANGED round

\* A command that does something: run asks for a round, module runs one at
\* once if the session's Config has it on (403 if not), quality probes, report
\* and log send a message.
DeliverOther(c, o) ==
  /\ \/ o.path = "run" /\ Begin(c, o, "done") /\ StartRound(conf[sess].sw, "sleep")
     \/ o.path = "module" /\ Begin(c, o, IF o.mod \in conf[sess].sw.on THEN "module" ELSE "done") /\ UNCHANGED round
     \/ o.path \in {"quality", "report"} /\ Begin(c, o, "push") /\ UNCHANGED round
  /\ UNCHANGED <<confVars, mixed>>

Deliver(c, o) ==
  /\ net = "up" /\ Is(c, "none")
  /\ IF Saves(o) THEN DeliverSave(c, o) ELSE DeliverOther(c, o)
  /\ UNCHANGED <<alive, crashes, sched, conf, sess, net, trendVars, wish, destVars>>

\* A step of confutil.SaveKeys; the switch is as the file has it now.
Saving(c) ==
  /\ SaveStep(c)
  /\ wish' = IF saver'[c] = "saved" /\ c # Main /\ task[c].order.path = "toggle"
               THEN [wish EXCEPT ![task[c].order.mod] = task[c].order.value] ELSE wish
  /\ UNCHANGED <<alive, crashes, sched, conf, sess, net, task, round, trendVars, mixed, destVars>>

\* A bug to rule out: set_topic leaves the session's Config alone.
AfterSaveOnly(c) ==
  /\ Is(c, "save") /\ Return(c)
  /\ End(c)
  /\ UNCHANGED <<alive, crashes, sched, conf, sess, net, round, trendVars, wish, mixed, destVars>>

\* Config.SaveKeys after a failure returns; after a success it goes through its
\* keys, in any order.  The commands answer 200 either way.  EnableGoogle and
\* EnableTrust are not among the fields it sets.
AfterSave(c) ==
  /\ Is(c, "save") /\ Return(c)
  /\ task' = IF saver[c] = "saved" /\ task[c].order.path = "set_topic"
               THEN [task EXCEPT ![c].pc = "map", ![c].todo = Topic]
               ELSE [task EXCEPT ![c] = [pc |-> "done"]]
  /\ UNCHANGED <<alive, crashes, sched, conf, sess, net, round, trendVars, wish, mixed, destVars>>

\* The messages that are between the two reads of the address in c's Config.
Reading(c) == {d \in Cmds : Is(d, "thread") /\ task[d].cfg = task[c].cfg}

\* A bug to rule out: SaveKeys leaves its loop after the first key.
StoreRawOnce(c, k) ==
  /\ Is(c, "map") /\ k \in task[c].todo
  /\ conf' = [conf EXCEPT ![task[c].cfg].topic[k] = task[c].order.value]
  /\ End(c)
  /\ crossed' = crossed \cup Reading(c)
  /\ UNCHANGED <<confVars, alive, crashes, sched, sess, net, round, trendVars, wish, mixed, dest>>

\* One assignment to c.Raw, without a lock.
StoreRaw(c, k) ==
  /\ Is(c, "map") /\ k \in task[c].todo
  /\ conf' = [conf EXCEPT ![task[c].cfg].topic[k] = task[c].order.value]
  /\ IF task[c].todo = {k} THEN End(c) ELSE task' = [task EXCEPT ![c].todo = @ \ {k}]
  /\ crossed' = crossed \cup Reading(c)
  /\ UNCHANGED <<confVars, alive, crashes, sched, sess, net, round, trendVars, wish, mixed, dest>>

\* RunGoogle or RunTrust on command returns: it takes no lock.
EndModule(c) ==
  /\ Is(c, "module")
  /\ End(c)
  /\ UNCHANGED <<confVars, alive, crashes, sched, conf, sess, net, round, trendVars, wish, mixed, destVars>>

\* RunQuality has a trend if it found an address.
HasTrend(c) == task[c].order.path = "quality" /\ (task[c].order.egress \/ Config(c).ip)

\* A set_topic has stored one half of its address in the Config of session i and
\* not the other.
HalfStored(i) == \E c \in Cmds : Is(c, "map") /\ task[c].cfg = i /\ task[c].todo # Topic

\* Half of the address of c's message is read from the Config, as it is now.
ReadHalf(c, k) ==
  /\ dest' = [dest EXCEPT ![c][k] = Config(c).topic[k]]
  /\ crossed' = IF task[c].cfg \in mixed \/ HalfStored(task[c].cfg) THEN crossed \cup {c} ELSE crossed

\* The probes are over and TGPushHTML reads the chat, "" for the owner's ...
ReadChat(c) ==
  /\ Is(c, "push")
  /\ Goto(c, "thread")
  /\ ReadHalf(c, "TG_DEST_CHAT_ID")
  /\ UNCHANGED <<confVars, alive, crashes, sched, conf, sess, net, round, trendVars, wish, mixed>>

\* ... and then the thread, without a lock, and sends the report; an error is
\* only logged.
TGPushHTML(c) ==
  /\ Is(c, "thread")
  /\ IF HasTrend(c) THEN Goto(c, "trend") ELSE End(c)
  /\ ReadHalf(c, "MESSAGE_THREAD_ID")
  /\ UNCHANGED <<confVars, alive, crashes, sched, conf, sess, net, round, trendVars, wish, mixed>>

QueueTrend(c) ==
  /\ Is(c, "trend")
  /\ Goto(c, "queued")
  /\ queue' = Append(queue, [of |-> c, fields |-> Trend(Probed(task[c].order.pages, task[c].order.cc))])
  /\ UNCHANGED <<confVars, alive, crashes, sched, conf, sess, net, round, batch, wire, saved, lost, wish, mixed, destVars>>

-----------------------------------------------------------------------------
\* An installed agent, not started; the switches are as the owner set them.
Init ==
  /\ ConfInit
  /\ file \in Installed
  /\ alive = "dead" /\ crashes = 0
  /\ wish = [m \in Modules |-> file[Switch[m]]]
  /\ sched = None /\ conf = [i \in Sessions |-> Blank]
  /\ sess = 0 /\ net = "down" /\ round = Free
  /\ task = [c \in Cmds |-> Idle]
  /\ queue = <<>> /\ batch = <<>> /\ wire = <<>> /\ saved = <<>> /\ lost = <<>>
  /\ mixed = {} /\ dest = [c \in Cmds |-> Nowhere] /\ crossed = {}

ClientStep == EndSession \/ TakeTrends \/ WriteTrend \/ InsertTrend

RoundStep == Choose \/ EndRound

CommandStep(c) ==
  \/ AfterSave(c) \/ EndModule(c) \/ ReadChat(c) \/ TGPushHTML(c) \/ QueueTrend(c)
  \/ \E k \in Topic : StoreRaw(c, k)

Next ==
  \/ Crash \/ Start \/ AddressSaved \/ Connect \/ Break
  \/ ClientStep \/ Tick \/ DailyReport \/ RoundStep
  \/ \E p \in Savers : Saving(p)
  \/ \E c \in Cmds : CommandStep(c) \/ \E o \in Menu[c] : Deliver(c, o)

Spec == Init /\ [][Next]_vars

\* The scheduler's ticker comes round, and a save ends: its steps are system
\* calls.
LiveSpec == Spec /\ WF_vars(Tick) /\ \A p \in Savers : WF_vars(Saving(p))

-----------------------------------------------------------------------------
\* A module that the owner had switched off when a Config was loaded is not
\* run with that Config, by a round or by a command, whatever saves, tears and
\* reloads of the file overlapped.  Only a failed save can undo a switch: a
\* file without the key has it on.  (modules.go:34-52, scheduler.go:52-55,
\* agent/config.go:73-74)
ObeysSwitch ==
  faults = 0 =>
    /\ round.state \in Modules => round.asof[round.state] # "false"
    /\ \A c \in Cmds : Is(c, "module") => Config(c).sw.asof[task[c].order.mod] # "false"

\* The address in a Config is that of one binding, chat and thread, and at rest
\* the session's is the file's - unless a save failed, or two set_topic
\* overlapped: the file has them in the order of the lock, the session's map in
\* any.  A single set_topic, too, leaves its Config with parts of two bindings
\* between its two assignments (HalfStored): what that does to messages is said
\* by OneDestination.  (commands.go:58-70, agent/config.go:86-97)
TopicAgrees ==
  /\ \A i \in Sessions \ mixed : Whole(conf[i].topic) \/ HalfStored(i)
  /\ net # "down" /\ sess \notin mixed /\ faults = 0 /\ (\A c \in Cmds : ~Setting(c))
       => \A k \in Topic : LoadFails \/ conf[sess].topic[k] = Raw(tableBar, k)

Sent(c) == dest[c]["MESSAGE_THREAD_ID"] # Absent

\* A message is sent to the chat and the thread of one binding, unless a
\* set_topic of its own session stored a key between the two reads of the
\* address, or had stored one of its two keys at one of them, or two set_topic
\* of the session overlapped.  Nothing else mixes bindings: no other session's
\* set_topic, failed save, torn file, reload or crash.  The exception is real:
\* one set_topic and one report are enough.  (tg.go:15, 26,
\* agent/config.go:90-91)
OneDestination == \A c \in Cmds : Sent(c) => Whole(dest[c]) \/ c \in crossed

Reports == queue \o batch \o wire \o saved \o lost

\* A report's trend is queued, on its way, in the Master's table or lost with
\* a connection or the process: one of them, once, through every reconnect.
\* (wsclient.go:41-45, 250-261)
TrendsOnce ==
  /\ Len(Reports) = Cardinality({c \in Cmds : Is(c, "queued")})
  /\ \A c \in Cmds : Is(c, "queued") => \E i \in 1..Len(Reports) : Reports[i].of = c

\* A trend says N/A of the services that did not answer, and of no other: the
\* country of the address stands in for a page that names none, never for a
\* page that is missing.  (unlock.go:253-258, modules.go:106-111)
TrendHonest ==
  \A i \in 1..Len(Reports) :
    LET pages == task[Reports[i].of].order.pages
    IN /\ Reports[i].fields.goog = "N/A" <=> pages.yt.body = ""
       /\ Reports[i].fields.play = "N/A" <=> pages.play.body = ""
       /\ Reports[i].fields.gemini = "N/A" <=> pages.gemini.body = ""

\* The scheduler's switches are those of the file in the end, however many
\* reloads met a file that was being rewritten.  (scheduler.go:33-37, 52-55)
SchedulerCatchesUp ==
  <>[](alive # "up" \/ LoadFails \/ sched.on = Switches(file).on)
=============================================================================
