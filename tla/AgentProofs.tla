------------------------------ MODULE AgentProofs ------------------------------
(***************************************************************************)
(* Theorems about Agent, for any number of commands, sessions, crashes and *)
(* faults of the disk: type correctness, switches that are obeyed, one     *)
(* topic, messages that go to one place, reports that are counted once and *)
(* are honest, and a file that implements an atomic table while commands,  *)
(* main and the scheduler share it.                                        *)
(***************************************************************************)
EXTENDS Agent, ConfFileProofs, FiniteSetTheorems, SequenceTheorems

-----------------------------------------------------------------------------
(* The file.                                                               *)

\* What the agent does to its file.
FileStep ==
  \/ \E p \in Savers : Saving(p)
  \/ \E p \in Savers : Return(p) \/ \E u \in Updates : Call(p, u)
  \/ Die
  \/ UNCHANGED confVars

LEMMA FileSteps ==
  ASSUME [Next]_vars
  PROVE  FileStep
<1> USE DEF FileStep
<1>1. CASE Crash
  BY <1>1 DEF Crash
<1>2. CASE Start \/ AddressSaved
  BY <1>2, AgentAssumption DEF Start, AddressSaved
<1>3. CASE Connect \/ Break \/ ClientStep \/ Tick \/ DailyReport \/ RoundStep \/ UNCHANGED vars
  BY <1>3 DEF Connect, Break, ClientStep, EndSession, TakeTrends, WriteTrend, InsertTrend,
              Tick, DailyReport, RoundStep, Choose, EndRound, vars
<1>4. ASSUME NEW c \in Cmds, CommandStep(c)
      PROVE  FileStep
  BY <1>4, AgentAssumption
  DEF CommandStep, AfterSave, EndModule, ReadChat, TGPushHTML, QueueTrend, StoreRaw
<1>5. ASSUME NEW c \in Cmds, NEW o \in Menu[c], Deliver(c, o)
      PROVE  FileStep
  <2>1. CASE Saves(o)
    BY <1>5, <2>1, AgentAssumption DEF Deliver, DeliverSave
  <2>2. CASE ~Saves(o)
    BY <1>5, <2>2 DEF Deliver, DeliverOther
  <2> QED
    BY <2>1, <2>2
<1> QED
  BY <1>1, <1>2, <1>3, <1>4, <1>5 DEF Next

\* It is a step of ConfFile.
LEMMA NextIsConfNext ==
  ASSUME [Next]_vars
  PROVE  [ConfNext]_confVars
BY FileSteps DEF FileStep, ConfNext, Saving

LEMMA FileInductive == Spec => []ConfInv /\ ImplementsStore
<1>1. Init => ConfInv /\ Store!Init
  BY ConfInitInv, StoreInit, AgentAssumption DEF Init
<1>2. ConfInv /\ [Next]_vars => ConfInv' /\ [Store!Next]_<<tableBar, faults>>
  BY NextIsConfNext, StoreStep
<1> QED
  BY <1>1, <1>2, PTL DEF Spec, ImplementsStore, Store!Spec

\* The file that commands, main and the scheduler share, through crashes and
\* restarts of the process and a failing disk, is an atomic table to them: no
\* save is lost or torn by another, and only a fault costs keys.
\* (confutil.go:38-71, cmd/agent/main.go:47, commands.go:58-95)
THEOREM AgentFileImplementsStore == Spec => ImplementsStore
BY FileInductive, PTL

-----------------------------------------------------------------------------
(* Type correctness.                                                       *)

Active == {"save", "map", "module", "push", "thread", "trend", "queued"}

LEMMA KeyFacts ==
  /\ Topic \subseteq Keys
  /\ \A m \in Modules : Switch[m] \in Keys
  /\ {"PUBLIC_IP", "CHAT_ID"} \subseteq Keys
BY AgentAssumption DEF Modules

LEMMA BoundFacts ==
  MaxSessions \in Nat /\ MaxCrashes \in Nat /\ MaxFaults \in Nat
BY AgentAssumption, ConfAssumption

LEMMA RawTyped ==
  ASSUME NEW t \in Tables, NEW k \in Keys
  PROVE  Raw(t, k) \in Values
BY AgentAssumption DEF Raw, Tables

\* What a Config has of a file is typed.
LEMMA ConfigTyped ==
  ASSUME NEW t \in Tables, wish \in Wishes
  PROVE  Switches(t) \in Rulings /\ LoadConfig(t) \in Configs
<1>1. Switches(t) \in Rulings
  BY DEF Switches, Rulings
<1>2. [k \in Topic |-> Raw(t, k)] \in [Topic -> Values]
  BY RawTyped, KeyFacts
<1> QED
  BY <1>1, <1>2 DEF LoadConfig, Configs

LEMMA BlankTyped == None \in Rulings /\ Blank \in Configs
<1>1. None \in Rulings
  BY AgentAssumption DEF None, Rulings, Wishes
<1>2. [k \in Topic |-> ""] \in [Topic -> Values]
  BY AgentAssumption
<1> QED
  BY <1>1, <1>2 DEF Blank, Configs

\* A goroutine at work has an order and a session's Config.
LEMMA GoroutineFacts ==
  ASSUME NEW g \in Goroutines
  PROVE  /\ g.pc \in {"none", "done"} \cup Active
         /\ g.pc \in Active => /\ g.order \in Orders /\ g.cfg \in Sessions /\ g.todo \subseteq Topic
                               /\ g = [pc |-> g.pc, order |-> g.order, cfg |-> g.cfg, todo |-> g.todo]
BY DEF Goroutines, Active

LEMMA RecordFacts ==
  ASSUME NEW p, NEW o, NEW i, NEW t, NEW q, NEW ks,
         NEW r, r = [pc |-> p, order |-> o, cfg |-> i, todo |-> t]
  PROVE  /\ [r EXCEPT !.pc = q] = [pc |-> q, order |-> o, cfg |-> i, todo |-> t]
         /\ [r EXCEPT !.todo = ks] = [pc |-> p, order |-> o, cfg |-> i, todo |-> ks]
<1>1. [r EXCEPT !.pc = q] = [pc |-> q, order |-> o, cfg |-> i, todo |-> t]
  OBVIOUS
<1>2. [r EXCEPT !.todo = ks] = [pc |-> p, order |-> o, cfg |-> i, todo |-> ks]
  OBVIOUS
<1> QED
  BY <1>1, <1>2

LEMMA GotoTyped ==
  ASSUME NEW g \in Goroutines, g.pc \in Active, NEW pc \in Active, NEW ks \in SUBSET Topic
  PROVE  /\ [pc |-> pc, order |-> g.order, cfg |-> g.cfg, todo |-> ks] \in Goroutines
         /\ [g EXCEPT !.pc = pc] = [pc |-> pc, order |-> g.order, cfg |-> g.cfg, todo |-> g.todo]
         /\ [g EXCEPT !.todo = ks] = [pc |-> g.pc, order |-> g.order, cfg |-> g.cfg, todo |-> ks]
         /\ [g EXCEPT !.pc = pc, !.todo = ks] = [pc |-> pc, order |-> g.order, cfg |-> g.cfg, todo |-> ks]
<1>1. g = [pc |-> g.pc, order |-> g.order, cfg |-> g.cfg, todo |-> g.todo]
  BY GoroutineFacts
<1>2. /\ [g EXCEPT !.pc = pc] = [pc |-> pc, order |-> g.order, cfg |-> g.cfg, todo |-> g.todo]
      /\ [g EXCEPT !.todo = ks] = [pc |-> g.pc, order |-> g.order, cfg |-> g.cfg, todo |-> ks]
  BY <1>1, RecordFacts
<1>3. [[g EXCEPT !.pc = pc] EXCEPT !.todo = ks] = [pc |-> pc, order |-> g.order, cfg |-> g.cfg, todo |-> ks]
  <2> DEFINE h == [g EXCEPT !.pc = pc]
  <2>1. h = [pc |-> pc, order |-> g.order, cfg |-> g.cfg, todo |-> g.todo]
    BY <1>2, Zenon
  <2> HIDE DEF h
  <2>2. [h EXCEPT !.todo = ks] = [pc |-> pc, order |-> g.order, cfg |-> g.cfg, todo |-> ks]
    BY <2>1, RecordFacts
  <2> QED
    BY <2>2 DEF h
<1>4. [g EXCEPT !.pc = pc, !.todo = ks] = [[g EXCEPT !.pc = pc] EXCEPT !.todo = ks]
  BY Zenon
<1>5. [pc |-> pc, order |-> g.order, cfg |-> g.cfg, todo |-> ks] \in Goroutines
  BY GoroutineFacts DEF Goroutines, Active
<1> QED
  BY <1>2, <1>3, <1>4, <1>5, Zenon

LEMMA OrderFacts ==
  ASSUME NEW o \in Orders
  PROVE  /\ o.path \in {"toggle", "set_topic", "run", "module", "quality", "report"}
         /\ o.path = "toggle" => o.mod \in Modules /\ o.value \in {"true", "false"}
         /\ o.path = "set_topic" => o.value \in Values
         /\ o.path = "module" => o.mod \in Modules
         /\ o.path = "quality" => o.egress \in BOOLEAN /\ o.cc \in Codes /\ o.pages \in Pages
BY DEF Orders

\* A page has a body, and what was found in it, or is missing.
LEMMA PageFacts ==
  /\ \A page \in RegionPages : page.body = "" \/ (page.body = "page" /\ page.code \in Codes)
  /\ \A page \in YouTubePages : page.body = "" \/ (page.body = "page" /\ page.gl \in Codes)
<1>1. NoPage.body = ""
  BY DEF NoPage
<1>2. \A page \in [body : {"page"}, code : Codes] : page.body = "page" /\ page.code \in Codes
  OBVIOUS
<1>3. \A page \in [body : {"page"}, gl : Codes, has : SUBSET {"google.cn", "offer"}] :
        page.body = "page" /\ page.gl \in Codes
  OBVIOUS
<1> QED
  BY <1>1, <1>2, <1>3 DEF RegionPages, YouTubePages

\* The fields of a report.
LEMMA FieldTyped ==
  ASSUME NEW o \in Orders, o.path = "quality"
  PROVE  Trend(Probed(o.pages, o.cc)) \in [goog : Fields, play : Fields, gemini : Fields]
<1> DEFINE Medias == [status : Statuses, region : Codes \cup {"", "CN"}]
<1>1. /\ o.cc \in Codes
      /\ o.pages.yt \in YouTubePages
      /\ o.pages.play \in RegionPages
      /\ o.pages.gemini \in RegionPages
  BY OrderFacts DEF Pages
<1>2. probeYouTubePremium(o.pages.yt) \in Medias
  BY <1>1, PageFacts DEF probeYouTubePremium, Media, Statuses
<1>3. probeGooglePlay(o.pages.play) \in Medias
  BY <1>1, PageFacts DEF probeGooglePlay, Media, Statuses
<1>4. probeGemini(o.pages.gemini) \in Medias
  BY <1>1, PageFacts DEF probeGemini, Media, Statuses
<1>5. \A m \in Medias : OrCountry(m, o.cc) \in Medias /\ TrendField(m) \in Fields
  BY <1>1 DEF OrCountry, TrendField, Media, Fields, Statuses
<1> HIDE DEF Medias
<1> QED
  BY <1>2, <1>3, <1>4, <1>5 DEF Trend, Probed

LEMMA RoundFacts ==
  /\ Free \in Rounds
  /\ \A r \in Rounds :
       r.state = "free" \/ (r.state \in {"sleep"} \cup Modules /\ r.on \subseteq Modules /\ r.asof \in Wishes)
  /\ \A r \in Rounds, m \in Modules :
       r.state = "sleep" => [r EXCEPT !.state = m] \in Rounds
<1>1. Free.state = "free"
  BY DEF Free
<1>2. \A r \in [state : {"sleep"} \cup Modules, on : SUBSET Modules, asof : Wishes] :
        /\ r.state \in {"sleep"} \cup Modules /\ r.on \subseteq Modules /\ r.asof \in Wishes
        /\ \A m \in Modules :
             [r EXCEPT !.state = m] \in [state : {"sleep"} \cup Modules, on : SUBSET Modules, asof : Wishes]
  OBVIOUS
<1> QED
  BY <1>1, <1>2 DEF Rounds

LEMMA StartRoundTyped ==
  ASSUME round \in Rounds, NEW r \in Rulings, StartRound(r, "sleep")
  PROVE  round' \in Rounds
<1>1. [state |-> "sleep", on |-> r.on, asof |-> r.asof]
        \in [state : {"sleep"} \cup Modules, on : SUBSET Modules, asof : Wishes]
  BY DEF Rulings
<1> QED
  BY <1>1 DEF StartRound, Rounds

\* Reports that go on stay reports.
LEMMA TrendsTyped ==
  ASSUME NEW s \in Seq(Trends), NEW t \in Seq(Trends), NEW r \in Trends
  PROVE  /\ s \o t \in Seq(Trends) /\ Append(s, r) \in Seq(Trends)
         /\ s # <<>> => Head(s) \in Trends /\ Tail(s) \in Seq(Trends)
BY ConcatProperties, AppendProperties, HeadTailProperties

\* What a message has of its address stays typed.
LEMMA NowhereTyped == [c \in Cmds |-> Nowhere] \in [Cmds -> [Topic -> Values \cup {Absent}]]
BY DEF Nowhere

LEMMA ReadHalfTyped ==
  ASSUME TypeOK, NEW c \in Cmds, task[c].cfg \in Sessions, NEW k \in Topic, ReadHalf(c, k)
  PROVE  /\ dest' \in [Cmds -> [Topic -> Values \cup {Absent}]] /\ crossed' \in SUBSET Cmds
         /\ \A d \in Cmds \ {c} : dest'[d] = dest[d]
         /\ dest'[c][k] = Config(c).topic[k]
         /\ \A l \in Topic \ {k} : dest'[c][l] = dest[c][l]
<1> DEFINE D == [Topic -> Values \cup {Absent}]
           e == [dest[c] EXCEPT ![k] = Config(c).topic[k]]
<1>1. Config(c).topic[k] \in Values
  BY DEF TypeOK, Config, Configs
<1>2. dest \in [Cmds -> D] /\ dest[c] \in D
  BY DEF TypeOK
<1>3. e \in D /\ e[k] = Config(c).topic[k] /\ \A l \in Topic \ {k} : e[l] = dest[c][l]
  BY <1>1, <1>2
<1>4. dest' = [dest EXCEPT ![c] = e]
  BY DEF ReadHalf
<1> HIDE DEF D, e
<1>5. dest' \in [Cmds -> D] /\ dest'[c] = e /\ \A d \in Cmds \ {c} : dest'[d] = dest[d]
  BY <1>2, <1>3, <1>4
<1>6. crossed' \in SUBSET Cmds
  BY DEF ReadHalf, TypeOK
<1> QED
  BY <1>3, <1>5, <1>6 DEF D

LEMMA InitTyped == Init => TypeOK
<1> SUFFICES ASSUME Init PROVE TypeOK
  OBVIOUS
<1>1. ConfTypeOK
  BY ConfInitInv, AgentAssumption DEF Init, ConfInv
<1>2. wish \in Wishes
  BY KeyFacts, AgentAssumption DEF Init, Wishes, Tables
<1>3. task \in [Cmds -> Goroutines]
  BY DEF Init, Idle, Goroutines
<1>4. sched \in Rulings /\ conf \in [Sessions -> Configs] /\ round \in Rounds
  BY BlankTyped, RoundFacts DEF Init
<1>5. {queue, batch, wire, saved, lost} \subseteq Seq(Trends)
  BY EmptySeq DEF Init
<1>6. crashes \in 0..MaxCrashes /\ sess \in 0..MaxSessions /\ mixed \in SUBSET Sessions
  BY BoundFacts DEF Init
<1>7. dest \in [Cmds -> [Topic -> Values \cup {Absent}]] /\ crossed \in SUBSET Cmds
  BY NowhereTyped DEF Init
<1> QED
  BY <1>1, <1>2, <1>3, <1>4, <1>5, <1>6, <1>7 DEF Init, TypeOK

\* The process.
LEMMA ProcessTyped ==
  ASSUME TypeOK, ConfTypeOK', Crash \/ Start \/ AddressSaved
  PROVE  TypeOK'
<1> USE DEF TypeOK, trendVars, destVars
<1>1. CASE Crash
  <2>1. alive' = "dead" /\ crashes' \in 0..MaxCrashes
    BY <1>1, BoundFacts DEF Crash
  <2>2. sched' \in Rulings /\ conf' \in [Sessions -> Configs] /\ round' \in Rounds
    BY <1>1, BlankTyped, RoundFacts DEF Crash, Reset
  <2>3. task' \in [Cmds -> Goroutines]
    BY <1>1 DEF Crash, Reset, Goroutines
  <2>4. lost' \in Seq(Trends) /\ <<>> \in Seq(Trends)
    BY <1>1, TrendsTyped, EmptySeq DEF Crash, Reset
  <2>5. dest' \in [Cmds -> [Topic -> Values \cup {Absent}]] /\ crossed' \in SUBSET Cmds
    BY <1>1, NowhereTyped DEF Crash, Reset
  <2> QED
    BY <1>1, <2>1, <2>2, <2>3, <2>4, <2>5 DEF Crash, Reset
<1>2. CASE Start
  BY <1>2, ConfigTyped DEF Start, Loads, ConfTypeOK
<1>3. CASE AddressSaved
  BY <1>3 DEF AddressSaved
<1> QED
  BY <1>1, <1>2, <1>3

\* A session, and what it writes.
LEMMA SessionTyped ==
  ASSUME TypeOK, ConfTypeOK', Connect \/ Break \/ ClientStep
  PROVE  TypeOK'
<1> USE DEF TypeOK, trendVars, destVars
<1>1. CASE Connect
  <2>1. sess + 1 \in Sessions
    BY <1>1, BoundFacts DEF Connect, Sessions
  <2>2. conf' \in [Sessions -> Configs]
    BY <1>1, <2>1, ConfigTyped DEF Connect, Loads, ConfTypeOK
  <2>3. mixed' \in SUBSET Sessions /\ sess' \in 0..MaxSessions
    BY <1>1, <2>1, BoundFacts DEF Connect, Sessions
  <2> QED
    BY <1>1, <2>2, <2>3 DEF Connect
<1>2. CASE Break
  BY <1>2, TrendsTyped, EmptySeq DEF Break
<1>3. CASE EndSession
  <2>1. conf' \in [Sessions -> Configs]
    BY <1>3, BlankTyped DEF EndSession
  <2> QED
    BY <1>3, <2>1 DEF EndSession
<1>4. CASE TakeTrends
  BY <1>4, EmptySeq DEF TakeTrends
<1>5. CASE WriteTrend
  <2>1. /\ batch' \in Seq(Trends)
        /\ Append(wire, Head(batch)) \in Seq(Trends) /\ Append(lost, Head(batch)) \in Seq(Trends)
    BY <1>5, TrendsTyped DEF WriteTrend
  <2>2. wire' \in Seq(Trends) /\ lost' \in Seq(Trends)
    BY <1>5, <2>1 DEF WriteTrend
  <2> QED
    BY <1>5, <2>1, <2>2 DEF WriteTrend
<1>6. CASE InsertTrend
  BY <1>6, TrendsTyped DEF InsertTrend
<1> QED
  BY <1>1, <1>2, <1>3, <1>4, <1>5, <1>6 DEF ClientStep

LEMMA SchedulerTyped ==
  ASSUME TypeOK, ConfTypeOK', Tick \/ DailyReport \/ RoundStep
  PROVE  TypeOK'
<1> USE DEF TypeOK, trendVars, destVars
<1>1. Reloaded \in Rulings
  BY ConfigTyped DEF Reloaded, Loads, ConfTypeOK
<1>2. CASE Tick
  BY <1>1, <1>2, StartRoundTyped DEF Tick
<1>3. CASE DailyReport
  BY <1>1, <1>3 DEF DailyReport
<1>4. CASE Choose
  <2>1. round.on \subseteq Modules
    BY <1>4, RoundFacts DEF Choose, Modules
  <2>2. round' \in Rounds
    BY <1>4, <2>1, RoundFacts DEF Choose
  <2> QED
    BY <1>4, <2>2 DEF Choose
<1>5. CASE EndRound
  BY <1>5, RoundFacts DEF EndRound
<1> QED
  BY <1>2, <1>3, <1>4, <1>5 DEF RoundStep

\* A command that saves waits for its own call of SaveKeys, and what that call
\* sets is what was ordered.  The rest is what kind of order gets where.
Caller(c) ==
  /\ saver[c] # "idle" <=> Is(c, "save")
  /\ Is(c, "save") => Saves(task[c].order) /\ upd[c] = Saved(task[c].order)
  /\ Is(c, "map") => task[c].order.path = "set_topic" /\ task[c].todo # {}
  /\ Is(c, "module") => task[c].order.path = "module"
  /\ task[c].pc \in {"trend", "queued"} => task[c].order.path = "quality"

Callers ==
  /\ \A c \in Cmds : Caller(c)
  /\ saver[Main] # "idle" => upd[Main] = Address

\* No goroutine has the Config of a session to come.
Current ==
  /\ net # "down" => sess > 0
  /\ \A c \in Cmds : Running(c) => task[c].cfg <= sess

Typed == TypeOK /\ ConfInv /\ Callers /\ Current

\* The steps that are none of a command's, nor of a call of SaveKeys.
Elsewhere == Connect \/ Break \/ ClientStep \/ Tick \/ DailyReport \/ RoundStep

LEMMA ElsewhereFrame ==
  ASSUME Elsewhere
  PROVE  UNCHANGED <<confVars, task, alive, crashes, wish>>
BY DEF Elsewhere, Connect, Break, ClientStep, EndSession, TakeTrends, WriteTrend, InsertTrend,
       Tick, DailyReport, RoundStep, Choose, EndRound

\* A new order is typed, and what it saves is the file's to save.
LEMMA BeginTyped ==
  ASSUME Typed, NEW c \in Cmds, NEW o \in Menu[c], Deliver(c, o)
  PROVE  /\ o \in Orders /\ sess \in Sessions
         /\ task' \in [Cmds -> Goroutines]
         /\ \A d \in Cmds \ {c} : task'[d] = task[d]
         /\ \/ Saves(o) /\ task'[c] = [pc |-> "save", order |-> o, cfg |-> sess, todo |-> {}]
            \/ o.path = "module" /\ o.mod \in conf[sess].sw.on
                 /\ task'[c] = [pc |-> "module", order |-> o, cfg |-> sess, todo |-> {}]
            \/ o.path \in {"quality", "report"}
                 /\ task'[c] = [pc |-> "push", order |-> o, cfg |-> sess, todo |-> {}]
            \/ task'[c] = [pc |-> "done"]
<1>1. o \in Orders
  BY AgentAssumption
<1>2. sess \in Sessions
  BY BoundFacts DEF Deliver, Typed, TypeOK, Current, Sessions
<1>3. \A pc \in Active : [pc |-> pc, order |-> o, cfg |-> sess, todo |-> {}] \in Goroutines
  BY <1>1, <1>2 DEF Goroutines, Active
<1>4. [pc |-> "done"] \in Goroutines
  BY DEF Goroutines
<1>5. task \in [Cmds -> Goroutines]
  BY DEF Typed, TypeOK
<1>6. ASSUME NEW pc, pc \in {"save", "module", "push"} \/ pc = "done", Begin(c, o, pc)
      PROVE  /\ task' \in [Cmds -> Goroutines]
             /\ \A d \in Cmds \ {c} : task'[d] = task[d]
             /\ pc = "done" => task'[c] = [pc |-> "done"]
             /\ pc # "done" => task'[c] = [pc |-> pc, order |-> o, cfg |-> sess, todo |-> {}]
  <2>1. CASE pc = "done"
    BY <1>4, <1>5, <1>6, <2>1 DEF Begin
  <2>2. CASE pc \in {"save", "module", "push"}
    <3>1. task' = [task EXCEPT ![c] = [pc |-> pc, order |-> o, cfg |-> sess, todo |-> {}]]
      BY <1>6, <2>2 DEF Begin
    <3> QED
      BY <1>3, <1>5, <2>2, <3>1 DEF Active
  <2> QED
    BY <1>6, <2>1, <2>2
<1>7. CASE Saves(o)
  BY <1>6, <1>1, <1>2, <1>7 DEF Deliver, DeliverSave
<1>8. CASE ~Saves(o)
  <2>1. DeliverOther(c, o)
    BY <1>8 DEF Deliver
  <2>2. CASE o.path = "run" /\ Begin(c, o, "done")
    BY <1>6, <1>1, <1>2, <2>2
  <2>3. CASE o.path = "module" /\ o.mod \in conf[sess].sw.on /\ Begin(c, o, "module")
    BY <1>6, <1>1, <1>2, <2>3
  <2>4. CASE o.path = "module" /\ o.mod \notin conf[sess].sw.on /\ Begin(c, o, "done")
    BY <1>6, <1>1, <1>2, <2>4
  <2>5. CASE o.path \in {"quality", "report"} /\ Begin(c, o, "push")
    BY <1>6, <1>1, <1>2, <2>5
  <2> QED
    BY <2>1, <2>2, <2>3, <2>4, <2>5 DEF DeliverOther
<1> QED
  BY <1>7, <1>8

LEMMA DeliverTyped ==
  ASSUME Typed, ConfTypeOK', NEW c \in Cmds, NEW o \in Menu[c], Deliver(c, o)
  PROVE  TypeOK'
<1>1. sess \in Sessions /\ task' \in [Cmds -> Goroutines]
  BY BeginTyped
<1>2. round' \in Rounds
  <2>1. conf[sess].sw \in Rulings
    BY <1>1 DEF Typed, TypeOK, Configs
  <2> QED
    BY <2>1, StartRoundTyped DEF Deliver, DeliverSave, DeliverOther, Typed, TypeOK
<1>3. mixed' \in SUBSET Sessions
  BY <1>1 DEF Deliver, DeliverSave, DeliverOther, Typed, TypeOK
<1> QED
  BY <1>1, <1>2, <1>3 DEF Deliver, Typed, TypeOK, trendVars, destVars

LEMMA SavingTyped ==
  ASSUME Typed, ConfTypeOK', NEW p \in Savers, Saving(p)
  PROVE  TypeOK'
<1>1. wish' \in Wishes
  <2>1. CASE saver'[p] = "saved" /\ p # Main /\ task[p].order.path = "toggle"
    <3>1. p \in Cmds /\ saver[p] # "idle"
      BY <2>1, AgentAssumption
      DEF Saving, SaveStep, ReadFile, ReadFails, Truncate, OpenFails, WriteBody, WriteFails, Goes, Typed, ConfInv, ConfTypeOK
    <3>2. task[p].order \in Orders
      BY <3>1, GoroutineFacts DEF Typed, Callers, Caller, Is, TypeOK, Active
    <3>3. task[p].order.mod \in Modules /\ task[p].order.value \in Values
      BY <2>1, <3>2, OrderFacts, AgentAssumption
    <3>4. wish' = [wish EXCEPT ![task[p].order.mod] = task[p].order.value]
      BY <2>1 DEF Saving
    <3> QED
      BY <3>3, <3>4 DEF Typed, TypeOK, Wishes
  <2>2. CASE ~(saver'[p] = "saved" /\ p # Main /\ task[p].order.path = "toggle")
    BY <2>2 DEF Saving, Typed, TypeOK
  <2> QED
    BY <2>1, <2>2
<1> QED
  BY <1>1 DEF Saving, Typed, TypeOK, trendVars, destVars

\* What a command's goroutine has become: it has ended, or it goes on with its
\* order and its session's Config.
Becomes(c, pc, ks) ==
  task'[c] = [pc |-> pc, order |-> task[c].order, cfg |-> task[c].cfg, todo |-> ks]

LEMMA GoroutineStep ==
  ASSUME Typed, NEW c \in Cmds, CommandStep(c)
  PROVE  /\ task[c].pc \in Active /\ Running(c) /\ task[c].order \in Orders /\ task[c].cfg \in Sessions
         /\ task' \in [Cmds -> Goroutines]
         /\ \A d \in Cmds \ {c} : task'[d] = task[d]
         /\ \/ task'[c] = [pc |-> "done"]
            \/ /\ Is(c, "save") /\ AfterSave(c) /\ saver[c] = "saved"
               /\ task[c].order.path = "set_topic" /\ Becomes(c, "map", Topic)
            \/ /\ Is(c, "map")
               /\ \E k \in Topic : StoreRaw(c, k) /\ task[c].todo # {k} /\ Becomes(c, "map", task[c].todo \ {k})
            \/ Is(c, "push") /\ Becomes(c, "thread", task[c].todo)
            \/ Is(c, "thread") /\ HasTrend(c) /\ Becomes(c, "trend", task[c].todo)
            \/ Is(c, "trend") /\ QueueTrend(c) /\ Becomes(c, "queued", task[c].todo)
<1> DEFINE G(pc, ks) == [pc |-> pc, order |-> task[c].order, cfg |-> task[c].cfg, todo |-> ks]
<1>1. task \in [Cmds -> Goroutines] /\ task[c] \in Goroutines
  BY DEF Typed, TypeOK
<1>2. task[c].pc \in Active /\ Running(c)
  BY DEF CommandStep, AfterSave, EndModule, ReadChat, TGPushHTML, QueueTrend, StoreRaw, Is, Active, Running
<1>3. task[c].order \in Orders /\ task[c].cfg \in Sessions /\ task[c].todo \in SUBSET Topic
  BY <1>1, <1>2, GoroutineFacts
<1>4. [pc |-> "done"] \in Goroutines
  BY DEF Goroutines
<1>5. ASSUME NEW g \in Goroutines, task' = [task EXCEPT ![c] = g]
      PROVE  task' \in [Cmds -> Goroutines] /\ task'[c] = g /\ \A d \in Cmds \ {c} : task'[d] = task[d]
  BY <1>1, <1>5
<1>6. ASSUME NEW pc \in Active, NEW ks \in SUBSET Topic
      PROVE  /\ G(pc, ks) \in Goroutines
             /\ [task[c] EXCEPT !.pc = pc] = G(pc, task[c].todo)
             /\ [task[c] EXCEPT !.todo = ks] = G(task[c].pc, ks)
             /\ [task[c] EXCEPT !.pc = pc, !.todo = ks] = G(pc, ks)
  BY <1>1, <1>2, GotoTyped
<1>7. CASE AfterSave(c)
  <2>1. CASE saver[c] = "saved" /\ task[c].order.path = "set_topic"
    <3>1. task' = [task EXCEPT ![c] = [task[c] EXCEPT !.pc = "map", !.todo = Topic]]
      BY <1>1, <1>7, <2>1 DEF AfterSave
    <3>2. task' = [task EXCEPT ![c] = G("map", Topic)] /\ G("map", Topic) \in Goroutines
      BY <1>6, <3>1 DEF Active
    <3> HIDE DEF G
    <3>3. task' \in [Cmds -> Goroutines] /\ task'[c] = G("map", Topic) /\ \A d \in Cmds \ {c} : task'[d] = task[d]
      BY <1>5, <3>2
    <3> QED
      BY <1>2, <1>3, <1>7, <2>1, <3>3 DEF G, Becomes, AfterSave
  <2>2. CASE ~(saver[c] = "saved" /\ task[c].order.path = "set_topic")
    BY <1>2, <1>3, <1>4, <1>5, <1>7, <2>2 DEF AfterSave
  <2> QED
    BY <2>1, <2>2
<1>8. CASE EndModule(c)
  BY <1>2, <1>3, <1>4, <1>5, <1>8 DEF EndModule, End
<1>9. CASE TGPushHTML(c)
  <2>1. CASE HasTrend(c)
    <3>1. task' = [task EXCEPT ![c] = [task[c] EXCEPT !.pc = "trend"]]
      BY <1>1, <1>9, <2>1 DEF ReadChat, TGPushHTML, Goto
    <3>2. task' = [task EXCEPT ![c] = G("trend", task[c].todo)] /\ G("trend", task[c].todo) \in Goroutines
      BY <1>3, <1>6, <3>1 DEF Active
    <3> HIDE DEF G
    <3>3. task' \in [Cmds -> Goroutines] /\ task'[c] = G("trend", task[c].todo) /\ \A d \in Cmds \ {c} : task'[d] = task[d]
      BY <1>5, <3>2
    <3> QED
      BY <1>2, <1>3, <1>9, <2>1, <3>3 DEF G, Becomes, TGPushHTML
  <2>2. CASE ~HasTrend(c)
    BY <1>2, <1>3, <1>4, <1>5, <1>9, <2>2 DEF ReadChat, TGPushHTML, End
  <2> QED
    BY <2>1, <2>2
<1>12. CASE ReadChat(c)
  <2>1. task' = [task EXCEPT ![c] = [task[c] EXCEPT !.pc = "thread"]]
    BY <1>1, <1>12 DEF ReadChat, Goto
  <2>2. task' = [task EXCEPT ![c] = G("thread", task[c].todo)] /\ G("thread", task[c].todo) \in Goroutines
    BY <1>3, <1>6, <2>1 DEF Active
  <2> HIDE DEF G
  <2>3. task' \in [Cmds -> Goroutines] /\ task'[c] = G("thread", task[c].todo) /\ \A d \in Cmds \ {c} : task'[d] = task[d]
    BY <1>5, <2>2
  <2> QED
    BY <1>2, <1>3, <1>12, <2>3 DEF G, Becomes, ReadChat
<1>10. CASE QueueTrend(c)
  <2>1. task' = [task EXCEPT ![c] = [task[c] EXCEPT !.pc = "queued"]]
    BY <1>1, <1>10 DEF QueueTrend, Goto
  <2>2. task' = [task EXCEPT ![c] = G("queued", task[c].todo)] /\ G("queued", task[c].todo) \in Goroutines
    BY <1>3, <1>6, <2>1 DEF Active
  <2> HIDE DEF G
  <2>3. task' \in [Cmds -> Goroutines] /\ task'[c] = G("queued", task[c].todo) /\ \A d \in Cmds \ {c} : task'[d] = task[d]
    BY <1>5, <2>2
  <2> QED
    BY <1>2, <1>3, <1>10, <2>3 DEF G, Becomes, QueueTrend
<1>11. ASSUME NEW k \in Topic, StoreRaw(c, k)
       PROVE  /\ task' \in [Cmds -> Goroutines]
              /\ \A d \in Cmds \ {c} : task'[d] = task[d]
              /\ \/ task'[c] = [pc |-> "done"]
                 \/ Is(c, "map") /\ task[c].todo # {k} /\ Becomes(c, "map", task[c].todo \ {k})
  <2>1. CASE task[c].todo = {k}
    BY <1>4, <1>5, <1>11, <2>1 DEF StoreRaw, End
  <2>2. CASE task[c].todo # {k}
    <3>1. task' = [task EXCEPT ![c] = [task[c] EXCEPT !.todo = task[c].todo \ {k}]] /\ task[c].pc = "map"
      BY <1>1, <1>11, <2>2 DEF StoreRaw, Is
    <3>2. task[c].todo \ {k} \in SUBSET Topic
      BY <1>3
    <3>3. task' = [task EXCEPT ![c] = G("map", task[c].todo \ {k})] /\ G("map", task[c].todo \ {k}) \in Goroutines
      BY <1>6, <3>1, <3>2 DEF Active
    <3> HIDE DEF G
    <3>4. /\ task' \in [Cmds -> Goroutines] /\ task'[c] = G("map", task[c].todo \ {k})
          /\ \A d \in Cmds \ {c} : task'[d] = task[d]
      BY <1>5, <3>3
    <3> QED
      BY <2>2, <3>1, <3>4 DEF G, Becomes, Is
  <2> QED
    BY <2>1, <2>2
<1> QED
  BY <1>2, <1>3, <1>7, <1>8, <1>9, <1>10, <1>11, <1>12 DEF CommandStep

LEMMA CommandTyped ==
  ASSUME Typed, ConfTypeOK', NEW c \in Cmds, CommandStep(c)
  PROVE  TypeOK'
<1> USE DEF TypeOK, trendVars, destVars
<1>1. task' \in [Cmds -> Goroutines] /\ task[c].order \in Orders /\ task[c].cfg \in Sessions
  BY GoroutineStep
<1>2. ASSUME NEW k \in Topic, StoreRaw(c, k)
      PROVE  conf' \in [Sessions -> Configs]
  <2>1. task[c].order.value \in Values
    BY <1>1, <1>2, OrderFacts DEF StoreRaw, Typed, Callers, Caller
  <2>2. conf \in [Sessions -> Configs] /\ conf[task[c].cfg] \in Configs
    BY <1>1 DEF Typed
  <2>3. [conf[task[c].cfg] EXCEPT !.topic = [conf[task[c].cfg].topic EXCEPT ![k] = task[c].order.value]] \in Configs
    BY <2>1, <2>2 DEF Configs
  <2>4. conf' = [conf EXCEPT ![task[c].cfg] =
                   [conf[task[c].cfg] EXCEPT !.topic = [conf[task[c].cfg].topic EXCEPT ![k] = task[c].order.value]]]
    BY <1>1, <1>2, <2>2 DEF StoreRaw
  <2> HIDE DEF TypeOK
  <2> QED
    BY <2>2, <2>3, <2>4
<1>3. ASSUME QueueTrend(c)
      PROVE  queue' \in Seq(Trends)
  <2>1. [of |-> c, fields |-> Trend(Probed(task[c].order.pages, task[c].order.cc))] \in Trends
    BY <1>1, <1>3, FieldTyped DEF QueueTrend, Typed, Callers, Caller, Is, Trends
  <2>2. queue \in Seq(Trends)
    BY DEF Typed
  <2> QED
    BY <1>3, <2>1, <2>2, TrendsTyped DEF QueueTrend
<1>4. CASE AfterSave(c) \/ EndModule(c)
  BY <1>1, <1>4 DEF AfterSave, EndModule, Typed
<1>7. CASE ReadChat(c) \/ TGPushHTML(c)
  <2>1. \E k \in Topic : ReadHalf(c, k)
    BY <1>7 DEF ReadChat, TGPushHTML, Topic
  <2>2. dest' \in [Cmds -> [Topic -> Values \cup {Absent}]] /\ crossed' \in SUBSET Cmds
    BY <1>1, <2>1, ReadHalfTyped DEF Typed
  <2> QED
    BY <1>1, <1>7, <2>2 DEF ReadChat, TGPushHTML, Typed
<1>5. CASE QueueTrend(c)
  BY <1>1, <1>3, <1>5 DEF QueueTrend, Typed
<1>6. ASSUME NEW k \in Topic, StoreRaw(c, k)
      PROVE  TypeOK'
  BY <1>1, <1>2, <1>6 DEF StoreRaw, Reading, Typed
<1> QED
  BY <1>4, <1>5, <1>6, <1>7 DEF CommandStep

LEMMA TypeStep ==
  ASSUME Typed, [Next]_vars
  PROVE  TypeOK' /\ ConfInv'
<1>1. ConfInv' /\ ConfTypeOK'
  BY NextIsConfNext, StoreStep DEF Typed, ConfInv
<1>2. CASE UNCHANGED vars
  BY <1>1, <1>2 DEF vars, agentVars, trendVars, destVars, Typed, TypeOK
<1>3. CASE \E p \in Savers : Saving(p)
  BY <1>1, <1>3, SavingTyped
<1>4. CASE \E c \in Cmds : CommandStep(c) \/ \E o \in Menu[c] : Deliver(c, o)
  BY <1>1, <1>4, CommandTyped, DeliverTyped
<1> QED
  BY <1>1, <1>2, <1>3, <1>4, ProcessTyped, SessionTyped, SchedulerTyped DEF Next, Typed

\* A step of SaveKeys begins and ends with the call under way, and leaves what
\* is to be saved alone.
LEMMA SavingFrame ==
  ASSUME Typed, NEW p \in Savers, Saving(p)
  PROVE  /\ saver[p] # "idle" /\ saver'[p] # "idle"
         /\ \A q \in Savers \ {p} : saver'[q] = saver[q]
         /\ UNCHANGED <<upd, alive, crashes, sched, conf, sess, net, task, round, trendVars, mixed>>
BY DEF Saving, SaveStep, ReadFile, ReadFails, Truncate, OpenFails, WriteBody, WriteFails, Goes,
       Typed, ConfInv, ConfTypeOK

LEMMA CallerFrame ==
  ASSUME Typed, NEW c \in Cmds,
         task'[c] = task[c], (saver'[c] # "idle") <=> (saver[c] # "idle"), upd'[c] = upd[c]
  PROVE  Caller(c)'
BY DEF Typed, Callers, Caller, Is

LEMMA CallersStep ==
  ASSUME Typed, [Next]_vars
  PROVE  Callers'
<1>0. /\ saver \in [Savers -> Held \cup {"idle", "waiting", "saved", "failed"}]
      /\ upd \in [Savers -> Updates \cup {Empty}]
      /\ Savers = Cmds \cup {Main} /\ Main \notin Cmds
  BY AgentAssumption DEF Typed, ConfInv, ConfTypeOK
<1>00. /\ \A c \in Cmds : Caller(c)
       /\ saver[Main] # "idle" => upd[Main] = Address
  BY DEF Typed, Callers
<1>000. ASSUME UNCHANGED <<saver, upd, task>>
        PROVE  Callers'
  BY <1>00, <1>000, CallerFrame DEF Callers
<1>1. CASE Crash
  <2>1. \A p \in Savers : saver'[p] = "idle"
    BY <1>1 DEF Crash, Die
  <2>2. \A c \in Cmds : task'[c] = IF Running(c) THEN [pc |-> "done"] ELSE task[c]
    BY <1>1 DEF Crash, Reset
  <2> QED
    BY <1>0, <1>00, <2>1, <2>2 DEF Callers, Caller, Is, Running
<1>2. CASE Start
  <2>1. CASE UNCHANGED confVars
    BY <1>2, <1>000, <2>1 DEF Start, confVars
  <2>2. CASE Call(Main, Address)
    <3>1. /\ upd'[Main] = Address
          /\ \A c \in Cmds : saver'[c] = saver[c] /\ upd'[c] = upd[c]
      BY <1>0, <2>2 DEF Call, Goes
    <3>2. UNCHANGED task
      BY <1>2 DEF Start
    <3>3. \A c \in Cmds : Caller(c)'
      BY <3>1, <3>2, CallerFrame
    <3> QED
      BY <3>1, <3>3 DEF Callers
  <2> QED
    BY <1>2, <2>1, <2>2 DEF Start
<1>3. CASE AddressSaved
  <2>1. saver'[Main] = "idle" /\ \A c \in Cmds : saver'[c] = saver[c] /\ upd'[c] = upd[c]
    BY <1>0, <1>3 DEF AddressSaved, Return
  <2>2. UNCHANGED task
    BY <1>3 DEF AddressSaved
  <2>3. \A c \in Cmds : Caller(c)'
    BY <2>1, <2>2, CallerFrame
  <2> QED
    BY <2>1, <2>3 DEF Callers
<1>4. CASE Elsewhere \/ UNCHANGED vars
  BY <1>4, <1>000, ElsewhereFrame DEF vars, agentVars, confVars
<1>5. ASSUME NEW p \in Savers, Saving(p)
      PROVE  Callers'
  <2>1. UNCHANGED <<upd, task>> /\ \A q \in Savers : saver'[q] # "idle" <=> saver[q] # "idle"
    BY <1>5, SavingFrame
  <2> QED
    BY <1>0, <1>00, <2>1, CallerFrame DEF Callers
<1>6. ASSUME NEW c \in Cmds, NEW o \in Menu[c], Deliver(c, o)
      PROVE  Callers'
  <2>1. task[c].pc = "none" /\ \A d \in Cmds \ {c} : task'[d] = task[d]
    BY <1>6, BeginTyped DEF Deliver, Is
  <2>2. saver[c] = "idle"
    BY <1>00, <2>1 DEF Caller, Is
  <2>3. CASE Saves(o)
    <3>1. Call(c, Saved(o)) /\ Begin(c, o, "save")
      BY <1>6, <2>3 DEF Deliver, DeliverSave
    <3>2. /\ saver'[c] = "waiting" /\ upd'[c] = Saved(o)
          /\ \A p \in Savers \ {c} : saver'[p] = saver[p] /\ upd'[p] = upd[p]
      BY <1>0, <3>1 DEF Call, Goes
    <3>3. task'[c] = [pc |-> "save", order |-> o, cfg |-> sess, todo |-> {}]
      BY <3>1 DEF Begin, Typed, TypeOK
    <3>4. Caller(c)'
      BY <2>3, <3>2, <3>3 DEF Caller, Is
    <3> QED
      BY <1>0, <1>00, <2>1, <3>2, <3>4, CallerFrame DEF Callers
  <2>4. CASE ~Saves(o)
    <3>1. UNCHANGED <<saver, upd>>
      BY <1>6, <2>4 DEF Deliver, DeliverOther, confVars
    <3>2. \/ o.path = "module" /\ task'[c] = [pc |-> "module", order |-> o, cfg |-> sess, todo |-> {}]
          \/ task'[c] = [pc |-> "push", order |-> o, cfg |-> sess, todo |-> {}]
          \/ task'[c] = [pc |-> "done"]
      BY <1>6, <2>4, BeginTyped, Zenon
    <3>3. Caller(c)'
      BY <2>2, <3>1, <3>2 DEF Caller, Is
    <3> QED
      BY <1>00, <2>1, <3>1, <3>3, CallerFrame DEF Callers
  <2> QED
    BY <2>3, <2>4
<1>7. ASSUME NEW c \in Cmds, CommandStep(c)
      PROVE  Callers'
  <2>1. \A d \in Cmds \ {c} : task'[d] = task[d]
    BY <1>7, GoroutineStep
  <2>2. CASE AfterSave(c)
    <3>1. saver'[c] = "idle" /\ \A p \in Savers \ {c} : saver'[p] = saver[p] /\ upd'[p] = upd[p]
      BY <1>0, <2>2 DEF AfterSave, Return
    <3>2. \/ task'[c] = [pc |-> "done"]
          \/ task[c].order.path = "set_topic" /\ Becomes(c, "map", Topic)
      <4>1. Is(c, "save")
        BY <2>2 DEF AfterSave
      <4> QED
        BY <1>7, <4>1, GoroutineStep DEF Is
    <3>3. Caller(c)'
      BY <3>1, <3>2 DEF Becomes, Caller, Is, Topic
    <3> QED
      BY <1>0, <1>00, <2>1, <3>1, <3>3, CallerFrame DEF Callers
  <2>3. CASE ~AfterSave(c)
    <3>1. UNCHANGED <<saver, upd>> /\ task[c].pc # "save"
      BY <1>7, <2>3 DEF CommandStep, EndModule, ReadChat, TGPushHTML, QueueTrend, StoreRaw, confVars, Is
    <3>2. Caller(c)
      BY <1>00
    <3>20. saver'[c] = "idle"
      BY <3>1, <3>2 DEF Caller, Is
    <3>3. ASSUME task'[c] = [pc |-> "done"]
          PROVE  Caller(c)'
      BY <3>20, <3>3 DEF Caller, Is
    <3>4. ASSUME NEW k \in Topic, StoreRaw(c, k), task[c].todo # {k}, Becomes(c, "map", task[c].todo \ {k})
          PROVE  Caller(c)'
      <4>1. task[c].pc = "map" /\ task[c].order.path = "set_topic" /\ task[c].todo \ {k} # {}
        BY <3>2, <3>4 DEF StoreRaw, Is, Caller
      <4> QED
        BY <3>20, <3>4, <4>1 DEF Becomes, Caller, Is
    <3>50. ASSUME Becomes(c, "thread", task[c].todo)
           PROVE  Caller(c)'
      BY <3>20, <3>50 DEF Becomes, Caller, Is
    <3>5. ASSUME \/ Is(c, "thread") /\ HasTrend(c) /\ Becomes(c, "trend", task[c].todo)
                 \/ Is(c, "trend") /\ Becomes(c, "queued", task[c].todo)
          PROVE  Caller(c)'
      <4>1. task[c].order.path = "quality"
        BY <3>2, <3>5 DEF HasTrend, Is, Caller
      <4> QED
        BY <3>20, <3>5, <4>1 DEF Becomes, Caller, Is
    <3>6. \/ task'[c] = [pc |-> "done"]
          \/ \E k \in Topic : StoreRaw(c, k) /\ task[c].todo # {k} /\ Becomes(c, "map", task[c].todo \ {k})
          \/ Becomes(c, "thread", task[c].todo)
          \/ Is(c, "thread") /\ HasTrend(c) /\ Becomes(c, "trend", task[c].todo)
          \/ Is(c, "trend") /\ Becomes(c, "queued", task[c].todo)
      BY <1>7, <2>3, GoroutineStep, Zenon
    <3>7. Caller(c)'
      BY <3>3, <3>4, <3>5, <3>50, <3>6, Zenon
    <3> QED
      BY <1>00, <2>1, <3>1, <3>7, CallerFrame DEF Callers
  <2> QED
    BY <2>2, <2>3
<1> QED
  BY <1>1, <1>2, <1>3, <1>4, <1>5, <1>6, <1>7 DEF Next, Elsewhere

LEMMA CurrentStep ==
  ASSUME Typed, [Next]_vars
  PROVE  Current'
<1> DEFINE Behind(g, i) == g.pc \notin {"none", "done", "queued"} => g.cfg <= i
<1>1. sess \in Nat /\ (net # "down" => sess > 0) /\ \A c \in Cmds : Behind(task[c], sess)
  BY BoundFacts DEF Typed, Current, TypeOK, Running
<1>2. SUFFICES (net' # "down" => sess' > 0) /\ \A c \in Cmds : Behind(task'[c], sess')
  BY DEF Current, Running
<1>3. Behind([pc |-> "done"], sess')
  OBVIOUS
<1>4. CASE Crash
  <2>1. net' = "down" /\ UNCHANGED sess /\ \A c \in Cmds : task'[c] = IF Running(c) THEN [pc |-> "done"] ELSE task[c]
    BY <1>4 DEF Crash, Reset
  <2> HIDE DEF Behind
  <2> QED
    BY <1>1, <1>3, <2>1
<1>5. CASE Connect
  <2>1. sess' = sess + 1 /\ UNCHANGED task
    BY <1>5 DEF Connect
  <2>2. ASSUME NEW c \in Cmds
        PROVE  Behind(task[c], sess + 1)
    <3>1. CASE Running(c)
      <4>1. task[c].cfg \in Sessions
        BY <3>1, GoroutineFacts DEF Typed, TypeOK, Running, Active
      <4> QED
        BY <1>1, <4>1 DEF Sessions
    <3>2. CASE ~Running(c)
      BY <3>2 DEF Running
    <3> QED
      BY <3>1, <3>2
  <2>3. sess + 1 > 0
    BY <1>1
  <2> HIDE DEF Behind
  <2> QED
    BY <2>1, <2>2, <2>3
<1>6. CASE Start \/ AddressSaved \/ Break \/ ClientStep \/ Tick \/ DailyReport \/ RoundStep \/ UNCHANGED vars
  <2>1. UNCHANGED <<sess, task>> /\ (net' # "down" => net # "down")
    BY <1>6 DEF Start, AddressSaved, Break, ClientStep, EndSession, TakeTrends, WriteTrend, InsertTrend,
                Tick, DailyReport, RoundStep, Choose, EndRound, vars, agentVars
  <2> HIDE DEF Behind
  <2> QED
    BY <1>1, <2>1
<1>7. ASSUME NEW p \in Savers, Saving(p)
      PROVE  (net' # "down" => sess' > 0) /\ \A c \in Cmds : Behind(task'[c], sess')
  <2>1. UNCHANGED <<sess, task, net>>
    BY <1>7 DEF Saving
  <2> HIDE DEF Behind
  <2> QED
    BY <1>1, <2>1
<1>8. ASSUME NEW c \in Cmds, NEW o \in Menu[c], Deliver(c, o)
      PROVE  (net' # "down" => sess' > 0) /\ \A d \in Cmds : Behind(task'[d], sess')
  <2>1. UNCHANGED <<sess, net>> /\ \A d \in Cmds \ {c} : task'[d] = task[d]
    BY <1>8, BeginTyped DEF Deliver
  <2>2. \/ \E pc : task'[c] = [pc |-> pc, order |-> o, cfg |-> sess, todo |-> {}]
        \/ task'[c] = [pc |-> "done"]
    BY <1>8, BeginTyped, Zenon
  <2>3. ASSUME NEW pc
        PROVE  Behind([pc |-> pc, order |-> o, cfg |-> sess, todo |-> {}], sess)
    BY <1>1
  <2>4. Behind(task'[c], sess)
    <3> HIDE DEF Behind
    <3>1. Behind([pc |-> "done"], sess)
      BY DEF Behind
    <3> QED
      BY <2>2, <2>3, <3>1, Zenon
  <2> HIDE DEF Behind
  <2> QED
    BY <1>1, <2>1, <2>4
<1>9. ASSUME NEW c \in Cmds, CommandStep(c)
      PROVE  (net' # "down" => sess' > 0) /\ \A d \in Cmds : Behind(task'[d], sess')
  <2>1. UNCHANGED <<sess, net>> /\ \A d \in Cmds \ {c} : task'[d] = task[d]
    BY <1>9, GoroutineStep DEF CommandStep, AfterSave, EndModule, ReadChat, TGPushHTML, QueueTrend, StoreRaw
  <2>2. /\ Running(c)
        /\ \/ \E pc, ks : Becomes(c, pc, ks)
           \/ task'[c] = [pc |-> "done"]
    BY <1>9, GoroutineStep, Zenon
  <2>20. Behind(task[c], sess)
    BY <1>1
  <2>21. task[c].cfg <= sess
    BY <2>2, <2>20 DEF Running
  <2>22. ASSUME NEW pc, NEW ks
        PROVE  Behind([pc |-> pc, order |-> task[c].order, cfg |-> task[c].cfg, todo |-> ks], sess)
    BY <2>21
  <2>3. Behind(task'[c], sess)
    <3> HIDE DEF Behind
    <3>1. Behind([pc |-> "done"], sess)
      BY DEF Behind
    <3> QED
      BY <2>2, <2>22, <3>1, Zenon DEF Becomes
  <2> HIDE DEF Behind
  <2> QED
    BY <1>1, <2>1, <2>3
<1> HIDE DEF Behind
<1> QED
  BY <1>4, <1>5, <1>6, <1>7, <1>8, <1>9 DEF Next

LEMMA TypedInductive == Spec => []Typed
<1>1. Init => Typed
  <2> SUFFICES ASSUME Init PROVE Typed
    OBVIOUS
  <2>1. TypeOK /\ ConfInv
    BY InitTyped, ConfInitInv, AgentAssumption DEF Init
  <2>2. Callers
    BY AgentAssumption DEF Init, ConfInit, Callers, Caller, Is, Idle
  <2>3. Current
    BY DEF Init, Current, Running, Idle
  <2> QED
    BY <2>1, <2>2, <2>3 DEF Typed
<1>2. Typed /\ [Next]_vars => Typed'
  BY TypeStep, CallersStep, CurrentStep DEF Typed
<1> QED
  BY <1>1, <1>2, PTL DEF Spec

\* Every goroutine at work has an order of the Master, the Config of a session
\* and a step it is at; every report has a field for each service.
\* (commands.go:18-130, scheduler.go:33-55, wsclient.go:41-45)
THEOREM AgentTypeCorrect == Spec => []TypeOK
<1>1. Typed => TypeOK
  BY DEF Typed
<1> QED
  BY <1>1, TypedInductive, PTL

-----------------------------------------------------------------------------
(* Switches.                                                               *)

LEMMA FaultsGrow ==
  ASSUME Typed, [Next]_vars
  PROVE  faults \in Nat /\ faults' \in {faults, faults + 1}
<1>1. faults \in Nat
  BY ConfAssumption DEF Typed, ConfInv, ConfTypeOK
<1> QED
  BY <1>1, NextIsConfNext, StoreStep DEF Typed, Store!Next, Store!Save, Store!Fault

LEMMA OverwriteOnly ==
  ASSUME NEW t, NEW ks \in SUBSET Keys, NEW v \in Values, NEW k \in Keys
  PROVE  Overwrite(t, Only(ks, v))[k] = IF k \in ks THEN v ELSE t[k]
BY ConfAssumption DEF Overwrite, Only

\* Without a fault, only the last step of a save changes the table, and it does
\* what was called for.
LEMMA TableStep ==
  ASSUME Typed, [Next]_vars, faults' = faults
  PROVE  \/ UNCHANGED tableBar /\ \A p \in Savers : Saving(p) => saver'[p] # "saved"
         \/ \E p \in Savers : Saving(p) /\ saver'[p] = "saved" /\ tableBar' = Overwrite(tableBar, upd[p])
<1>0. ConfInv /\ faults # faults + 1
  BY FaultsGrow DEF Typed
<1>1. ASSUME NEW p \in Savers, Saving(p)
      PROVE  \/ UNCHANGED tableBar /\ saver'[p] # "saved"
             \/ saver'[p] = "saved" /\ tableBar' = Overwrite(tableBar, upd[p])
  BY <1>0, <1>1, SaveStepTable DEF Saving
<1>2. CASE UNCHANGED confVars
  <2>1. ASSUME NEW p \in Savers, Saving(p), saver'[p] = "saved"
        PROVE  FALSE
    BY <1>2, <2>1 DEF confVars, Saving, SaveStep, ReadFile, ReadFails, Truncate, OpenFails, WriteBody, WriteFails, Goes
  <2> QED
    BY <1>2, <2>1 DEF confVars, tableBar, Torn
<1>3. CASE \E p \in Savers : Return(p) \/ \E u \in Updates : Call(p, u)
  <2>1. UNCHANGED tableBar
    BY <1>0, <1>3, CallStep, ReturnStep
  <2>2. ASSUME NEW p \in Savers, Saving(p), saver'[p] = "saved"
        PROVE  FALSE
    BY <1>3, <2>2 DEF Return, Call, Saving, SaveStep, ReadFile, ReadFails, Truncate, OpenFails, WriteBody, WriteFails, Goes,
                      Typed, ConfInv, ConfTypeOK
  <2> QED
    BY <2>1, <2>2
<1>4. CASE Die
  <2>1. UNCHANGED tableBar
    BY <1>0, <1>4, DieStep
  <2>2. \A p \in Savers : saver'[p] # "saved"
    BY <1>4 DEF Die
  <2> QED
    BY <2>1, <2>2
<1> QED
  BY <1>1, <1>2, <1>3, <1>4, FileSteps DEF FileStep

\* What a load finds is the table.
LEMMA LoadsTable ==
  ASSUME ConfInv, ~LoadFails
  PROVE  Loads = tableBar
BY DEF ConfInv, HolderKnows, LoadFails, Loads, tableBar, Torn

\* Where the switches of a session's Config come from.
LEMMA SwitchesKept ==
  ASSUME Typed, [Next]_vars, NEW i \in Sessions
  PROVE  \/ conf'[i].sw = conf[i].sw
         \/ conf'[i].sw = None /\ \A c \in Cmds : task'[c] = task[c] /\ Running(c) => task[c].cfg # i
         \/ Connect /\ i = sess + 1 /\ conf'[i].sw = Switches(Loads)
<1>1. conf \in [Sessions -> Configs] /\ task \in [Cmds -> Goroutines] /\ sess \in Nat
  BY BoundFacts DEF Typed, TypeOK
<1>2. Blank.sw = None /\ \A t : LoadConfig(t).sw = Switches(t)
  BY DEF Blank, LoadConfig
<1>3. CASE Crash
  <2>1. conf'[i] = Blank /\ \A c \in Cmds : task'[c] = IF Running(c) THEN [pc |-> "done"] ELSE task[c]
    BY <1>3 DEF Crash, Reset
  <2> QED
    BY <1>2, <2>1 DEF Running
<1>4. CASE Connect
  <2>1. conf' = [conf EXCEPT ![sess + 1] = LoadConfig(Loads)]
    BY <1>4 DEF Connect
  <2> QED
    BY <1>1, <1>2, <1>4, <2>1
<1>5. CASE EndSession
  <2>1. CASE \E c \in Cmds : Running(c) /\ task[c].cfg = sess
    BY <1>5, <2>1 DEF EndSession
  <2>2. CASE ~\E c \in Cmds : Running(c) /\ task[c].cfg = sess
    <3>1. conf' = [conf EXCEPT ![sess] = Blank]
      BY <1>5, <2>2 DEF EndSession
    <3> QED
      BY <1>1, <1>2, <2>2, <3>1
  <2> QED
    BY <2>1, <2>2
<1>6. ASSUME NEW c \in Cmds, NEW k \in Topic, StoreRaw(c, k)
      PROVE  conf'[i].sw = conf[i].sw
  <2> DEFINE r == conf[task[c].cfg]
             v == [r.topic EXCEPT ![k] = task[c].order.value]
  <2>1. conf' = [conf EXCEPT ![task[c].cfg] = [r EXCEPT !.topic = v]]
    BY <1>1, <1>6 DEF StoreRaw
  <2>2. task[c].cfg \in Sessions
    BY <1>6, GoroutineStep DEF CommandStep
  <2>3. r \in Configs
    BY <1>1, <2>2
  <2> HIDE DEF v
  <2>4. [r EXCEPT !.topic = v].sw = r.sw
    BY <2>3 DEF Configs
  <2> HIDE DEF r
  <2>5. conf'[i] = IF i = task[c].cfg THEN [r EXCEPT !.topic = v] ELSE conf[i]
    BY <1>1, <2>1
  <2> QED
    BY <2>4, <2>5 DEF r
<1>7. CASE UNCHANGED conf
  BY <1>7
<1> QED
  <2>1. CASE Start \/ AddressSaved \/ Break \/ TakeTrends \/ WriteTrend \/ InsertTrend
               \/ Tick \/ DailyReport \/ RoundStep \/ UNCHANGED vars
    BY <2>1 DEF Start, AddressSaved, Break, TakeTrends, WriteTrend, InsertTrend,
                Tick, DailyReport, RoundStep, Choose, EndRound, vars, agentVars
  <2>2. CASE \/ \E p \in Savers : Saving(p)
             \/ \E c \in Cmds : AfterSave(c) \/ EndModule(c) \/ ReadChat(c) \/ TGPushHTML(c) \/ QueueTrend(c)
             \/ \E c \in Cmds : \E o \in Menu[c] : Deliver(c, o)
    BY <2>2 DEF Saving, AfterSave, EndModule, ReadChat, TGPushHTML, QueueTrend, Deliver
  <2> QED
    BY <1>3, <1>4, <1>5, <1>6, <2>1, <2>2 DEF Next, ClientStep, CommandStep

Obeyed(r) == \A m \in r.on : r.asof[m] # "false"

\* The switches of a Config are the owner's as they were when it was loaded:
\* the table has each switch as the last toggle left it, and every Config is of
\* that table at some time.
Followed ==
  faults = 0 =>
    /\ \A m \in Modules : tableBar[Switch[m]] = wish[m]
    /\ Obeyed(sched)
    /\ \A i \in Sessions : Obeyed(conf[i].sw)
    /\ round.state # "free" => Obeyed(round)

\* What runs is on in its Config.
RoundOn == round.state \in Modules => round.state \in round.on
CommandsOn == \A c \in Cmds : Is(c, "module") => task[c].order.mod \in Config(c).sw.on

Obedient == Followed /\ RoundOn /\ CommandsOn

LEMMA RoundOnStep ==
  ASSUME Typed, RoundOn, [Next]_vars
  PROVE  RoundOn'
<1> USE DEF RoundOn
<1>1. Free.state \notin Modules /\ "sleep" \notin Modules
  BY DEF Free, Modules
<1>2. ASSUME NEW r, StartRound(r, "sleep")
      PROVE  round' = round \/ round'.state = "sleep"
  BY <1>2 DEF StartRound
<1>3. CASE Choose
  <2>1. round \in Rounds
    BY DEF Typed, TypeOK
  <2>2. ASSUME NEW m \in round.on, round' = [round EXCEPT !.state = m]
        PROVE  round'.state = m /\ round'.on = round.on
    <3>1. round \in [state : {"sleep"} \cup Modules, on : SUBSET Modules, asof : Wishes]
      BY <1>3, <2>1 DEF Choose, Rounds, Free
    <3> QED
      BY <2>2, <3>1
  <2> QED
    BY <1>1, <1>3, <2>2 DEF Choose
<1>4. CASE Crash \/ EndRound
  BY <1>1, <1>4 DEF Crash, Reset, EndRound
<1>5. CASE Tick
  BY <1>1, <1>2, <1>5 DEF Tick
<1>6. ASSUME NEW c \in Cmds, NEW o \in Menu[c], Deliver(c, o)
      PROVE  round' = round \/ round'.state = "sleep"
  BY <1>2, <1>6 DEF Deliver, DeliverSave, DeliverOther
<1>7. CASE Start \/ AddressSaved \/ Connect \/ Break \/ ClientStep \/ DailyReport \/ UNCHANGED vars
  BY <1>7 DEF Start, AddressSaved, Connect, Break, ClientStep, EndSession, TakeTrends, WriteTrend, InsertTrend,
              DailyReport, vars, agentVars
<1>8. CASE (\E p \in Savers : Saving(p)) \/ (\E c \in Cmds : CommandStep(c))
  BY <1>8 DEF Saving, CommandStep, AfterSave, EndModule, ReadChat, TGPushHTML, QueueTrend, StoreRaw
<1> QED
  BY <1>1, <1>3, <1>4, <1>5, <1>6, <1>7, <1>8 DEF Next, RoundStep

\* What can become of a goroutine.
LEMMA TaskStep ==
  ASSUME Typed, [Next]_vars, NEW c \in Cmds
  PROVE  \/ task'[c] = task[c]
         \/ task'[c] = [pc |-> "done"]
         \/ CommandStep(c)
         \/ \E o \in Menu[c] : Deliver(c, o)
<1>1. CASE Crash
  BY <1>1 DEF Crash, Reset
<1>2. CASE Start \/ AddressSaved \/ Elsewhere \/ UNCHANGED vars
  BY <1>2, ElsewhereFrame DEF Start, AddressSaved, vars, agentVars
<1>3. CASE \E p \in Savers : Saving(p)
  BY <1>3 DEF Saving
<1>4. ASSUME NEW d \in Cmds, CommandStep(d) \/ \E o \in Menu[d] : Deliver(d, o)
      PROVE  d = c \/ task'[c] = task[c]
  BY <1>4, GoroutineStep, BeginTyped
<1> QED
  BY <1>1, <1>2, <1>3, <1>4 DEF Next, Elsewhere

LEMMA CommandsOnStep ==
  ASSUME Typed, CommandsOn, [Next]_vars
  PROVE  CommandsOn'
<1> SUFFICES ASSUME NEW c \in Cmds, Is(c, "module")'
             PROVE  (task[c].order.mod \in Config(c).sw.on)'
  BY DEF CommandsOn
<1>1. CASE task'[c] = task[c]
  <2> DEFINE i == task[c].cfg
  <2>1. /\ task[c].pc = "module" /\ Running(c)
        /\ i \in Sessions /\ i # sess + 1
        /\ task[c].order.mod \in conf[i].sw.on
    <3>1. task[c].pc = "module" /\ Running(c)
      BY <1>1 DEF Is, Running
    <3>2. i \in Sessions
      BY <3>1, GoroutineFacts DEF Typed, TypeOK, Active
    <3>3. i <= sess /\ sess \in Nat
      BY <3>1, BoundFacts DEF Typed, TypeOK, Current
    <3>4. i \in Nat
      BY <3>2 DEF Sessions
    <3>5. i # sess + 1
      BY <3>3, <3>4
    <3> QED
      BY <3>1, <3>2, <3>5 DEF CommandsOn, Is, Config
  <2>2. conf'[i].sw = conf[i].sw
    BY <1>1, <2>1, SwitchesKept
  <2> QED
    BY <1>1, <2>1, <2>2 DEF Config
<1>2. CASE task'[c] = [pc |-> "done"]
  BY <1>2 DEF Is
<1>3. CASE CommandStep(c)
  <2>1. \/ task'[c] = [pc |-> "done"]
        \/ \E ks : Becomes(c, "map", ks) \/ Becomes(c, "thread", ks) \/ Becomes(c, "trend", ks) \/ Becomes(c, "queued", ks)
    BY <1>3, GoroutineStep, Zenon
  <2>2. \A pc, ks : Becomes(c, pc, ks) => task'[c].pc = pc
    BY DEF Becomes
  <2>3. [pc |-> "done"].pc = "done"
    OBVIOUS
  <2>4. task'[c].pc \in {"done", "map", "thread", "trend", "queued"}
    BY <2>1, <2>2, <2>3
  <2> QED
    BY <2>4 DEF Is
<1>4. ASSUME NEW o \in Menu[c], Deliver(c, o)
      PROVE  (task[c].order.mod \in Config(c).sw.on)'
  <2>0. \/ o.mod \in conf[sess].sw.on /\ task'[c] = [pc |-> "module", order |-> o, cfg |-> sess, todo |-> {}]
        \/ task'[c] = [pc |-> "save", order |-> o, cfg |-> sess, todo |-> {}]
        \/ task'[c] = [pc |-> "push", order |-> o, cfg |-> sess, todo |-> {}]
        \/ task'[c] = [pc |-> "done"]
    BY <1>4, BeginTyped, Zenon
  <2>1. o.mod \in conf[sess].sw.on /\ task'[c] = [pc |-> "module", order |-> o, cfg |-> sess, todo |-> {}]
    BY <2>0 DEF Is
  <2>2. UNCHANGED conf
    BY <1>4 DEF Deliver
  <2> QED
    BY <2>1, <2>2 DEF Config
<1> QED
  BY <1>1, <1>2, <1>3, <1>4, TaskStep

\* A Config of the table obeys the owner.
LEMMA LoadedObeys ==
  ASSUME ConfInv, ~LoadFails, \A m \in Modules : tableBar[Switch[m]] = wish[m]
  PROVE  Obeyed(Switches(Loads))
BY LoadsTable, AgentAssumption, ConfAssumption DEF Obeyed, Switches, Raw

LEMMA WishStep ==
  ASSUME Typed, [Next]_vars, faults' = faults, NEW m \in Modules, tableBar[Switch[m]] = wish[m]
  PROVE  tableBar'[Switch[m]] = wish'[m]
<1>0. Switch[m] \in Keys /\ Switch[m] \notin Topic /\ Switch[m] # "PUBLIC_IP"
  BY KeyFacts DEF Switch, Modules, Topic
<1>1. CASE UNCHANGED tableBar /\ \A p \in Savers : Saving(p) => saver'[p] # "saved"
  <2>1. UNCHANGED wish
    <3>1. CASE \E p \in Savers : Saving(p)
      BY <1>1, <3>1 DEF Saving
    <3>2. CASE ~\E p \in Savers : Saving(p)
      BY <3>2, ElsewhereFrame
      DEF Next, Crash, Reset, Start, AddressSaved, Elsewhere, Deliver, CommandStep, AfterSave, EndModule,
          ReadChat, TGPushHTML, QueueTrend, StoreRaw, vars, agentVars
    <3> QED
      BY <3>1, <3>2
  <2> QED
    BY <1>1, <2>1
<1>2. ASSUME NEW p \in Savers, Saving(p), saver'[p] = "saved", tableBar' = Overwrite(tableBar, upd[p])
      PROVE  tableBar'[Switch[m]] = wish'[m]
  <2>1. saver[p] # "idle"
    BY <1>2, SavingFrame
  <2>2. CASE p = Main
    <3>1. upd[p] = Only({"PUBLIC_IP"}, "ip") /\ UNCHANGED wish
      BY <1>2, <2>1, <2>2 DEF Typed, Callers, Address, Saving
    <3>2. {"PUBLIC_IP"} \in SUBSET Keys /\ "ip" \in Values
      BY AgentAssumption
    <3> QED
      BY <1>0, <1>2, <3>1, <3>2, OverwriteOnly
  <2>3. CASE p # Main
    <3>1. p \in Cmds
      BY <2>3, AgentAssumption
    <3>2. /\ task[p].pc = "save" /\ Saves(task[p].order) /\ upd[p] = Saved(task[p].order)
          /\ task[p].order \in Orders
      BY <2>1, <3>1, GoroutineFacts DEF Typed, TypeOK, Callers, Caller, Is, Active
    <3>3. CASE task[p].order.path = "toggle"
      <4>1. /\ task[p].order.mod \in Modules /\ task[p].order.value \in Values
            /\ {Switch[task[p].order.mod]} \in SUBSET Keys
        BY <3>2, <3>3, OrderFacts, KeyFacts, AgentAssumption
      <4>2. upd[p] = Only({Switch[task[p].order.mod]}, task[p].order.value)
        BY <3>2, <3>3 DEF Saved
      <4>3. wish' = [wish EXCEPT ![task[p].order.mod] = task[p].order.value]
        BY <1>2, <2>3, <3>3 DEF Saving
      <4>4. Switch[task[p].order.mod] = Switch[m] <=> task[p].order.mod = m
        BY <4>1 DEF Switch, Modules
      <4>5. wish'[m] = IF task[p].order.mod = m THEN task[p].order.value ELSE wish[m]
        BY <4>3 DEF Typed, TypeOK, Wishes
      <4>6. tableBar'[Switch[m]] = IF Switch[m] \in {Switch[task[p].order.mod]} THEN task[p].order.value
                                                                               ELSE tableBar[Switch[m]]
        BY <1>0, <1>2, <4>1, <4>2, OverwriteOnly
      <4> QED
        BY <4>4, <4>5, <4>6
    <3>4. CASE task[p].order.path # "toggle"
      <4>1. task[p].order.path = "set_topic"
        BY <3>2, <3>4 DEF Saves
      <4>2. upd[p] = Only(Topic, task[p].order.value) /\ task[p].order.value \in Values
        BY <3>2, <4>1, OrderFacts DEF Saved
      <4>3. UNCHANGED wish
        BY <1>2, <3>4 DEF Saving
      <4> QED
        BY <1>0, <1>2, <4>2, <4>3, OverwriteOnly, KeyFacts
    <3> QED
      BY <3>3, <3>4
  <2> QED
    BY <2>2, <2>3
<1> QED
  BY <1>1, <1>2, TableStep

LEMMA FollowedStep ==
  ASSUME Typed, Followed, [Next]_vars
  PROVE  Followed'
<1> SUFFICES ASSUME faults' = 0
             PROVE  /\ \A m \in Modules : tableBar'[Switch[m]] = wish'[m]
                    /\ Obeyed(sched')
                    /\ \A i \in Sessions : Obeyed(conf'[i].sw)
                    /\ round'.state # "free" => Obeyed(round')
  BY DEF Followed, Obeyed
<1>1. faults = 0
  BY FaultsGrow
<1>2. /\ \A m \in Modules : tableBar[Switch[m]] = wish[m]
      /\ Obeyed(sched)
      /\ \A i \in Sessions : Obeyed(conf[i].sw)
      /\ round.state # "free" => Obeyed(round)
  BY <1>1 DEF Followed
<1>3. Obeyed(None) /\ (~LoadFails => Obeyed(Switches(Loads))) /\ Obeyed(Reloaded)
  <2>1. Obeyed(None)
    BY DEF Obeyed, None
  <2>2. ~LoadFails => Obeyed(Switches(Loads))
    BY <1>2, LoadedObeys DEF Typed
  <2> QED
    BY <1>2, <2>1, <2>2 DEF Reloaded
<1>4. \A m \in Modules : tableBar'[Switch[m]] = wish'[m]
  BY <1>1, <1>2, WishStep
<1>5. Obeyed(sched')
  <2> HIDE DEF Obeyed
  <2>1. CASE Crash \/ Start \/ Tick \/ DailyReport
    BY <1>3, <2>1 DEF Crash, Reset, Start, Tick, DailyReport
  <2>2. CASE ~(Crash \/ Start \/ Tick \/ DailyReport)
    <3>1. UNCHANGED sched
      BY <2>2 DEF Next, AddressSaved, Connect, Break, ClientStep, EndSession, TakeTrends, WriteTrend, InsertTrend,
                  RoundStep, Choose, EndRound, Saving, Deliver, CommandStep, AfterSave, EndModule, ReadChat, TGPushHTML,
                  QueueTrend, StoreRaw, vars, agentVars
    <3> QED
      BY <1>2, <3>1
  <2> QED
    BY <2>1, <2>2
<1>6. ASSUME NEW i \in Sessions
      PROVE  Obeyed(conf'[i].sw)
  <2>1. Connect => ~LoadFails
    BY DEF Connect
  <2> QED
    BY <1>2, <1>3, <2>1, SwitchesKept
<1>7. round'.state # "free" => Obeyed(round')
  <2>1. ASSUME NEW r, Obeyed(r), StartRound(r, "sleep")
        PROVE  round'.state # "free" => Obeyed(round')
    <3>1. CASE round.state = "free"
      BY <2>1, <3>1 DEF StartRound, Obeyed
    <3>2. CASE round.state # "free"
      BY <1>2, <2>1, <3>2 DEF StartRound
    <3> QED
      BY <3>1, <3>2
  <2>2. CASE Crash \/ EndRound
    BY <2>2 DEF Crash, Reset, EndRound, Free
  <2>3. CASE Tick
    BY <1>3, <2>1, <2>3 DEF Tick
  <2>4. ASSUME NEW c \in Cmds, NEW o \in Menu[c], Deliver(c, o)
        PROVE  round'.state # "free" => Obeyed(round')
    <3>1. CASE UNCHANGED round
      BY <1>2, <3>1
    <3>2. CASE StartRound(conf[sess].sw, "sleep")
      BY <1>2, <2>1, <2>4, <3>2, BeginTyped
    <3> QED
      BY <2>4, <3>1, <3>2 DEF Deliver, DeliverSave, DeliverOther
  <2>5. CASE Choose
    <3>1. round \in [state : {"sleep"} \cup Modules, on : SUBSET Modules, asof : Wishes]
      BY <2>5 DEF Choose, Typed, TypeOK, Rounds, Free
    <3>2. ASSUME NEW m \in round.on, round' = [round EXCEPT !.state = m]
          PROVE  round'.on = round.on /\ round'.asof = round.asof
      BY <3>1, <3>2
    <3>3. Obeyed(round)
      BY <1>2, <2>5 DEF Choose
    <3> QED
      BY <2>5, <3>2, <3>3 DEF Choose, Obeyed, Free
  <2>6. CASE UNCHANGED round
    BY <1>2, <2>6
  <2>7. CASE Start \/ AddressSaved \/ Connect \/ Break \/ ClientStep \/ DailyReport \/ UNCHANGED vars
    BY <2>6, <2>7 DEF Start, AddressSaved, Connect, Break, ClientStep, EndSession, TakeTrends, WriteTrend, InsertTrend,
                      DailyReport, vars, agentVars
  <2>8. CASE (\E p \in Savers : Saving(p)) \/ (\E c \in Cmds : CommandStep(c))
    BY <2>6, <2>8 DEF Saving, CommandStep, AfterSave, EndModule, ReadChat, TGPushHTML, QueueTrend, StoreRaw
  <2> QED
    BY <2>2, <2>3, <2>4, <2>5, <2>7, <2>8 DEF Next, RoundStep
<1> QED
  BY <1>4, <1>5, <1>6, <1>7

LEMMA ObedientInductive == Spec => []Obedient
<1>1. Init => Obedient
  <2> SUFFICES ASSUME Init PROVE Obedient
    OBVIOUS
  <2>1. ~Torn
    BY DEF Init, ConfInit, Torn
  <2>2. Followed
    BY <2>1 DEF Init, ConfInit, Followed, Obeyed, None, Blank, Free, tableBar
  <2> QED
    BY <2>2 DEF Init, Obedient, RoundOn, CommandsOn, Free, Modules, Idle, Is
<1>2. Typed /\ Obedient /\ [Next]_vars => Obedient'
  BY FollowedStep, RoundOnStep, CommandsOnStep DEF Obedient
<1> QED
  BY <1>1, <1>2, TypedInductive, PTL DEF Spec

\* A module that the owner has switched off is not run with a Config loaded
\* after that, by a round or by a command, however the saves and the loads of
\* the file overlap, unless a fault has lost the switch.
\* (modules.go:34-52, scheduler.go:52-55, agent/config.go:73-74)
THEOREM SwitchesObeyed == Spec => []ObeysSwitch
<1>1. Typed /\ Obedient => ObeysSwitch
  <2> SUFFICES ASSUME Typed, Obedient, faults = 0
               PROVE  /\ round.state \in Modules => round.asof[round.state] # "false"
                      /\ \A c \in Cmds : Is(c, "module") => Config(c).sw.asof[task[c].order.mod] # "false"
    BY DEF ObeysSwitch
  <2>1. ASSUME round.state \in Modules
        PROVE  round.asof[round.state] # "false"
    BY <2>1 DEF Obedient, Followed, RoundOn, Obeyed, Modules
  <2>2. ASSUME NEW c \in Cmds, Is(c, "module")
        PROVE  Config(c).sw.asof[task[c].order.mod] # "false"
    <3>1. task[c].cfg \in Sessions
      BY <2>2, GoroutineFacts DEF Typed, TypeOK, Is, Active
    <3> QED
      BY <2>2, <3>1 DEF Obedient, Followed, CommandsOn, Obeyed, Config
  <2> QED
    BY <2>1, <2>2
<1> QED
  BY <1>1, TypedInductive, ObedientInductive, PTL

-----------------------------------------------------------------------------
(* Reports.                                                                *)

\* The commands a queue has reports of.
Mentions(s) == {s[i].of : i \in 1..Len(s)}

\* What happens to the reports in a queue.
LEMMA QueueFacts ==
  ASSUME NEW S, NEW s \in Seq(S), NEW t \in Seq(S), NEW r \in S
  PROVE  /\ s \o t \in Seq(S) /\ Len(s \o t) = Len(s) + Len(t)
         /\ Mentions(s \o t) = Mentions(s) \cup Mentions(t)
         /\ Append(s, r) \in Seq(S) /\ Len(Append(s, r)) = Len(s) + 1
         /\ Mentions(Append(s, r)) = Mentions(s) \cup {r.of}
         /\ s # <<>> => /\ Head(s) \in S /\ Tail(s) \in Seq(S) /\ Len(s) = Len(Tail(s)) + 1
                        /\ Mentions(s) = {Head(s).of} \cup Mentions(Tail(s))
         /\ <<>> \in Seq(S) /\ Len(<<>>) = 0 /\ Mentions(<<>>) = {}
         /\ Len(s) \in Nat
<1>0. Len(s) \in Nat /\ Len(t) \in Nat
  BY LenProperties
<1>1. /\ s \o t \in Seq(S) /\ Len(s \o t) = Len(s) + Len(t)
      /\ \A i \in 1..Len(s) + Len(t) : (s \o t)[i] = IF i <= Len(s) THEN s[i] ELSE t[i - Len(s)]
  BY ConcatProperties
<1>2. Mentions(s \o t) = Mentions(s) \cup Mentions(t)
  <2>1. ASSUME NEW i \in 1..Len(s) + Len(t)
        PROVE  (s \o t)[i].of \in Mentions(s) \cup Mentions(t)
    <3>1. CASE i <= Len(s)
      BY <1>0, <1>1, <3>1 DEF Mentions
    <3>2. CASE ~(i <= Len(s))
      <4>1. i - Len(s) \in 1..Len(t) /\ (s \o t)[i] = t[i - Len(s)]
        BY <1>0, <1>1, <3>2
      <4> QED
        BY <4>1 DEF Mentions
    <3> QED
      BY <3>1, <3>2
  <2>2. ASSUME NEW i \in 1..Len(s)
        PROVE  i \in 1..Len(s) + Len(t) /\ (s \o t)[i] = s[i]
    BY <1>0, <1>1
  <2>3. ASSUME NEW i \in 1..Len(t)
        PROVE  Len(s) + i \in 1..Len(s) + Len(t) /\ (s \o t)[Len(s) + i] = t[i]
    <3>1. Len(s) + i \in 1..Len(s) + Len(t) /\ ~(Len(s) + i <= Len(s)) /\ Len(s) + i - Len(s) = i
      BY <1>0
    <3> QED
      BY <1>1, <3>1
  <2> DEFINE u == s \o t
  <2>4. Len(u) = Len(s) + Len(t)
    BY <1>1
  <2>5. Mentions(u) \subseteq Mentions(s) \cup Mentions(t)
    <3> HIDE DEF u
    <3> QED
      BY <2>1, <2>4 DEF Mentions, u
  <2>6. Mentions(s) \subseteq Mentions(u)
    <3>1. \A i \in 1..Len(s) : i \in 1..Len(u) /\ u[i].of = s[i].of
      BY <2>2, <2>4
    <3> HIDE DEF u
    <3> QED
      BY <3>1 DEF Mentions
  <2>7. Mentions(t) \subseteq Mentions(u)
    <3>1. \A i \in 1..Len(t) : Len(s) + i \in 1..Len(u) /\ u[Len(s) + i].of = t[i].of
      BY <2>3, <2>4
    <3> HIDE DEF u
    <3> QED
      BY <3>1 DEF Mentions
  <2> QED
    BY <2>5, <2>6, <2>7
<1>3. /\ Append(s, r) \in Seq(S) /\ Len(Append(s, r)) = Len(s) + 1
      /\ \A i \in 1..Len(s) : Append(s, r)[i] = s[i]
      /\ Append(s, r)[Len(s) + 1] = r
  BY AppendProperties
<1>4. Mentions(Append(s, r)) = Mentions(s) \cup {r.of}
  <2>1. 1..Len(s) + 1 = 1..Len(s) \cup {Len(s) + 1}
    BY <1>0
  <2> QED
    BY <1>3, <2>1 DEF Mentions
<1>5. ASSUME s # <<>>
      PROVE  /\ Head(s) \in S /\ Tail(s) \in Seq(S) /\ Len(s) = Len(Tail(s)) + 1
             /\ Mentions(s) = {Head(s).of} \cup Mentions(Tail(s))
  <2>1. /\ Head(s) \in S /\ Tail(s) \in Seq(S) /\ Len(Tail(s)) = Len(s) - 1
        /\ \A i \in 1..Len(Tail(s)) : Tail(s)[i] = s[i + 1]
    BY <1>5, HeadTailProperties
  <2>2. Head(s) = s[1] /\ Len(s) >= 1
    BY <1>0, <1>5, EmptySeq
  <2>3. ASSUME NEW i \in 1..Len(s)
        PROVE  s[i].of \in {Head(s).of} \cup Mentions(Tail(s))
    <3>1. CASE i = 1
      BY <2>2, <3>1
    <3>2. CASE i # 1
      <4>1. i - 1 \in 1..Len(Tail(s)) /\ i - 1 + 1 = i
        BY <1>0, <2>1, <2>2, <3>2
      <4>2. Tail(s)[i - 1] = s[i]
        BY <2>1, <4>1
      <4> QED
        BY <4>1, <4>2 DEF Mentions
    <3> QED
      BY <3>1, <3>2
  <2>4. ASSUME NEW i \in 1..Len(Tail(s))
        PROVE  i + 1 \in 1..Len(s) /\ Tail(s)[i] = s[i + 1]
    BY <1>0, <2>1, <2>2
  <2>5. Head(s).of \in Mentions(s)
    BY <1>0, <2>2 DEF Mentions
  <2> QED
    BY <1>0, <2>1, <2>3, <2>4, <2>5 DEF Mentions
<1>6. <<>> \in Seq(S) /\ Len(<<>>) = 0 /\ Mentions(<<>>) = {}
  BY EmptySeq DEF Mentions
<1> QED
  BY <1>0, <1>1, <1>2, <1>3, <1>4, <1>5, <1>6

\* What a report says of a command.
Report(c) == [of |-> c, fields |-> Trend(Probed(task[c].order.pages, task[c].order.cc))]

Queued == {c \in Cmds : Is(c, "queued")}
Honest == {Report(c) : c \in Queued}

\* Every report is of a command that has queued it, and says what it found.
Sound == {queue, batch, wire, saved, lost} \subseteq Seq(Honest)

\* There are as many as there are commands that have queued one, and each of
\* these has one.
Total == Len(queue) + Len(batch) + Len(wire) + Len(saved) + Len(lost)
Mentioned == Mentions(queue) \cup Mentions(batch) \cup Mentions(wire) \cup Mentions(saved) \cup Mentions(lost)

Counted == Total = Cardinality(Queued) /\ Queued \subseteq Mentioned

\* A report is queued once.
LEMMA QueuedStep ==
  ASSUME Typed, [Next]_vars
  PROVE  /\ \A c \in Queued : task'[c] = task[c]
         /\ \/ Queued' = Queued /\ \A c \in Cmds : ~QueueTrend(c)
            \/ \E c \in Cmds : QueueTrend(c)
         /\ \A c \in Cmds : QueueTrend(c) => c \notin Queued /\ Queued' = Queued \cup {c} /\ Report(c)' = Report(c)
<1>1. ASSUME NEW c \in Queued
      PROVE  task'[c] = task[c]
  <2>1. c \in Cmds /\ task[c].pc = "queued" /\ ~Running(c)
    BY DEF Queued, Is, Running
  <2>2. ~CommandStep(c) /\ \A o \in Menu[c] : ~Deliver(c, o)
    BY <2>1 DEF CommandStep, AfterSave, EndModule, ReadChat, TGPushHTML, QueueTrend, StoreRaw, Deliver, Is
  <2>3. CASE Crash
    BY <2>1, <2>3 DEF Crash, Reset
  <2>4. CASE Start \/ AddressSaved \/ Elsewhere \/ UNCHANGED vars
    BY <2>4, ElsewhereFrame DEF Start, AddressSaved, vars, agentVars
  <2>5. CASE \E p \in Savers : Saving(p)
    BY <2>5 DEF Saving
  <2>6. ASSUME NEW d \in Cmds, CommandStep(d) \/ \E o \in Menu[d] : Deliver(d, o)
        PROVE  task'[c] = task[c]
    BY <2>1, <2>2, <2>6, GoroutineStep, BeginTyped
  <2> QED
    BY <2>3, <2>4, <2>5, <2>6 DEF Next, Elsewhere
<1>2. ASSUME NEW c \in Cmds, Is(c, "queued")', c \notin Queued
      PROVE  QueueTrend(c)
  <2>1. task[c].pc # "queued" /\ task'[c].pc = "queued"
    BY <1>2 DEF Queued, Is
  <2>2. ASSUME NEW o \in Menu[c], Deliver(c, o)
        PROVE  FALSE
    <3>1. \/ \E pc \in {"save", "module", "push"} : task'[c] = [pc |-> pc, order |-> o, cfg |-> sess, todo |-> {}]
          \/ task'[c] = [pc |-> "done"]
      BY <2>2, BeginTyped, Zenon
    <3> QED
      BY <2>1, <3>1
  <2>3. CASE CommandStep(c)
    <3>1. \/ task'[c] = [pc |-> "done"]
          \/ \E ks : Becomes(c, "map", ks) \/ Becomes(c, "thread", ks) \/ Becomes(c, "trend", ks)
          \/ QueueTrend(c)
      BY <2>3, GoroutineStep, Zenon
    <3>2. \A pc, ks : Becomes(c, pc, ks) => task'[c].pc = pc
      BY DEF Becomes
    <3>3. [pc |-> "done"].pc = "done"
      OBVIOUS
    <3> QED
      BY <2>1, <3>1, <3>2, <3>3
  <2>4. task'[c] # [pc |-> "done"]
    BY <2>1
  <2> QED
    BY <2>1, <2>2, <2>3, <2>4, TaskStep
<1>3. ASSUME NEW c \in Cmds, QueueTrend(c)
      PROVE  c \notin Queued /\ Queued' = Queued \cup {c} /\ Report(c)' = Report(c)
  <2>1. task[c].pc = "trend" /\ CommandStep(c)
    BY <1>3 DEF QueueTrend, Is, CommandStep
  <2>2. Becomes(c, "queued", task[c].todo) /\ \A d \in Cmds \ {c} : task'[d] = task[d]
    <3>1. task' = [task EXCEPT ![c].pc = "queued"]
      BY <1>3 DEF QueueTrend, Goto
    <3>2. task'[c] # [pc |-> "done"] /\ \A pc, ks : Becomes(c, pc, ks) => pc = "queued"
      <4>1. task'[c].pc = "queued"
        <5>1. task'[c] = [task[c] EXCEPT !.pc = "queued"]
          BY <3>1 DEF Typed, TypeOK
        <5>2. task[c] \in Goroutines /\ task[c].pc \in Active
          BY <2>1 DEF Typed, TypeOK, Active
        <5>3. "queued" \in Active /\ task[c].todo \in SUBSET Topic
          BY <5>2, GoroutineFacts DEF Active
        <5>4. task'[c] = [pc |-> "queued", order |-> task[c].order, cfg |-> task[c].cfg, todo |-> task[c].todo]
          BY <5>1, <5>2, <5>3, GotoTyped
        <5> QED
          BY <5>4
      <4> QED
        BY <4>1 DEF Becomes
    <3>3. "map" # "queued" /\ "trend" # "queued"
      OBVIOUS
    <3> QED
      BY <2>1, <3>2, <3>3, GoroutineStep, Zenon
  <2>3. task'[c].pc = "queued" /\ task'[c].order = task[c].order
    BY <2>2 DEF Becomes
  <2> QED
    BY <2>1, <2>2, <2>3 DEF Queued, Is, Report
<1> QED
  <2>1. CASE \E c \in Cmds : QueueTrend(c)
    BY <1>1, <1>3, <2>1
  <2>2. CASE ~\E c \in Cmds : QueueTrend(c)
    <3>1. Queued' = Queued
      BY <1>1, <1>2, <2>2 DEF Queued, Is
    <3> QED
      BY <1>1, <2>2, <3>1
  <2> QED
    BY <2>1, <2>2

LEMMA ConcatFacts ==
  ASSUME NEW S, NEW s \in Seq(S), NEW t \in Seq(S)
  PROVE  /\ s \o t \in Seq(S) /\ Len(s \o t) = Len(s) + Len(t)
         /\ Mentions(s \o t) = Mentions(s) \cup Mentions(t)
<1>1. Len(<<>>) = 0 /\ Mentions(<<>>) = {}
  BY EmptySeq DEF Mentions
<1>2. CASE t = <<>>
  BY <1>1, <1>2, ConcatEmptySeq, LenProperties
<1>3. CASE t # <<>>
  <2>1. Head(t) \in S
    BY <1>3, HeadTailProperties
  <2> QED
    BY <2>1, QueueFacts
<1> QED
  BY <1>2, <1>3

\* Reports move from queue to queue: none is made, dropped or doubled but by
\* QueueTrend.
LEMMA ReportsMove ==
  ASSUME [Next]_vars, NEW S, {queue, batch, wire, saved, lost} \subseteq Seq(S),
         \A c \in Cmds : QueueTrend(c) => Report(c) \in S
  PROVE  /\ {queue, batch, wire, saved, lost}' \subseteq Seq(S)
         /\ (Total' = Total /\ Mentioned' = Mentioned) \/ \E c \in Cmds : QueueTrend(c)
         /\ \A c \in Cmds : QueueTrend(c) => Total' = Total + 1 /\ Mentioned' = Mentioned \cup {c}
<1> DEFINE Kept == {queue, batch, wire, saved, lost}' \subseteq Seq(S) /\ Total' = Total /\ Mentioned' = Mentioned
<1> USE DEF Total, Mentioned
<1>0. /\ queue \in Seq(S) /\ batch \in Seq(S) /\ wire \in Seq(S) /\ saved \in Seq(S) /\ lost \in Seq(S)
      /\ Len(queue) \in Nat /\ Len(batch) \in Nat /\ Len(wire) \in Nat /\ Len(saved) \in Nat /\ Len(lost) \in Nat
  BY LenProperties
<1>00. /\ <<>> \in Seq(S) /\ Len(<<>>) = 0 /\ Mentions(<<>>) = {}
       /\ \A s, t \in Seq(S) : s \o t \in Seq(S) /\ Len(s \o t) = Len(s) + Len(t)
                                /\ Mentions(s \o t) = Mentions(s) \cup Mentions(t)
  <2>1. <<>> \in Seq(S) /\ Len(<<>>) = 0 /\ Mentions(<<>>) = {}
    BY EmptySeq DEF Mentions
  <2> QED
    BY <2>1, ConcatFacts
<1>1. ASSUME Crash
      PROVE  Kept
  <2>1. /\ queue' = <<>> /\ batch' = <<>> /\ wire' = <<>> /\ saved' = saved
        /\ lost' = lost \o queue \o batch \o wire
    BY <1>1 DEF Crash, Reset
  <2> DEFINE u == lost \o queue
             v == u \o batch
  <2>2. u \in Seq(S) /\ Len(u) = Len(lost) + Len(queue) /\ Mentions(u) = Mentions(lost) \cup Mentions(queue)
    BY <1>0, <1>00
  <2> HIDE DEF u
  <2>3. v \in Seq(S) /\ Len(v) = Len(u) + Len(batch) /\ Mentions(v) = Mentions(u) \cup Mentions(batch)
    BY <1>0, <1>00, <2>2
  <2>4. lost' = v \o wire
    BY <2>1 DEF u
  <2> HIDE DEF v
  <2>5. lost' \in Seq(S) /\ Len(lost') = Len(v) + Len(wire) /\ Mentions(lost') = Mentions(v) \cup Mentions(wire)
    BY <1>0, <1>00, <2>3, <2>4
  <2> QED
    BY <1>0, <1>00, <2>1, <2>2, <2>3, <2>5
<1>2. ASSUME Break
      PROVE  Kept
  <2>1. wire' = <<>> /\ lost' = lost \o wire /\ UNCHANGED <<queue, batch, saved>>
    BY <1>2 DEF Break
  <2> QED
    BY <1>0, <1>00, <2>1
<1>3. ASSUME TakeTrends
      PROVE  Kept
  <2>1. batch = <<>> /\ batch' = queue /\ queue' = <<>> /\ UNCHANGED <<wire, saved, lost>>
    BY <1>3 DEF TakeTrends
  <2> QED
    BY <1>0, <1>00, <2>1
<1>4. ASSUME NEW s \in Seq(S), s # <<>>, NEW t \in Seq(S)
      PROVE  /\ Tail(s) \in Seq(S) /\ Append(t, Head(s)) \in Seq(S)
             /\ Len(Tail(s)) + Len(Append(t, Head(s))) = Len(s) + Len(t)
             /\ Mentions(Tail(s)) \cup Mentions(Append(t, Head(s))) = Mentions(s) \cup Mentions(t)
             /\ {Len(Tail(s)), Len(Append(t, Head(s)))} \subseteq Nat
  <2>1. Head(s) \in S /\ Tail(s) \in Seq(S)
    BY <1>4, HeadTailProperties
  <2>2. /\ Len(s) = Len(Tail(s)) + 1 /\ Mentions(s) = {Head(s).of} \cup Mentions(Tail(s))
        /\ Append(t, Head(s)) \in Seq(S) /\ Len(Append(t, Head(s))) = Len(t) + 1
        /\ Mentions(Append(t, Head(s))) = Mentions(t) \cup {Head(s).of}
        /\ Len(t) \in Nat
    BY <1>4, <2>1, QueueFacts
  <2>3. Len(Tail(s)) \in Nat
    BY <2>1, LenProperties
  <2> QED
    BY <2>1, <2>2, <2>3
<1>5. ASSUME WriteTrend
      PROVE  Kept
  <2>1. CASE net = "up"
    <3>1. batch # <<>> /\ batch' = Tail(batch) /\ wire' = Append(wire, Head(batch)) /\ UNCHANGED <<queue, saved, lost>>
      BY <1>5, <2>1 DEF WriteTrend
    <3> QED
      BY <1>0, <1>4, <3>1
  <2>2. CASE net # "up"
    <3>1. batch # <<>> /\ batch' = Tail(batch) /\ lost' = Append(lost, Head(batch)) /\ UNCHANGED <<queue, saved, wire>>
      BY <1>5, <2>2 DEF WriteTrend
    <3> QED
      BY <1>0, <1>4, <3>1
  <2> QED
    BY <2>1, <2>2
<1>6. ASSUME InsertTrend
      PROVE  Kept
  <2>1. wire # <<>> /\ wire' = Tail(wire) /\ saved' = Append(saved, Head(wire)) /\ UNCHANGED <<queue, batch, lost>>
    BY <1>6 DEF InsertTrend
  <2> QED
    BY <1>0, <1>4, <2>1
<1>7. ASSUME NEW c \in Cmds, QueueTrend(c)
      PROVE  /\ {queue, batch, wire, saved, lost}' \subseteq Seq(S)
             /\ Total' = Total + 1 /\ Mentioned' = Mentioned \cup {c}
  <2>1. queue' = Append(queue, Report(c)) /\ UNCHANGED <<batch, wire, saved, lost>>
    BY <1>7 DEF QueueTrend, Report
  <2>2. Report(c) \in S /\ Report(c).of = c
    BY <1>7 DEF Report
  <2>3. /\ queue' \in Seq(S) /\ Len(queue') = Len(queue) + 1
        /\ Mentions(queue') = Mentions(queue) \cup {c}
    BY <1>0, <2>1, <2>2, QueueFacts
  <2> QED
    BY <1>0, <2>1, <2>3
<1>8. ASSUME UNCHANGED trendVars
      PROVE  Kept
  BY <1>0, <1>8 DEF trendVars
<1> HIDE DEF Kept
<1>9. Kept \/ \E c \in Cmds : QueueTrend(c)
  <2>1. CASE Start \/ AddressSaved \/ Connect \/ EndSession \/ Tick \/ DailyReport \/ RoundStep \/ UNCHANGED vars
    BY <1>8, <2>1 DEF Start, AddressSaved, Connect, EndSession, Tick, DailyReport, RoundStep, Choose, EndRound,
                      vars, agentVars, trendVars
  <2>2. CASE \/ \E p \in Savers : Saving(p)
             \/ \E c \in Cmds : \/ AfterSave(c) \/ EndModule(c) \/ ReadChat(c) \/ TGPushHTML(c) \/ \E k \in Topic : StoreRaw(c, k)
                               \/ \E o \in Menu[c] : Deliver(c, o)
    BY <1>8, <2>2 DEF Saving, AfterSave, EndModule, ReadChat, TGPushHTML, StoreRaw, Deliver
  <2> QED
    BY <1>1, <1>2, <1>3, <1>5, <1>6, <2>1, <2>2 DEF Next, ClientStep, CommandStep
<1> HIDE DEF Total, Mentioned
<1> QED
  BY <1>7, <1>9 DEF Kept

LEMMA SoundStep ==
  ASSUME Typed, Sound, [Next]_vars
  PROVE  Sound'
<1> DEFINE S == Honest'
<1>1. Queued \subseteq Queued'
  BY QueuedStep
<1>2. \A c \in Queued : Report(c)' = Report(c)
  BY QueuedStep DEF Report
<1>3. Honest \subseteq S
  BY <1>1, <1>2 DEF Honest
<1>4. \A c \in Cmds : QueueTrend(c) => Report(c) \in S
  <2>1. ASSUME NEW c \in Cmds, QueueTrend(c)
        PROVE  c \in Queued' /\ Report(c)' = Report(c)
    BY <2>1, QueuedStep
  <2> QED
    BY <2>1 DEF Honest
<1> HIDE DEF S
<1>5. {queue, batch, wire, saved, lost} \subseteq Seq(S)
  BY <1>3, SeqMonotonic DEF Sound
<1>6. {queue, batch, wire, saved, lost}' \subseteq Seq(S)
  BY <1>4, <1>5, ReportsMove
<1> QED
  BY <1>6 DEF Sound, S

LEMMA CountedStep ==
  ASSUME Typed, Counted, [Next]_vars
  PROVE  Counted'
<1>1. {queue, batch, wire, saved, lost} \subseteq Seq(Trends)
  BY DEF Typed, TypeOK
<1>2. ASSUME NEW c \in Cmds, QueueTrend(c)
      PROVE  Report(c) \in Trends
  <2>1. task[c].pc = "trend" /\ task[c].order.path = "quality" /\ task[c].order \in Orders
    BY <1>2, GoroutineFacts DEF QueueTrend, Is, Typed, TypeOK, Callers, Caller, Active
  <2> QED
    BY <2>1, FieldTyped DEF Report, Trends
<1>3. IsFiniteSet(Queued)
  BY AgentAssumption, FS_Subset DEF Queued
<1>4. CASE \E c \in Cmds : QueueTrend(c)
  <2>1. PICK c \in Cmds : QueueTrend(c)
    BY <1>4
  <2>2. Total' = Total + 1 /\ Mentioned' = Mentioned \cup {c}
    BY <1>1, <1>2, <2>1, ReportsMove
  <2>3. c \notin Queued /\ Queued' = Queued \cup {c}
    BY <2>1, QueuedStep
  <2>4. Cardinality(Queued') = Cardinality(Queued) + 1
    BY <1>3, <2>3, FS_AddElement
  <2> QED
    BY <2>2, <2>3, <2>4 DEF Counted
<1>5. CASE ~\E c \in Cmds : QueueTrend(c)
  <2>1. Queued' = Queued
    BY <1>5, QueuedStep
  <2>2. Total' = Total /\ Mentioned' = Mentioned
    BY <1>1, <1>2, <1>5, ReportsMove
  <2> QED
    BY <2>1, <2>2 DEF Counted
<1> QED
  BY <1>4, <1>5

LEMMA ReportsInductive == Spec => [](Sound /\ Counted)
<1>1. Init => Sound /\ Counted
  <2> SUFFICES ASSUME Init PROVE Sound /\ Counted
    OBVIOUS
  <2>1. Queued = {}
    BY DEF Init, Idle, Queued, Is
  <2>2. Sound
    BY EmptySeq DEF Init, Sound
  <2>3. Total = 0
    BY EmptySeq DEF Init, Total
  <2> QED
    BY <2>1, <2>2, <2>3, FS_EmptySet DEF Counted
<1>2. Typed /\ Sound /\ Counted /\ [Next]_vars => (Sound /\ Counted)'
  BY SoundStep, CountedStep
<1> QED
  BY <1>1, <1>2, TypedInductive, PTL DEF Spec

\* All reports, put together.
LEMMA ReportsFacts ==
  ASSUME NEW S, {queue, batch, wire, saved, lost} \subseteq Seq(S)
  PROVE  Reports \in Seq(S) /\ Len(Reports) = Total /\ Mentions(Reports) = Mentioned
<1>1. ASSUME NEW s \in Seq(S), NEW t \in Seq(S)
      PROVE  s \o t \in Seq(S) /\ Len(s \o t) = Len(s) + Len(t) /\ Mentions(s \o t) = Mentions(s) \cup Mentions(t)
  BY ConcatFacts
<1> DEFINE u == queue \o batch
           v == u \o wire
           w == v \o saved
<1>2. u \in Seq(S) /\ Len(u) = Len(queue) + Len(batch) /\ Mentions(u) = Mentions(queue) \cup Mentions(batch)
  BY <1>1
<1> HIDE DEF u
<1>3. v \in Seq(S) /\ Len(v) = Len(u) + Len(wire) /\ Mentions(v) = Mentions(u) \cup Mentions(wire)
  BY <1>1, <1>2
<1> HIDE DEF v
<1>4. w \in Seq(S) /\ Len(w) = Len(v) + Len(saved) /\ Mentions(w) = Mentions(v) \cup Mentions(saved)
  BY <1>1, <1>3
<1>5. Reports = w \o lost
  BY DEF Reports, u, v
<1> HIDE DEF w
<1>6. Reports \in Seq(S) /\ Len(Reports) = Len(w) + Len(lost) /\ Mentions(Reports) = Mentions(w) \cup Mentions(lost)
  BY <1>1, <1>4, <1>5
<1>7. /\ Len(queue) \in Nat /\ Len(batch) \in Nat /\ Len(wire) \in Nat /\ Len(saved) \in Nat /\ Len(lost) \in Nat
  BY LenProperties
<1> QED
  BY <1>2, <1>3, <1>4, <1>6, <1>7 DEF Total, Mentioned

\* What a field says of a page.
LEMMA FieldsHonest ==
  ASSUME NEW o \in Orders, o.path = "quality"
  PROVE  LET f == Trend(Probed(o.pages, o.cc))
         IN /\ f.goog = "N/A" <=> o.pages.yt.body = ""
            /\ f.play = "N/A" <=> o.pages.play.body = ""
            /\ f.gemini = "N/A" <=> o.pages.gemini.body = ""
<1>1. /\ o.cc \in Codes
      /\ o.pages.yt \in YouTubePages
      /\ o.pages.play \in RegionPages
      /\ o.pages.gemini \in RegionPages
  BY OrderFacts DEF Pages
<1>2. TrendField(OrCountry(probeYouTubePremium(o.pages.yt), o.cc)) = "N/A" <=> o.pages.yt.body = ""
  BY <1>1, PageFacts, UnlockAssumption DEF TrendField, OrCountry, probeYouTubePremium, Media
<1>3. TrendField(OrCountry(probeGooglePlay(o.pages.play), o.cc)) = "N/A" <=> o.pages.play.body = ""
  BY <1>1, PageFacts, UnlockAssumption DEF TrendField, OrCountry, probeGooglePlay, Media
<1>4. TrendField(probeGemini(o.pages.gemini)) = "N/A" <=> o.pages.gemini.body = ""
  BY <1>1, PageFacts, UnlockAssumption DEF TrendField, probeGemini, Media
<1> QED
  BY <1>2, <1>3, <1>4 DEF Trend, Probed

\* A report of RunQuality is in one queue, on the wire, in the Master's table or
\* gone with a connection or the process, once, for any number of reconnects
\* and crashes.  (wsclient.go:41-45, 250-261)
THEOREM TrendsCountedOnce == Spec => []TrendsOnce
<1>1. Typed /\ Sound /\ Counted => TrendsOnce
  <2> SUFFICES ASSUME Typed, Counted PROVE TrendsOnce
    OBVIOUS
  <2>1. {queue, batch, wire, saved, lost} \subseteq Seq(Trends)
    BY DEF Typed, TypeOK
  <2>2. Len(Reports) = Total /\ Mentions(Reports) = Mentioned
    BY <2>1, ReportsFacts
  <2> QED
    BY <2>2 DEF Counted, TrendsOnce, Mentions, Queued
<1> QED
  BY <1>1, TypedInductive, ReportsInductive, PTL

\* What the Master's table gets of a service is N/A exactly if its page was not
\* fetched, whatever the pages and the country of the address were.
\* (unlock.go:253-258, modules.go:106-111)
THEOREM TrendsHonest == Spec => []TrendHonest
<1>1. Typed /\ Sound /\ Counted => TrendHonest
  <2> SUFFICES ASSUME Typed, Sound, NEW i \in 1..Len(Reports)
               PROVE  LET pages == task[Reports[i].of].order.pages
                      IN /\ Reports[i].fields.goog = "N/A" <=> pages.yt.body = ""
                         /\ Reports[i].fields.play = "N/A" <=> pages.play.body = ""
                         /\ Reports[i].fields.gemini = "N/A" <=> pages.gemini.body = ""
    BY DEF TrendHonest
  <2>1. Reports \in Seq(Honest)
    BY ReportsFacts DEF Sound
  <2>2. Reports[i] \in Honest
    BY <2>1, ElementOfSeq
  <2>3. PICK c \in Queued : Reports[i] = Report(c)
    BY <2>2 DEF Honest
  <2>4. Reports[i].of = c /\ Reports[i].fields = Trend(Probed(task[c].order.pages, task[c].order.cc))
    BY <2>3 DEF Report
  <2>5. task[c].order \in Orders /\ task[c].order.path = "quality"
    BY GoroutineFacts DEF Queued, Is, Typed, TypeOK, Callers, Caller, Active
  <2> QED
    BY <2>4, <2>5, FieldsHonest
<1> QED
  BY <1>1, TypedInductive, ReportsInductive, PTL

-----------------------------------------------------------------------------
(* The topic.                                                              *)

\* In a session in which no two set_topic overlapped, there is one at a time.
OneSetter ==
  \A i \in Sessions \ mixed : \A c, d \in Cmds :
    Setting(c) /\ Setting(d) /\ task[c].cfg = i /\ task[d].cfg = i => c = d

\* Its Config has a whole topic, but for what a set_topic has still to do.
WholeConfigs ==
  \A i \in Sessions \ mixed : ~HalfStored(i) => Whole(conf[i].topic)

HalfDone ==
  \A c \in Cmds : Is(c, "map") /\ task[c].cfg \notin mixed =>
    \A k \in Topic \ task[c].todo : Config(c).topic[k] = task[c].order.value

\* There is such a session now.
Live == net # "down" /\ sess \notin mixed

\* What is not saved yet is its own, what is saved is in the table, and with
\* nothing in between its Config and the table agree.
OwnSaves == Live => \A c \in Cmds : Unsaved(c) => task[c].cfg = sess

InTable ==
  Live /\ faults = 0 =>
    \A c \in Cmds : Setting(c) /\ ~Unsaved(c) /\ task[c].cfg = sess =>
      \A k \in Topic : Raw(tableBar, k) = task[c].order.value

AtRest ==
  Live /\ faults = 0 /\ (\A c \in Cmds : Setting(c) /\ task[c].cfg = sess => Unsaved(c)) =>
    \A k \in Topic : conf[sess].topic[k] = Raw(tableBar, k)

WholeFile == Whole(file) /\ Whole(lines)

TopicInv == WholeFile /\ OneSetter /\ WholeConfigs /\ HalfDone /\ OwnSaves /\ InTable /\ AtRest

\* A set_topic at work, or not, as before.
SameSetting(c) ==
  /\ Setting(c)' <=> Setting(c)
  /\ Unsaved(c)' <=> Unsaved(c)
  /\ Is(c, "map")' <=> Is(c, "map")
  /\ Setting(c) => /\ task'[c].cfg = task[c].cfg
                   /\ task'[c].order = task[c].order
                   /\ task'[c].todo = task[c].todo

LEMMA SettingFacts ==
  ASSUME Typed, NEW c \in Cmds
  PROVE  /\ Is(c, "map") => Setting(c)
         /\ Unsaved(c) => Setting(c)
         /\ Setting(c) => /\ task[c].cfg \in 1..sess /\ task[c].cfg \in Sessions /\ sess \in Nat
                          /\ task[c].order.value \in Values
                          /\ task[c].todo \subseteq Topic
<1>1. Is(c, "map") => Setting(c)
  BY DEF Typed, Callers, Caller, Is, Setting
<1>2. Unsaved(c) => Setting(c)
  BY DEF Unsaved
<1>3. ASSUME Setting(c)
      PROVE  /\ task[c].cfg \in 1..sess /\ task[c].cfg \in Sessions /\ sess \in Nat
             /\ task[c].order.value \in Values
             /\ task[c].todo \subseteq Topic
  <2>1. /\ task[c].pc \in Active /\ Running(c) /\ task[c].order.path = "set_topic"
        /\ task[c] \in Goroutines
    BY <1>3 DEF Setting, Active, Running, Typed, TypeOK
  <2>2. task[c].order \in Orders /\ task[c].cfg \in Sessions /\ task[c].todo \subseteq Topic
    BY <2>1, GoroutineFacts
  <2>3. task[c].cfg <= sess /\ sess \in Nat
    BY <2>1, BoundFacts DEF Typed, TypeOK, Current
  <2> QED
    BY <2>1, <2>2, <2>3, OrderFacts DEF Sessions
<1> QED
  BY <1>1, <1>2, <1>3

LEMMA SameTask ==
  ASSUME NEW c \in Cmds, task'[c] = task[c], saver'[c] = "saved" <=> saver[c] = "saved"
  PROVE  SameSetting(c)
BY DEF SameSetting, Setting, Unsaved, Is

\* A goroutine that is not a set_topic's, before and after.
LEMMA NotSetting ==
  ASSUME NEW c \in Cmds, ~Setting(c), ~Setting(c)', ~Is(c, "map"), ~Is(c, "map")'
  PROVE  SameSetting(c)
BY DEF SameSetting, Unsaved

\* What set_topic have stored by halves depends on nothing else.
LEMMA HalfFrame ==
  ASSUME Typed, \A c \in Cmds : SameSetting(c), NEW i
  PROVE  HalfStored(i)' <=> HalfStored(i)
BY SettingFacts DEF HalfStored, SameSetting

\* ... but for one, which has not and does not.
LEMMA HalfSame ==
  ASSUME Typed, NEW c \in Cmds, \A d \in Cmds \ {c} : SameSetting(d), NEW i,
         Is(c, "map") => task[c].todo = Topic, Is(c, "map")' => task'[c].todo = Topic
  PROVE  HalfStored(i)' <=> HalfStored(i)
BY SettingFacts DEF HalfStored, SameSetting

LEMMA TopicFrame ==
  ASSUME Typed, TopicInv,
         \A c \in Cmds : SameSetting(c),
         UNCHANGED <<conf, sess, mixed>>,
         net' # "down" => net # "down",
         faults' = 0 => faults = 0 /\ \A k \in Topic : Raw(tableBar', k) = Raw(tableBar, k),
         WholeFile'
  PROVE  TopicInv'
<1>1. OneSetter'
  BY DEF TopicInv, OneSetter, SameSetting
<1>2. WholeConfigs'
  BY HalfFrame DEF TopicInv, WholeConfigs
<1>3. HalfDone'
  BY SettingFacts DEF TopicInv, HalfDone, SameSetting, Config
<1>4. Live' => Live
  BY DEF Live
<1>5. OwnSaves'
  BY <1>4, SettingFacts DEF TopicInv, OwnSaves, SameSetting
<1>6. InTable'
  BY <1>4 DEF TopicInv, InTable, SameSetting
<1>7. AtRest'
  BY <1>4 DEF TopicInv, AtRest, SameSetting
<1> QED
  BY <1>1, <1>2, <1>3, <1>5, <1>6, <1>7 DEF TopicInv

\* The file always has a whole topic, and so has what the holder of its lock
\* has read.
LEMMA WholeOverwrite ==
  ASSUME NEW t, Whole(t), NEW ks \in SUBSET Keys, Topic \subseteq ks \/ Topic \cap ks = {}, NEW v \in Values
  PROVE  Whole(Overwrite(t, Only(ks, v)))
BY OverwriteOnly, KeyFacts DEF Whole

LEMMA RawOverwrite ==
  ASSUME NEW t, NEW ks \in SUBSET Keys, NEW v \in Values, NEW k \in Keys
  PROVE  Raw(Overwrite(t, Only(ks, v)), k) = IF k \in ks THEN v ELSE Raw(t, k)
<1>1. Overwrite(t, Only(ks, v))[k] = IF k \in ks THEN v ELSE t[k]
  BY OverwriteOnly
<1> QED
  BY <1>1, ConfAssumption DEF Raw

LEMMA SaveWhole ==
  ASSUME Typed, NEW p \in Savers, saver[p] # "idle", NEW t, Whole(t)
  PROVE  Whole(Overwrite(t, upd[p]))
<1>0. Topic \subseteq Keys /\ \A m \in Modules : Switch[m] \in Keys /\ Switch[m] \notin Topic
  BY KeyFacts DEF Switch, Modules, Topic
<1>1. CASE p = Main
  <2>1. upd[p] = Only({"PUBLIC_IP"}, "ip")
    BY <1>1 DEF Typed, Callers, Address
  <2>2. {"PUBLIC_IP"} \in SUBSET Keys /\ "ip" \in Values /\ Topic \cap {"PUBLIC_IP"} = {}
    BY AgentAssumption DEF Topic
  <2> QED
    BY <2>1, <2>2, WholeOverwrite
<1>2. CASE p # Main
  <2>1. /\ p \in Cmds
        /\ task[p].pc = "save" /\ Saves(task[p].order) /\ upd[p] = Saved(task[p].order)
        /\ task[p].order \in Orders
    BY <1>2, AgentAssumption, GoroutineFacts DEF Typed, TypeOK, Callers, Caller, Is, Active
  <2>2. CASE task[p].order.path = "toggle"
    <3>1. task[p].order.mod \in Modules /\ task[p].order.value \in Values
      BY <2>1, <2>2, OrderFacts, AgentAssumption
    <3>2. upd[p] = Only({Switch[task[p].order.mod]}, task[p].order.value)
      BY <2>1, <2>2 DEF Saved
    <3>3. {Switch[task[p].order.mod]} \in SUBSET Keys /\ Topic \cap {Switch[task[p].order.mod]} = {}
      BY <1>0, <3>1
    <3> QED
      BY <3>1, <3>2, <3>3, WholeOverwrite
  <2>3. CASE task[p].order.path # "toggle"
    <3>1. task[p].order.path = "set_topic"
      BY <2>1, <2>3 DEF Saves
    <3>2. upd[p] = Only(Topic, task[p].order.value) /\ task[p].order.value \in Values
      BY <2>1, <3>1, OrderFacts DEF Saved
    <3> QED
      BY <1>0, <3>2, WholeOverwrite
  <2> QED
    BY <2>2, <2>3
<1> QED
  BY <1>1, <1>2

LEMMA WholeFileStep ==
  ASSUME Typed, WholeFile, [Next]_vars
  PROVE  WholeFile'
<1>0. Whole(Empty) /\ Whole(file) /\ Whole(lines)
  BY KeyFacts DEF Whole, Empty, WholeFile
<1>1. ASSUME NEW p \in Savers, Saving(p)
      PROVE  Whole(file') /\ Whole(lines')
  <2>1. CASE WriteBody(p)
    <3>1. saver[p] # "idle"
      BY <1>1, SavingFrame
    <3> QED
      BY <1>0, <2>1, <3>1, SaveWhole DEF WriteBody
  <2>2. CASE ReadFile(p) \/ ReadFails(p) \/ Truncate(p) \/ OpenFails(p) \/ WriteFails(p)
    <3>1. file' \in {file, Empty} /\ lines' \in {file, lines, Empty}
      BY <2>2 DEF ReadFile, ReadFails, Truncate, OpenFails, WriteFails
    <3> QED
      BY <1>0, <3>1
  <2> QED
    BY <1>1, <2>1, <2>2 DEF Saving, SaveStep
<1>2. ASSUME \/ \E p \in Savers : Return(p) \/ \E u \in Updates : Call(p, u)
             \/ Die
             \/ UNCHANGED confVars
      PROVE  Whole(file') /\ Whole(lines')
  <2>1. file' = file /\ lines' \in {lines, Empty}
    BY <1>2 DEF Return, Call, Die, confVars
  <2> QED
    BY <1>0, <2>1
<1>3. Whole(file') /\ Whole(lines')
  BY <1>1, <1>2, FileSteps DEF FileStep
<1> QED
  BY <1>3 DEF WholeFile, Whole

LEMMA BlankWhole == Whole(Blank.topic)
BY DEF Blank, Whole

LEMMA TopicCrash ==
  ASSUME Typed, TopicInv, WholeFile', Crash
  PROVE  TopicInv'
<1>1. /\ net' = "down" /\ mixed' = {} /\ \A i \in Sessions : conf'[i] = Blank
      /\ \A c \in Cmds : task'[c] = IF Running(c) THEN [pc |-> "done"] ELSE task[c]
  BY DEF Crash, Reset
<1>2. \A c \in Cmds : ~Setting(c)' /\ ~Is(c, "map")'
  BY <1>1 DEF Setting, Is, Running
<1>3. ~Live'
  BY <1>1 DEF Live
<1> QED
  BY <1>1, <1>2, <1>3, BlankWhole
  DEF TopicInv, OneSetter, WholeConfigs, HalfDone, OwnSaves, InTable, AtRest

LEMMA TopicConnect ==
  ASSUME Typed, TopicInv, WholeFile', Connect
  PROVE  TopicInv'
<1> DEFINE i == sess + 1
<1>1. /\ sess' = i /\ i \in Sessions /\ ~LoadFails /\ sess \in Nat
      /\ UNCHANGED <<task, saver, faults, file>> /\ tableBar' = tableBar
      /\ conf' = [conf EXCEPT ![i] = LoadConfig(Loads)] /\ conf \in [Sessions -> Configs]
      /\ mixed' = IF \E c \in Cmds : Unsaved(c) THEN mixed \cup {i} ELSE mixed
  BY BoundFacts DEF Connect, confVars, tableBar, Torn, Typed, TypeOK, Sessions
<1>2. /\ conf'[i] = LoadConfig(Loads)
      /\ \A j \in Sessions \ {i} : conf'[j] = conf[j]
  BY <1>1
<1>3. \A j \in Sessions \ mixed' : j \notin mixed
  BY <1>1
<1>4. ASSUME NEW c \in Cmds, Setting(c)
      PROVE  task[c].cfg # i /\ task[c].cfg \in Sessions
  <2>1. task[c].cfg \in 1..sess /\ task[c].cfg \in Sessions
    BY <1>4, SettingFacts
  <2> QED
    BY <1>1, <2>1
<1>5. \A c \in Cmds : /\ Setting(c)' <=> Setting(c)
                      /\ Unsaved(c)' <=> Unsaved(c)
                      /\ Is(c, "map")' <=> Is(c, "map")
  BY <1>1 DEF Setting, Unsaved, Is
<1>6. \A k \in Topic : conf'[i].topic[k] = Raw(tableBar', k)
  BY <1>1, <1>2, LoadsTable DEF LoadConfig, Typed
<1>60. \A j, k \in Topic : Raw(Loads, j) = Raw(Loads, k)
  BY DEF Whole, Loads, TopicInv, WholeFile, Raw
<1>61. \A k \in Topic : conf'[i].topic[k] = Raw(Loads, k)
  BY <1>1, <1>2 DEF LoadConfig
<1>7. Whole(conf'[i].topic)
  BY <1>60, <1>61 DEF Whole
<1> HIDE DEF i
<1>8. OneSetter'
  BY <1>1, <1>3, <1>5 DEF TopicInv, OneSetter
<1>9. WholeConfigs'
  <2>1. \A j : HalfStored(j)' <=> HalfStored(j)
    BY <1>1 DEF HalfStored, Is
  <2> QED
    BY <1>1, <1>2, <1>3, <1>7, <2>1 DEF TopicInv, WholeConfigs
<1>10. HalfDone'
  <2> SUFFICES ASSUME NEW c \in Cmds, Is(c, "map"), task[c].cfg \notin mixed', NEW k \in Topic \ task[c].todo
               PROVE  conf'[task[c].cfg].topic[k] = task[c].order.value
    BY <1>1, <1>5 DEF HalfDone, Config
  <2>1. Setting(c) /\ task[c].cfg # i /\ task[c].cfg \in Sessions /\ task[c].cfg \notin mixed
    BY <1>3, <1>4, SettingFacts
  <2> QED
    BY <1>2, <2>1 DEF TopicInv, HalfDone, Config
<1>11. Live' => \A c \in Cmds : ~Unsaved(c)
  BY <1>1 DEF Live
<1>12. OwnSaves'
  BY <1>5, <1>11 DEF OwnSaves
<1>13. InTable'
  BY <1>1, <1>4, <1>5 DEF InTable
<1>14. AtRest'
  BY <1>1, <1>6 DEF AtRest
<1> QED
  BY <1>8, <1>9, <1>10, <1>12, <1>13, <1>14 DEF TopicInv

LEMMA TopicEndSession ==
  ASSUME Typed, TopicInv, WholeFile', EndSession
  PROVE  TopicInv'
<1>1. /\ net' = "down" /\ UNCHANGED <<sess, task, saver, mixed>> /\ conf \in [Sessions -> Configs]
  BY DEF EndSession, confVars, Typed, TypeOK
<1>2. ~Live'
  BY <1>1 DEF Live
<1>3. \A j \in Sessions :
        conf'[j] = conf[j] \/ (conf'[j] = Blank /\ \A c \in Cmds : Running(c) => task[c].cfg # j)
  BY <1>1 DEF EndSession
<1>4. \A c \in Cmds : /\ Setting(c)' <=> Setting(c)
                      /\ Is(c, "map")' <=> Is(c, "map")
                      /\ Is(c, "map") => Setting(c) /\ Running(c) /\ task[c].cfg \in Sessions
  <2>1. \A c \in Cmds : Is(c, "map") => Running(c)
    BY DEF Is, Running
  <2> QED
    BY <1>1, <2>1, SettingFacts DEF Setting, Is
<1>5. OneSetter'
  BY <1>1, <1>4 DEF TopicInv, OneSetter
<1>6. WholeConfigs'
  <2>1. \A j : HalfStored(j)' <=> HalfStored(j)
    BY <1>1 DEF HalfStored, Is
  <2> QED
    BY <1>1, <1>3, <2>1, BlankWhole DEF TopicInv, WholeConfigs
<1>7. HalfDone'
  BY <1>1, <1>3, <1>4 DEF TopicInv, HalfDone, Config
<1> QED
  BY <1>2, <1>5, <1>6, <1>7 DEF TopicInv, OwnSaves, InTable, AtRest

\* A step of SaveKeys does something to a topic only if it saves one.
LEMMA TopicSaving ==
  ASSUME Typed, TopicInv, WholeFile', NEW p \in Savers, Saving(p)
  PROVE  TopicInv'
<1>1. /\ saver[p] # "idle" /\ saver[p] # "saved" /\ \A q \in Savers \ {p} : saver'[q] = saver[q]
      /\ UNCHANGED <<task, conf, sess, net, mixed, upd>>
  BY SavingFrame DEF Saving, SaveStep, ReadFile, ReadFails, Truncate, OpenFails, WriteBody, WriteFails, Goes, Held
<1>2. ConfInv /\ SaveStep(p) /\ [Next]_vars
  BY DEF Typed, Saving, Next
<1>3. faults' = 0 => faults = 0
  BY <1>2, FaultsGrow
<1>4. CASE saver'[p] # "saved"
  <2>1. \A c \in Cmds : SameSetting(c)
    BY <1>1, <1>4, SameTask, AgentAssumption
  <2>2. faults' = 0 => tableBar' = tableBar
    BY <1>2, <1>4, FaultsGrow, SaveStepTable
  <2> QED
    BY <1>1, <1>3, <2>1, <2>2, TopicFrame
<1>5. CASE saver'[p] = "saved"
  <2>1. tableBar' = Overwrite(tableBar, upd[p])
    BY <1>2, <1>5, SaveStepTable
  <2>2. CASE p \in Cmds /\ Setting(p)
    <3>1. task[p].pc = "save" /\ task[p].order.path = "set_topic"
      BY <1>1, <2>2 DEF Setting, Typed, Callers, Caller, Is
    <3>2. Unsaved(p)
      BY <1>1, <2>2, <3>1 DEF Unsaved, Is
    <3>3. upd[p] = Only(Topic, task[p].order.value) /\ task[p].order.value \in Values
      BY <2>2, <3>1, SettingFacts DEF Typed, Callers, Caller, Is, Saved
    <3>4. \A k \in Topic : Raw(tableBar', k) = task[p].order.value
      BY <2>1, <3>3, RawOverwrite, KeyFacts
    <3>5. \A c \in Cmds : /\ Setting(c)' <=> Setting(c)
                          /\ Unsaved(c)' <=> Unsaved(c) /\ c # p
                          /\ Is(c, "map")' <=> Is(c, "map")
      BY <1>1, <1>5, AgentAssumption DEF Setting, Unsaved, Is
    <3>6. Live' => Live /\ task[p].cfg = sess /\ sess \in Sessions
      BY <1>1, <2>2, <3>2, SettingFacts DEF Live, TopicInv, OwnSaves
    <3>7. OneSetter' /\ WholeConfigs' /\ HalfDone'
      <4>1. \A i : HalfStored(i)' <=> HalfStored(i)
        BY <1>1 DEF HalfStored, Is
      <4> QED
        BY <1>1, <3>5, <4>1 DEF TopicInv, OneSetter, WholeConfigs, HalfDone, Config
    <3>8. OwnSaves'
      BY <1>1, <3>5, <3>6 DEF TopicInv, OwnSaves
    <3>9. InTable'
      <4> SUFFICES ASSUME Live', NEW c \in Cmds, Setting(c), ~Unsaved(c)', task[c].cfg = sess
                   PROVE  \A k \in Topic : Raw(tableBar', k) = task[c].order.value
        BY <1>1, <3>5 DEF InTable, Raw
      <4>1. c = p
        BY <1>1, <2>2, <3>6 DEF TopicInv, OneSetter, Live
      <4> QED
        BY <3>4, <4>1
    <3>10. AtRest'
      BY <1>1, <2>2, <3>5, <3>6 DEF AtRest
    <3> QED
      BY <3>7, <3>8, <3>9, <3>10 DEF TopicInv
  <2>3. CASE ~(p \in Cmds /\ Setting(p))
    <3>1. \A c \in Cmds : SameSetting(c)
      <4>1. ASSUME NEW c \in Cmds, c = p
            PROVE  SameSetting(c)
        <5>1. task'[c] = task[c] /\ task[c].pc = "save"
          BY <1>1, <4>1 DEF Typed, Callers, Caller, Is
        <5> QED
          BY <2>3, <4>1, <5>1, NotSetting DEF Setting, Is
      <4>2. ASSUME NEW c \in Cmds, c # p
            PROVE  SameSetting(c)
        BY <1>1, <4>2, SameTask, AgentAssumption
      <4> QED
        BY <4>1, <4>2
    <3>2. \A k \in Topic : Raw(tableBar', k) = Raw(tableBar, k)
      <4>1. ASSUME NEW ks \in SUBSET Keys, NEW v \in Values, Topic \cap ks = {}, upd[p] = Only(ks, v)
            PROVE  \A k \in Topic : Raw(tableBar', k) = Raw(tableBar, k)
        BY <2>1, <4>1, RawOverwrite, KeyFacts
      <4>2. CASE p = Main
        <5>1. upd[p] = Only({"PUBLIC_IP"}, "ip") /\ {"PUBLIC_IP"} \in SUBSET Keys /\ "ip" \in Values
              /\ Topic \cap {"PUBLIC_IP"} = {}
          BY <1>1, <4>2, AgentAssumption DEF Typed, Callers, Address, Topic
        <5> QED
          BY <4>1, <5>1
      <4>3. CASE p # Main
        <5>1. /\ p \in Cmds /\ task[p].pc = "save" /\ Saves(task[p].order) /\ upd[p] = Saved(task[p].order)
              /\ task[p].order \in Orders
          BY <1>1, <4>3, AgentAssumption, GoroutineFacts DEF Typed, TypeOK, Callers, Caller, Is, Active
        <5>2. task[p].order.path = "toggle"
          BY <2>3, <5>1 DEF Setting, Saves
        <5>3. task[p].order.mod \in Modules /\ task[p].order.value \in Values
          BY <5>1, <5>2, OrderFacts, AgentAssumption
        <5>4. {Switch[task[p].order.mod]} \in SUBSET Keys /\ Topic \cap {Switch[task[p].order.mod]} = {}
          BY <5>3, KeyFacts DEF Switch, Modules, Topic
        <5> QED
          BY <4>1, <5>1, <5>2, <5>3, <5>4 DEF Saved
      <4> QED
        BY <4>2, <4>3
    <3> QED
      BY <1>1, <1>3, <3>1, <3>2, TopicFrame
  <2> QED
    BY <2>2, <2>3
<1> QED
  BY <1>4, <1>5

LEMMA TopicDeliver ==
  ASSUME Typed, TopicInv, WholeFile', NEW c \in Cmds, NEW o \in Menu[c], Deliver(c, o)
  PROVE  TopicInv'
<1>1. /\ task[c].pc = "none" /\ ~Setting(c) /\ ~Is(c, "map")
      /\ net = "up" /\ UNCHANGED <<conf, sess, net>> /\ sess \in Sessions
      /\ \A d \in Cmds \ {c} : task'[d] = task[d]
  BY BeginTyped DEF Deliver, Is, Setting
<1>2. /\ saver \in [Savers -> Held \cup {"idle", "waiting", "saved", "failed"}]
      /\ Savers = Cmds \cup {Main}
  BY AgentAssumption DEF Typed, ConfInv, ConfTypeOK
<1>3. UNCHANGED <<tableBar, faults>> /\ \A d \in Cmds \ {c} : saver'[d] = saver[d]
  <2>1. CASE Saves(o)
    <3>1. Call(c, Saved(o)) /\ Saved(o) \in Updates
      BY <2>1, AgentAssumption DEF Deliver, DeliverSave
    <3> QED
      BY <1>2, <3>1, CallStep DEF Typed, Call, Goes
  <2>2. CASE ~Saves(o)
    BY <2>2 DEF Deliver, DeliverOther, confVars, tableBar, Torn
  <2> QED
    BY <2>1, <2>2
<1>4. \A d \in Cmds \ {c} : SameSetting(d)
  BY <1>1, <1>3, SameTask
<1>5. CASE o.path = "set_topic"
  <2>1. /\ task'[c] = [pc |-> "save", order |-> o, cfg |-> sess, todo |-> {}]
        /\ saver'[c] = "waiting"
        /\ mixed' = IF \E d \in Cmds : Unsaved(d) \/ (Setting(d) /\ task[d].cfg = sess)
                      THEN mixed \cup {sess} ELSE mixed
    <3>1. DeliverSave(c, o)
      BY <1>5 DEF Deliver, Saves
    <3>2. Call(c, Saved(o)) /\ Begin(c, o, "save")
      BY <3>1 DEF DeliverSave
    <3> QED
      BY <1>2, <1>5, <3>1, <3>2 DEF DeliverSave, Call, Goes, Begin, Typed, TypeOK
  <2>2. task'[c].pc = "save" /\ task'[c].order = o /\ task'[c].cfg = sess
    BY <2>1
  <2>3. Setting(c)' /\ Unsaved(c)' /\ ~Is(c, "map")'
    BY <1>5, <2>1, <2>2 DEF Setting, Unsaved, Is
  <2>4. \A i \in Sessions \ mixed' : i \notin mixed
    BY <2>1
  <2>5. sess \notin mixed' => \A d \in Cmds : ~Unsaved(d) /\ ~(Setting(d) /\ task[d].cfg = sess)
    BY <2>1
  <2>6. OneSetter'
    <3> SUFFICES ASSUME NEW i \in Sessions \ mixed', NEW d \in Cmds, NEW e \in Cmds,
                        Setting(d)', Setting(e)', task'[d].cfg = i, task'[e].cfg = i
                 PROVE  d = e
      BY DEF OneSetter
    <3>1. ASSUME NEW f \in Cmds, f # c, Setting(f)', task'[f].cfg = i
          PROVE  Setting(f) /\ task[f].cfg = i /\ i # sess
      BY <1>1, <1>4, <2>5, <3>1 DEF SameSetting
    <3>2. CASE d = c \/ e = c
      BY <2>2, <3>1, <3>2
    <3>3. CASE d # c /\ e # c
      BY <2>4, <3>1, <3>3 DEF TopicInv, OneSetter
    <3> QED
      BY <3>2, <3>3
  <2>7. WholeConfigs'
    <3>1. \A i : HalfStored(i)' <=> HalfStored(i)
      BY <1>1, <1>4, <2>3, HalfSame
    <3> QED
      BY <1>1, <2>4, <3>1 DEF TopicInv, WholeConfigs
  <2>8. HalfDone'
    <3> SUFFICES ASSUME NEW d \in Cmds, Is(d, "map")', task'[d].cfg \notin mixed', NEW k \in Topic \ task'[d].todo
                 PROVE  conf'[task'[d].cfg].topic[k] = task'[d].order.value
      BY DEF HalfDone, Config
    <3>1. d # c
      BY <2>3
    <3>2. /\ Is(d, "map") /\ task'[d] = task[d]
          /\ task[d].cfg \in Sessions
      BY <1>1, <1>4, <3>1, SettingFacts DEF SameSetting
    <3> QED
      BY <1>1, <2>4, <3>2 DEF TopicInv, HalfDone, Config
  <2>9. Live' => Live
    BY <1>1, <2>4 DEF Live
  <2>10. OwnSaves'
    BY <1>1, <1>4, <2>2, <2>9 DEF TopicInv, OwnSaves, SameSetting, Unsaved
  <2>11. InTable'
    <3> SUFFICES ASSUME Live', faults' = 0, NEW d \in Cmds, Setting(d)', ~Unsaved(d)', task'[d].cfg = sess
                 PROVE  \A k \in Topic : Raw(tableBar', k) = task'[d].order.value
      BY <1>1 DEF InTable
    <3>1. d # c
      BY <2>3
    <3>2. Setting(d) /\ task[d].cfg = sess
      BY <1>1, <1>4, <3>1 DEF SameSetting
    <3> QED
      BY <1>1, <2>5, <3>2 DEF Live
  <2>12. AtRest'
    <3> SUFFICES ASSUME Live', faults' = 0
                 PROVE  \A k \in Topic : conf[sess].topic[k] = Raw(tableBar', k)
      BY <1>1 DEF AtRest
    <3>1. \A d \in Cmds : Setting(d) /\ task[d].cfg = sess => Unsaved(d)
      BY <1>1, <2>5 DEF Live
    <3> QED
      BY <1>3, <2>9, <3>1 DEF TopicInv, AtRest
  <2> QED
    BY <2>6, <2>7, <2>8, <2>10, <2>11, <2>12 DEF TopicInv
<1>6. CASE o.path # "set_topic"
  <2>1. UNCHANGED mixed
    BY <1>6 DEF Deliver, DeliverSave, DeliverOther
  <2>2. /\ \/ task'[c] = [pc |-> "save", order |-> o, cfg |-> sess, todo |-> {}]
           \/ task'[c] = [pc |-> "module", order |-> o, cfg |-> sess, todo |-> {}]
           \/ task'[c] = [pc |-> "push", order |-> o, cfg |-> sess, todo |-> {}]
           \/ task'[c] = [pc |-> "done"]
    BY BeginTyped, Zenon
  <2>3. ~Setting(c)' /\ ~Is(c, "map")'
    BY <1>6, <2>2 DEF Setting, Is
  <2>4. SameSetting(c)
    BY <1>1, <2>3, NotSetting
  <2> QED
    BY <1>1, <1>3, <1>4, <2>1, <2>4, TopicFrame
<1> QED
  BY <1>5, <1>6

\* A call that has failed has changed nothing; one that has not goes on to the
\* session's Config.
LEMMA TopicAfterSave ==
  ASSUME Typed, TopicInv, WholeFile', NEW c \in Cmds, AfterSave(c)
  PROVE  TopicInv'
<1>1. /\ task[c].pc = "save" /\ Return(c) /\ UNCHANGED <<conf, sess, net, mixed>>
      /\ CommandStep(c) /\ ~Is(c, "map")
  BY DEF AfterSave, Is, CommandStep
<1>2. /\ saver \in [Savers -> Held \cup {"idle", "waiting", "saved", "failed"}]
      /\ Savers = Cmds \cup {Main}
  BY AgentAssumption DEF Typed, ConfInv, ConfTypeOK
<1>3. UNCHANGED <<tableBar, faults>> /\ \A d \in Cmds \ {c} : saver'[d] = saver[d]
  BY <1>1, <1>2, ReturnStep DEF Typed, Return
<1>4. \A d \in Cmds \ {c} : task'[d] = task[d]
  BY <1>1, GoroutineStep
<1>5. \A d \in Cmds \ {c} : SameSetting(d)
  BY <1>3, <1>4, SameTask
<1>6. CASE Setting(c) /\ saver[c] = "saved"
  <2>1. task[c].order.path = "set_topic" /\ ~Unsaved(c)
    BY <1>6 DEF Setting, Unsaved
  <2>2. task' = [task EXCEPT ![c].pc = "map", ![c].todo = Topic]
    BY <1>6, <2>1 DEF AfterSave
  <2>3. task'[c] = [pc |-> "map", order |-> task[c].order, cfg |-> task[c].cfg, todo |-> Topic]
    <3>1. task'[c] = [task[c] EXCEPT !.pc = "map", !.todo = Topic]
      BY <2>2 DEF Typed, TypeOK
    <3>2. task[c] \in Goroutines /\ task[c].pc \in Active /\ "map" \in Active
      BY <1>1 DEF Typed, TypeOK, Active
    <3> QED
      BY <3>1, <3>2, GotoTyped
  <2>4. task'[c].pc = "map" /\ task'[c].order = task[c].order /\ task'[c].cfg = task[c].cfg /\ task'[c].todo = Topic
    BY <2>3
  <2>5. Setting(c)' /\ ~Unsaved(c)' /\ Is(c, "map")'
    BY <2>1, <2>4 DEF Setting, Unsaved, Is
  <2>6. \A d \in Cmds : /\ Setting(d)' <=> Setting(d)
                        /\ Unsaved(d)' <=> Unsaved(d)
                        /\ Is(d, "map") => Is(d, "map")'
                        /\ Setting(d) => task'[d].cfg = task[d].cfg /\ task'[d].order = task[d].order
    BY <1>1, <1>4, <1>5, <1>6, <2>1, <2>4, <2>5 DEF SameSetting
  <2>7. OneSetter' /\ OwnSaves' /\ InTable' /\ AtRest'
    <3>1. OneSetter'
      BY <1>1, <2>6 DEF TopicInv, OneSetter
    <3>2. OwnSaves'
      BY <1>1, <2>6, SettingFacts DEF TopicInv, OwnSaves, Live
    <3>3. InTable'
      BY <1>1, <1>3, <2>6 DEF TopicInv, InTable, Live
    <3>4. AtRest'
      BY <1>1, <1>3, <2>6 DEF TopicInv, AtRest, Live
    <3> QED
      BY <3>1, <3>2, <3>3, <3>4
  <2>8. WholeConfigs'
    <3>1. \A i : HalfStored(i)' <=> HalfStored(i)
      BY <1>1, <1>5, <2>4, HalfSame
    <3> QED
      BY <1>1, <3>1 DEF TopicInv, WholeConfigs
  <2>9. HalfDone'
    <3> SUFFICES ASSUME NEW d \in Cmds, Is(d, "map")', task'[d].cfg \notin mixed', NEW k \in Topic \ task'[d].todo
                 PROVE  conf'[task'[d].cfg].topic[k] = task'[d].order.value
      BY DEF HalfDone, Config
    <3>1. d # c
      BY <2>4
    <3>2. Is(d, "map") /\ task'[d] = task[d]
      BY <1>4, <1>5, <3>1 DEF SameSetting
    <3> QED
      BY <1>1, <3>2 DEF TopicInv, HalfDone, Config
  <2> QED
    BY <2>7, <2>8, <2>9 DEF TopicInv
<1>7. CASE ~(Setting(c) /\ saver[c] = "saved")
  <2>1. ~(saver[c] = "saved" /\ task[c].order.path = "set_topic")
    BY <1>1, <1>7 DEF Setting
  <2>2. task'[c] = [pc |-> "done"]
    BY <2>1 DEF AfterSave, Typed, TypeOK
  <2>3. ~Setting(c)' /\ ~Is(c, "map")'
    BY <2>2 DEF Setting, Is
  <2>4. Setting(c) => Unsaved(c)
    BY <1>1, <1>7 DEF Unsaved, Is
  <2>5. ~Unsaved(c)'
    BY <2>3 DEF Unsaved
  <2>6. OneSetter'
    BY <1>1, <1>5, <2>3 DEF TopicInv, OneSetter, SameSetting
  <2>7. WholeConfigs'
    <3>1. \A i : HalfStored(i)' <=> HalfStored(i)
      BY <1>1, <1>5, <2>3, HalfSame
    <3> QED
      BY <1>1, <3>1 DEF TopicInv, WholeConfigs
  <2>8. HalfDone'
    <3> SUFFICES ASSUME NEW d \in Cmds, Is(d, "map")', task'[d].cfg \notin mixed', NEW k \in Topic \ task'[d].todo
                 PROVE  conf'[task'[d].cfg].topic[k] = task'[d].order.value
      BY DEF HalfDone, Config
    <3>1. Is(d, "map") /\ task'[d] = task[d]
      BY <1>4, <1>5, <2>3 DEF SameSetting
    <3> QED
      BY <1>1, <3>1 DEF TopicInv, HalfDone, Config
  <2>9. OwnSaves'
    BY <1>1, <1>5, <2>5, SettingFacts DEF TopicInv, OwnSaves, SameSetting, Live
  <2>10. InTable'
    BY <1>1, <1>3, <1>5, <2>3 DEF TopicInv, InTable, SameSetting, Live
  <2>11. AtRest'
    <3> SUFFICES ASSUME Live', faults' = 0, \A d \in Cmds : Setting(d)' /\ task'[d].cfg = sess => Unsaved(d)'
                 PROVE  \A k \in Topic : conf[sess].topic[k] = Raw(tableBar', k)
      BY <1>1 DEF AtRest
    <3>1. \A d \in Cmds : Setting(d) /\ task[d].cfg = sess => Unsaved(d)
      BY <1>5, <2>4 DEF SameSetting
    <3> QED
      BY <1>1, <1>3, <3>1 DEF TopicInv, AtRest, Live
  <2> QED
    BY <2>6, <2>7, <2>8, <2>9, <2>10, <2>11 DEF TopicInv
<1> QED
  BY <1>6, <1>7

\* An assignment to the session's Config; the last one makes its topic whole.
LEMMA TopicStore ==
  ASSUME Typed, TopicInv, WholeFile', NEW c \in Cmds, NEW k \in Topic, StoreRaw(c, k)
  PROVE  TopicInv'
<1> DEFINE i == task[c].cfg
           v == task[c].order.value
<1>1. /\ Is(c, "map") /\ Setting(c) /\ ~Unsaved(c) /\ k \in task[c].todo
      /\ i \in Sessions /\ CommandStep(c)
      /\ UNCHANGED <<confVars, sess, net, mixed>>
  BY SettingFacts DEF StoreRaw, CommandStep, Unsaved, Is
<1>2. tableBar' = tableBar /\ faults' = faults /\ saver' = saver
  BY <1>1 DEF confVars, tableBar, Torn
<1>3. \A d \in Cmds \ {c} : task'[d] = task[d] /\ SameSetting(d)
  BY <1>1, <1>2, GoroutineStep, SameTask
<1>4. /\ \A j \in Sessions \ {i} : conf'[j].topic = conf[j].topic
      /\ conf'[i].topic[k] = v
      /\ \A l \in Topic \ {k} : conf'[i].topic[l] = conf[i].topic[l]
  <2> DEFINE r == conf[i]
             t == [r.topic EXCEPT ![k] = v]
  <2>1. conf \in [Sessions -> Configs] /\ r \in Configs
    BY <1>1 DEF Typed, TypeOK
  <2>2. conf' = [conf EXCEPT ![i] = [r EXCEPT !.topic = t]]
    BY <1>1, <2>1 DEF StoreRaw
  <2>3. t[k] = v /\ \A l \in Topic \ {k} : t[l] = r.topic[l]
    BY <2>1 DEF Configs
  <2> HIDE DEF t
  <2>4. [r EXCEPT !.topic = t].topic = t
    BY <2>1 DEF Configs
  <2> HIDE DEF r
  <2>5. \A j \in Sessions : conf'[j] = IF j = i THEN [r EXCEPT !.topic = t] ELSE conf[j]
    BY <2>1, <2>2
  <2> QED
    BY <1>1, <2>3, <2>4, <2>5 DEF r
<1>5. \/ /\ task[c].todo = {k}
         /\ ~Setting(c)' /\ ~Is(c, "map")' /\ ~Unsaved(c)'
      \/ /\ Setting(c)' /\ Is(c, "map")' /\ ~Unsaved(c)'
         /\ task'[c].cfg = i /\ task'[c].order = task[c].order /\ task'[c].todo = task[c].todo \ {k}
  <2>1. task[c].pc = "map" /\ task[c].order.path = "set_topic"
    BY <1>1 DEF Is, Setting
  <2>2. CASE task[c].todo = {k}
    <3>1. task' = [task EXCEPT ![c] = [pc |-> "done"]]
      BY <2>2 DEF StoreRaw, End
    <3>2. task'[c] = [pc |-> "done"]
      BY <3>1 DEF Typed, TypeOK
    <3>3. task'[c].pc = "done"
      BY <3>2
    <3> QED
      BY <2>2, <3>3 DEF Setting, Is, Unsaved
  <2>3. CASE task[c].todo # {k}
    <3>1. task'[c] = [task[c] EXCEPT !.todo = task[c].todo \ {k}]
      BY <2>3 DEF StoreRaw, Typed, TypeOK
    <3>2. /\ task[c] \in Goroutines /\ task[c].pc \in Active /\ "map" \in Active
          /\ task[c].todo \ {k} \in SUBSET Topic
      BY <1>1, <2>1, SettingFacts DEF Typed, TypeOK, Active
    <3>3. task'[c] = [pc |-> task[c].pc, order |-> task[c].order, cfg |-> task[c].cfg, todo |-> task[c].todo \ {k}]
      <4> DEFINE ks == task[c].todo \ {k}
      <4> HIDE DEF ks
      <4>1. ks \in SUBSET Topic
        BY <3>2 DEF ks
      <4>2. task'[c] = [task[c] EXCEPT !.todo = ks]
        BY <3>1 DEF ks
      <4>3. [task[c] EXCEPT !.todo = ks] = [pc |-> task[c].pc, order |-> task[c].order, cfg |-> task[c].cfg, todo |-> ks]
        BY <3>2, <4>1, GotoTyped
      <4> QED
        BY <4>2, <4>3 DEF ks
    <3>4. task'[c].pc = "map" /\ task'[c].order = task[c].order /\ task'[c].cfg = i /\ task'[c].todo = task[c].todo \ {k}
      BY <2>1, <3>3
    <3> QED
      BY <2>1, <3>4 DEF Setting, Is, Unsaved
  <2> QED
    BY <2>2, <2>3
<1>6. i \notin mixed => \A l \in Topic \ (task[c].todo \ {k}) : conf'[i].topic[l] = v
  <2>1. i \notin mixed => \A l \in Topic \ task[c].todo : conf[i].topic[l] = v
    BY <1>1 DEF TopicInv, HalfDone, Config
  <2> QED
    BY <1>4, <2>1
<1> HIDE DEF i, v
<1>7. OneSetter'
  BY <1>1, <1>3, <1>5 DEF TopicInv, OneSetter, SameSetting, i
<1>8. WholeConfigs'
  <2> SUFFICES ASSUME NEW j \in Sessions \ mixed, ~HalfStored(j)'
               PROVE  Whole(conf'[j].topic)
    BY <1>1 DEF WholeConfigs
  <2>1. CASE j = i
    <3>1. task[c].todo = {k}
      BY <1>5, <2>1 DEF HalfStored
    <3>2. \A l \in Topic : conf'[i].topic[l] = v
      BY <1>6, <2>1, <3>1
    <3> QED
      BY <2>1, <3>2 DEF Whole
  <2>2. CASE j # i
    <3>1. ~HalfStored(j)
      BY <1>3, <2>2 DEF HalfStored, SameSetting, i
    <3> QED
      BY <1>4, <2>2, <3>1 DEF TopicInv, WholeConfigs
  <2> QED
    BY <2>1, <2>2
<1>9. HalfDone'
  <2> SUFFICES ASSUME NEW d \in Cmds, Is(d, "map")', task'[d].cfg \notin mixed, NEW l \in Topic \ task'[d].todo
               PROVE  conf'[task'[d].cfg].topic[l] = task'[d].order.value
    BY <1>1 DEF HalfDone, Config
  <2>1. CASE d = c
    BY <1>5, <1>6, <2>1 DEF i, v
  <2>2. CASE d # c
    <3>1. Is(d, "map") /\ Setting(d) /\ task'[d] = task[d] /\ task[d].cfg \in Sessions
      BY <1>3, <2>2, SettingFacts DEF SameSetting
    <3>2. task[d].cfg # i
      BY <1>1, <2>2, <3>1 DEF TopicInv, OneSetter, i
    <3> QED
      BY <1>4, <3>1, <3>2 DEF TopicInv, HalfDone, Config
  <2> QED
    BY <2>1, <2>2
<1>10. Live' => Live
  BY <1>1 DEF Live
<1>11. OwnSaves'
  BY <1>1, <1>3, <1>5, <1>10, SettingFacts DEF TopicInv, OwnSaves, SameSetting
<1>12. InTable'
  BY <1>1, <1>2, <1>3, <1>5, <1>10 DEF TopicInv, InTable, SameSetting, i
<1>13. AtRest'
  <2> SUFFICES ASSUME Live', faults = 0, \A d \in Cmds : Setting(d)' /\ task'[d].cfg = sess => Unsaved(d)'
               PROVE  \A l \in Topic : conf'[sess].topic[l] = Raw(tableBar, l)
    BY <1>1, <1>2 DEF AtRest
  <2>0. sess \in Sessions /\ sess \notin mixed
    BY <1>10, BoundFacts DEF Live, Typed, TypeOK, Current, Sessions
  <2>1. CASE i = sess
    <3>1. task[c].todo = {k}
      BY <1>5, <2>1
    <3>2. \A l \in Topic : conf'[i].topic[l] = v
      BY <1>6, <2>0, <2>1, <3>1
    <3>3. \A l \in Topic : Raw(tableBar, l) = v
      BY <1>1, <1>10, <2>1 DEF TopicInv, InTable, i, v
    <3> QED
      BY <2>1, <3>2, <3>3
  <2>2. CASE i # sess
    <3>1. \A d \in Cmds : Setting(d) /\ task[d].cfg = sess => Unsaved(d)
      BY <1>3, <2>2 DEF SameSetting, i
    <3> QED
      BY <1>4, <1>10, <2>0, <2>2, <3>1 DEF TopicInv, AtRest
  <2> QED
    BY <2>1, <2>2
<1> QED
  BY <1>7, <1>8, <1>9, <1>11, <1>12, <1>13 DEF TopicInv

LEMMA TopicStep ==
  ASSUME Typed, TopicInv, [Next]_vars
  PROVE  TopicInv'
<1>1. WholeFile'
  BY WholeFileStep DEF TopicInv
<1>2. faults' = 0 => faults = 0
  BY FaultsGrow
<1>3. ASSUME NEW p \in Savers, Saving(p)
      PROVE  TopicInv'
  BY <1>1, <1>3, TopicSaving
<1>4. ASSUME UNCHANGED <<task, conf, sess, mixed, tableBar>>,
             \A c \in Cmds : saver'[c] = saver[c],
             net' # "down" => net # "down"
      PROVE  TopicInv'
  BY <1>1, <1>2, <1>4, SameTask, TopicFrame
<1>5. CASE Start \/ AddressSaved
  <2>1. \A c \in Cmds : c # Main
    BY AgentAssumption
  <2>2. UNCHANGED tableBar /\ \A c \in Cmds : saver'[c] = saver[c]
    <3>1. CASE UNCHANGED confVars
      BY <3>1 DEF confVars, tableBar, Torn
    <3>2. CASE Call(Main, Address) \/ Return(Main)
      BY <2>1, <3>2, CallStep, ReturnStep, AgentAssumption DEF Call, Goes, Return, Typed, ConfInv, ConfTypeOK
    <3> QED
      BY <1>5, <3>1, <3>2 DEF Start, AddressSaved
  <2> QED
    BY <1>4, <1>5, <2>2 DEF Start, AddressSaved
<1>6. CASE Break \/ TakeTrends \/ WriteTrend \/ InsertTrend \/ Tick \/ DailyReport \/ RoundStep \/ UNCHANGED vars
  <2>1. UNCHANGED <<confVars, task, conf, sess, mixed>> /\ (net' # "down" => net # "down")
    BY <1>6 DEF Break, TakeTrends, WriteTrend, InsertTrend, Tick, DailyReport, RoundStep, Choose, EndRound, vars, agentVars
  <2> QED
    BY <1>4, <2>1 DEF confVars, tableBar, Torn
<1>7. ASSUME NEW c \in Cmds, EndModule(c) \/ ReadChat(c) \/ TGPushHTML(c) \/ QueueTrend(c)
      PROVE  TopicInv'
  <2>1. /\ UNCHANGED <<confVars, conf, sess, mixed, net>> /\ CommandStep(c)
        /\ ~Setting(c) /\ ~Is(c, "map") /\ ~Is(c, "save")
    BY <1>7 DEF EndModule, ReadChat, TGPushHTML, QueueTrend, CommandStep, Is, Setting
  <2>2. \A d \in Cmds \ {c} : task'[d] = task[d]
    BY <2>1, GoroutineStep
  <2>3. task'[c].pc \in {"done", "thread", "trend", "queued"}
    <3>1. \/ task'[c] = [pc |-> "done"]
          \/ \E ks : Becomes(c, "thread", ks) \/ Becomes(c, "trend", ks) \/ Becomes(c, "queued", ks)
      BY <2>1, GoroutineStep, Zenon
    <3>2. \A pc, ks : Becomes(c, pc, ks) => task'[c].pc = pc
      BY DEF Becomes
    <3>3. [pc |-> "done"].pc = "done"
      OBVIOUS
    <3> QED
      BY <3>1, <3>2, <3>3
  <2>4. ~Setting(c)' /\ ~Is(c, "map")'
    BY <2>3 DEF Setting, Is
  <2>5. \A d \in Cmds : SameSetting(d)
    BY <2>1, <2>2, <2>4, NotSetting, SameTask DEF confVars
  <2>6. UNCHANGED tableBar
    BY <2>1 DEF confVars, tableBar, Torn
  <2> QED
    BY <1>1, <1>2, <2>1, <2>5, <2>6, TopicFrame
<1>8. ASSUME NEW c \in Cmds, AfterSave(c) \/ \E k \in Topic : StoreRaw(c, k)
      PROVE  TopicInv'
  BY <1>1, <1>8, TopicAfterSave, TopicStore
<1>9. ASSUME NEW c \in Cmds, NEW o \in Menu[c], Deliver(c, o)
      PROVE  TopicInv'
  BY <1>1, <1>9, TopicDeliver
<1>10. CASE Crash \/ Connect \/ EndSession
  BY <1>1, <1>10, TopicCrash, TopicConnect, TopicEndSession
<1> QED
  BY <1>3, <1>5, <1>6, <1>7, <1>8, <1>9, <1>10 DEF Next, ClientStep, CommandStep

LEMMA TopicInductive == Spec => []TopicInv
<1>1. Init => TopicInv
  <2> SUFFICES ASSUME Init PROVE TopicInv
    OBVIOUS
  <2>1. WholeFile
    BY AgentAssumption, KeyFacts DEF Init, ConfInit, WholeFile, Whole, Empty
  <2>2. \A c \in Cmds : ~Setting(c) /\ ~Is(c, "map")
    BY DEF Init, Setting, Is, Idle
  <2>3. ~Live /\ \A i \in Sessions : conf[i] = Blank
    BY DEF Init, Live
  <2> QED
    BY <2>1, <2>2, <2>3, BlankWhole
    DEF TopicInv, OneSetter, WholeConfigs, HalfDone, OwnSaves, InTable, AtRest
<1>2. Typed /\ TopicInv /\ [Next]_vars => TopicInv'
  BY TopicStep
<1> QED
  BY <1>1, <1>2, TypedInductive, PTL DEF Spec

\* The address in a Config is that of one binding, but between the two
\* assignments of a set_topic, and at rest the session's is the file's, for any
\* number of set_topic commands, sessions and crashes, but where two set_topic
\* overlapped or a fault has hit the file.
\* (commands.go:58-70, agent/config.go:86-97)
THEOREM TopicsAgree == Spec => []TopicAgrees
<1>1. TopicInv => TopicAgrees
  <2> SUFFICES ASSUME TopicInv PROVE TopicAgrees
    OBVIOUS
  <2>1. \A i \in Sessions \ mixed : Whole(conf[i].topic) \/ HalfStored(i)
    BY DEF TopicInv, WholeConfigs
  <2>2. net # "down" /\ sess \notin mixed /\ faults = 0 /\ (\A c \in Cmds : ~Setting(c))
          => \A k \in Topic : conf[sess].topic[k] = Raw(tableBar, k)
    BY DEF TopicInv, AtRest, Live
  <2> QED
    BY <2>1, <2>2 DEF TopicAgrees
<1> QED
  BY <1>1, TopicInductive, PTL

-----------------------------------------------------------------------------
(* Where messages go.                                                      *)

\* A command that has not sent its message has not read the whole address ...
Unsent == \A c \in Cmds : task[c].pc \in {"none", "push", "thread"} => ~Sent(c)

\* ... and half of it is still as the Config has it, with no set_topic between
\* its two assignments, if none has come between.
ReadOnce ==
  \A c \in Cmds : Is(c, "thread") /\ c \notin crossed /\ task[c].cfg \notin mixed =>
    /\ dest[c]["TG_DEST_CHAT_ID"] = Config(c).topic["TG_DEST_CHAT_ID"]
    /\ ~HalfStored(task[c].cfg)

MessageInv == Unsent /\ ReadOnce /\ OneDestination

\* The address in the Config that a message reads is as before: no set_topic
\* has stored a part of it.
SameAddress(c) ==
  /\ Is(c, "thread") /\ task'[c].cfg = task[c].cfg
  /\ task[c].cfg \notin mixed' =>
       /\ task[c].cfg \notin mixed
       /\ conf'[task[c].cfg] = conf[task[c].cfg]
       /\ HalfStored(task[c].cfg)' => HalfStored(task[c].cfg)

\* Steps that read no address.
LEMMA MessageFrame ==
  ASSUME MessageInv, dest' = dest, crossed \subseteq crossed',
         \A c \in Cmds : task'[c].pc \in {"none", "push", "thread"} => task[c].pc \in {"none", "push", "thread"},
         \A c \in Cmds : Is(c, "thread")' /\ c \notin crossed' => SameAddress(c)
  PROVE  MessageInv'
<1>1. Unsent'
  BY DEF MessageInv, Unsent, Sent
<1>2. ReadOnce'
  BY DEF MessageInv, ReadOnce, SameAddress, Config
<1>3. OneDestination'
  BY DEF MessageInv, OneDestination, Sent
<1> QED
  BY <1>1, <1>2, <1>3 DEF MessageInv

\* Steps that leave the goroutines alone, and the Configs they have.
LEMMA MessageElsewhere ==
  ASSUME Typed, MessageInv, UNCHANGED <<task, destVars>>, mixed \subseteq mixed',
         \A c \in Cmds : Running(c) => conf'[task[c].cfg] = conf[task[c].cfg]
  PROVE  MessageInv'
<1>1. \A i : HalfStored(i)' <=> HalfStored(i)
  BY DEF HalfStored, Is
<1>2. \A c \in Cmds : Is(c, "thread")' => SameAddress(c)
  BY <1>1 DEF SameAddress, Is, Running
<1> QED
  BY <1>2, MessageFrame DEF destVars

\* A session begins, or ends: no goroutine has its Config.
LEMMA MessageSession ==
  ASSUME Typed, MessageInv, Connect \/ EndSession
  PROVE  MessageInv'
<1>1. /\ conf \in [Sessions -> Configs] /\ sess \in Nat
      /\ \A c \in Cmds : Running(c) => task[c].cfg <= sess /\ task[c].cfg \in Sessions
  <2>1. \A c \in Cmds : Running(c) => task[c].pc \in Active
    BY GoroutineFacts DEF Running, Typed, TypeOK
  <2> QED
    BY <2>1, GoroutineFacts, BoundFacts DEF Typed, TypeOK, Current
<1>2. CASE Connect
  <2>1. conf' = [conf EXCEPT ![sess + 1] = LoadConfig(Loads)] /\ UNCHANGED <<task, destVars>> /\ mixed \subseteq mixed'
    BY <1>2 DEF Connect
  <2>2. \A c \in Cmds : Running(c) => task[c].cfg \in Nat /\ task[c].cfg # sess + 1
    BY <1>1 DEF Sessions
  <2>3. \A c \in Cmds : Running(c) => conf'[task[c].cfg] = conf[task[c].cfg]
    BY <1>1, <2>1, <2>2
  <2> QED
    BY <2>1, <2>3, MessageElsewhere
<1>3. CASE EndSession
  <2>1. \A c \in Cmds : Running(c) => conf'[task[c].cfg] = conf[task[c].cfg]
    BY <1>1, <1>3 DEF EndSession
  <2> QED
    BY <1>3, <2>1, MessageElsewhere DEF EndSession
<1> QED
  BY <1>2, <1>3

LEMMA MessageCrash ==
  ASSUME Typed, Crash
  PROVE  MessageInv'
<1>1. \A c \in Cmds : task'[c].pc # "thread"
  <2>1. \A c \in Cmds : task'[c] = IF Running(c) THEN [pc |-> "done"] ELSE task[c]
    BY DEF Crash, Reset
  <2> QED
    BY <2>1 DEF Running
<1>2. \A c \in Cmds : dest'[c]["MESSAGE_THREAD_ID"] = Absent
  BY DEF Crash, Reset, Nowhere, Topic
<1> QED
  BY <1>1, <1>2 DEF MessageInv, Unsent, ReadOnce, OneDestination, Sent, Is

\* A command comes.
LEMMA MessageDeliver ==
  ASSUME Typed, MessageInv, NEW c \in Cmds, NEW o \in Menu[c], Deliver(c, o)
  PROVE  MessageInv'
<1>1. /\ task[c].pc = "none" /\ UNCHANGED <<conf, destVars>> /\ mixed \subseteq mixed'
      /\ \A d \in Cmds \ {c} : task'[d] = task[d]
  BY BeginTyped DEF Deliver, DeliverSave, DeliverOther, Is
<1>2. task'[c].pc \in {"save", "module", "push", "done"}
  <2>1. \/ task'[c] = [pc |-> "save", order |-> o, cfg |-> sess, todo |-> {}]
        \/ task'[c] = [pc |-> "module", order |-> o, cfg |-> sess, todo |-> {}]
        \/ task'[c] = [pc |-> "push", order |-> o, cfg |-> sess, todo |-> {}]
        \/ task'[c] = [pc |-> "done"]
    BY BeginTyped, Zenon
  <2> QED
    BY <2>1
<1>3. \A i : HalfStored(i)' => HalfStored(i)
  BY <1>1, <1>2 DEF HalfStored, Is
<1>4. \A d \in Cmds : Is(d, "thread")' => SameAddress(d)
  BY <1>1, <1>2, <1>3 DEF SameAddress, Is
<1> QED
  BY <1>1, <1>2, <1>4, MessageFrame DEF destVars

\* A goroutine that reads and stores no address goes on or ends.
LEMMA MessageOther ==
  ASSUME Typed, MessageInv, NEW c \in Cmds, AfterSave(c) \/ EndModule(c) \/ QueueTrend(c)
  PROVE  MessageInv'
<1>1. CommandStep(c) /\ UNCHANGED <<conf, mixed, destVars>>
  BY DEF CommandStep, AfterSave, EndModule, QueueTrend
<1>2. \A d \in Cmds \ {c} : task'[d] = task[d]
  BY <1>1, GoroutineStep
<1>3. /\ task'[c].pc \in {"done", "map", "queued"}
      /\ task'[c].pc = "map" => task'[c].todo = Topic
  <2>1. task[c].pc \notin {"map", "push", "thread"}
    BY DEF AfterSave, EndModule, QueueTrend, Is
  <2>2. \/ task'[c] = [pc |-> "done"]
        \/ Becomes(c, "map", Topic) \/ Becomes(c, "queued", task[c].todo) \/ task[c].pc = "thread"
    BY <1>1, <2>1, GoroutineStep DEF Is
  <2>3. \A pc, ks : Becomes(c, pc, ks) => task'[c].pc = pc /\ task'[c].todo = ks
    BY DEF Becomes
  <2>4. [pc |-> "done"].pc = "done"
    OBVIOUS
  <2> QED
    BY <2>1, <2>2, <2>3, <2>4
<1>4. \A i : HalfStored(i)' => HalfStored(i)
  BY <1>2, <1>3 DEF HalfStored, Is
<1>5. \A d \in Cmds : Is(d, "thread")' => SameAddress(d)
  BY <1>1, <1>2, <1>3, <1>4 DEF SameAddress, Is
<1>6. \A d \in Cmds : task'[d].pc \in {"none", "push", "thread"} => task[d].pc \in {"none", "push", "thread"}
  BY <1>2, <1>3
<1> QED
  BY <1>1, <1>5, <1>6, MessageFrame DEF destVars

\* A set_topic stores a half: messages between their reads are marked, and no
\* other session's Config is touched.
LEMMA MessageStore ==
  ASSUME Typed, MessageInv, NEW c \in Cmds, NEW k \in Topic, StoreRaw(c, k)
  PROVE  MessageInv'
<1> DEFINE i == task[c].cfg
<1>1. /\ CommandStep(c) /\ UNCHANGED <<mixed, dest>> /\ crossed' = crossed \cup Reading(c)
      /\ Is(c, "map")
  BY DEF CommandStep, StoreRaw
<1>2. \A d \in Cmds \ {c} : task'[d] = task[d]
  BY <1>1, GoroutineStep
<1>3. i \in Sessions /\ \A j \in Sessions \ {i} : conf'[j] = conf[j]
  BY <1>1, GoroutineStep DEF StoreRaw, Typed, TypeOK
<1>4. task'[c].pc \in {"done", "map"} /\ (task'[c].pc = "map" => task'[c].cfg = i)
  <2>1. task'[c] = [pc |-> "done"] \/ \E ks : Becomes(c, "map", ks)
    BY <1>1, GoroutineStep DEF Is
  <2>2. \A ks : Becomes(c, "map", ks) => task'[c].pc = "map" /\ task'[c].cfg = i
    BY DEF Becomes
  <2>3. [pc |-> "done"].pc = "done"
    OBVIOUS
  <2> QED
    BY <2>1, <2>2, <2>3
<1>5. ASSUME NEW d \in Cmds, Is(d, "thread")', d \notin crossed'
      PROVE  SameAddress(d)
  <2>1. d # c /\ Is(d, "thread") /\ task'[d] = task[d] /\ task[d].cfg # i
    BY <1>1, <1>2, <1>4, <1>5 DEF Is, Reading
  <2>2. task[d].cfg \in Sessions
    BY <2>1, GoroutineFacts DEF Is, Typed, TypeOK, Active
  <2>3. conf'[task[d].cfg] = conf[task[d].cfg]
    BY <1>3, <2>1, <2>2
  <2>4. HalfStored(task[d].cfg)' => HalfStored(task[d].cfg)
    BY <1>2, <1>4, <2>1 DEF HalfStored, Is
  <2> QED
    BY <1>1, <2>1, <2>3, <2>4 DEF SameAddress
<1>6. \A d \in Cmds : task'[d].pc \in {"none", "push", "thread"} => task[d].pc \in {"none", "push", "thread"}
  BY <1>2, <1>4
<1> HIDE DEF i
<1> QED
  BY <1>1, <1>5, <1>6, MessageFrame

\* A half of the address is read.  After the first, the message has what the
\* Config has; the second makes it whole, as the Config is.
LEMMA MessageRead ==
  ASSUME Typed, TopicInv, MessageInv, NEW c \in Cmds, ReadChat(c) \/ TGPushHTML(c)
  PROVE  MessageInv'
<1> DEFINE i == task[c].cfg
<1>1. CommandStep(c) /\ UNCHANGED <<conf, mixed>>
  BY DEF CommandStep, ReadChat, TGPushHTML
<1>2. /\ \A d \in Cmds \ {c} : task'[d] = task[d]
      /\ i \in Sessions
  BY <1>1, GoroutineStep
<1>3. /\ ~Is(c, "map")
      /\ \/ ReadChat(c) /\ Is(c, "push") /\ task'[c].pc = "thread" /\ task'[c].cfg = i
         \/ TGPushHTML(c) /\ Is(c, "thread") /\ task'[c].pc \in {"done", "trend"}
  <2>1. CASE ReadChat(c)
    <3>1. Is(c, "push")
      BY <2>1 DEF ReadChat
    <3>2. task' = [task EXCEPT ![c] = [task[c] EXCEPT !.pc = "thread"]] /\ task[c] \in Goroutines /\ task[c].pc \in Active
      BY <1>1, <2>1, GoroutineStep DEF ReadChat, Goto, Typed, TypeOK
    <3>3. task'[c] = [pc |-> "thread", order |-> task[c].order, cfg |-> task[c].cfg, todo |-> task[c].todo]
      <4>1. "thread" \in Active /\ {} \in SUBSET Topic
        BY DEF Active
      <4>2. [task[c] EXCEPT !.pc = "thread"] = [pc |-> "thread", order |-> task[c].order, cfg |-> task[c].cfg, todo |-> task[c].todo]
        BY <3>2, <4>1, GotoTyped
      <4> QED
        BY <3>2, <4>2 DEF Typed, TypeOK
    <3> QED
      BY <2>1, <3>1, <3>3 DEF Is
  <2>2. CASE TGPushHTML(c)
    <3>1. Is(c, "thread")
      BY <2>2 DEF TGPushHTML
    <3>2. task'[c] = [pc |-> "done"] \/ Becomes(c, "trend", task[c].todo)
      BY <1>1, <3>1, GoroutineStep DEF Is
    <3>3. Becomes(c, "trend", task[c].todo) => task'[c].pc = "trend"
      BY DEF Becomes
    <3>4. [pc |-> "done"].pc = "done"
      OBVIOUS
    <3> QED
      BY <2>2, <3>1, <3>2, <3>3, <3>4 DEF Is
  <2> QED
    BY <2>1, <2>2
<1>4. PICK k \in Topic : /\ ReadHalf(c, k)
                         /\ ReadChat(c) => k = "TG_DEST_CHAT_ID"
                         /\ TGPushHTML(c) => k = "MESSAGE_THREAD_ID"
  <2>1. Is(c, "push") => ~TGPushHTML(c)
    BY DEF TGPushHTML, Is
  <2>2. Is(c, "thread") => ~ReadChat(c)
    BY DEF ReadChat, Is
  <2> QED
    BY <1>3, <2>1, <2>2 DEF ReadChat, TGPushHTML, Topic
<1>5. /\ \A d \in Cmds \ {c} : dest'[d] = dest[d]
      /\ dest'[c][k] = conf[i].topic[k]
      /\ \A l \in Topic \ {k} : dest'[c][l] = dest[c][l]
  BY <1>2, <1>4, ReadHalfTyped DEF Typed, Config
<1>6. crossed' = IF i \in mixed \/ HalfStored(i) THEN crossed \cup {c} ELSE crossed
  BY <1>4 DEF ReadHalf
<1>7. crossed \subseteq crossed'
  BY <1>6
<1>8. \A j : HalfStored(j)' <=> HalfStored(j)
  <2>1. ~Is(c, "map")'
    BY <1>3 DEF Is
  <2> QED
    BY <1>2, <1>3, <2>1 DEF HalfStored, Is
<1> HIDE DEF i
<1>9. ASSUME NEW d \in Cmds \ {c}
      PROVE  /\ task'[d] = task[d] /\ dest'[d] = dest[d]
             /\ Sent(d)' <=> Sent(d)
             /\ conf'[task[d].cfg] = conf[task[d].cfg]
             /\ d \in crossed => d \in crossed'
  BY <1>1, <1>2, <1>5, <1>7 DEF Sent
<1>10. CASE ReadChat(c)
  <2>1. k = "TG_DEST_CHAT_ID" /\ task'[c].pc = "thread" /\ task'[c].cfg = i /\ task[c].pc = "push"
    BY <1>3, <1>4, <1>10 DEF TGPushHTML, Is
  <2>2. ~Sent(c)'
    <3>1. ~Sent(c)
      BY <2>1 DEF MessageInv, Unsent
    <3>2. dest'[c]["MESSAGE_THREAD_ID"] = dest[c]["MESSAGE_THREAD_ID"]
      BY <1>5, <2>1 DEF Topic
    <3> QED
      BY <3>1, <3>2 DEF Sent
  <2>3. Unsent'
    BY <1>9, <2>2 DEF MessageInv, Unsent
  <2>4. OneDestination'
    BY <1>9, <2>2 DEF MessageInv, OneDestination
  <2>5. ASSUME c \notin crossed', i \notin mixed
        PROVE  dest'[c]["TG_DEST_CHAT_ID"] = conf'[i].topic["TG_DEST_CHAT_ID"] /\ ~HalfStored(i)
    BY <1>1, <1>5, <1>6, <2>1, <2>5
  <2>6. ReadOnce'
    <3> SUFFICES ASSUME NEW d \in Cmds, task'[d].pc = "thread", d \notin crossed', task'[d].cfg \notin mixed'
                 PROVE  /\ dest'[d]["TG_DEST_CHAT_ID"] = conf'[task'[d].cfg].topic["TG_DEST_CHAT_ID"]
                        /\ ~HalfStored(task[d].cfg)'
      BY DEF ReadOnce, Is, Config
    <3>1. CASE d = c
      BY <1>1, <1>8, <2>1, <2>5, <3>1
    <3>2. CASE d # c
      BY <1>1, <1>8, <1>9, <3>2 DEF MessageInv, ReadOnce, Is, Config
    <3> QED
      BY <3>1, <3>2
  <2> QED
    BY <2>3, <2>4, <2>6 DEF MessageInv
<1>11. CASE TGPushHTML(c)
  <2>1. k = "MESSAGE_THREAD_ID" /\ task'[c].pc \in {"done", "trend"} /\ task[c].pc = "thread"
    BY <1>3, <1>4, <1>11 DEF ReadChat, Is
  <2>2. ASSUME c \notin crossed'
        PROVE  Whole(dest[c])'
    <3>1. c \notin crossed /\ i \notin mixed /\ ~HalfStored(i)
      BY <1>6, <1>7, <2>2
    <3>2. dest[c]["TG_DEST_CHAT_ID"] = conf[i].topic["TG_DEST_CHAT_ID"]
      BY <2>1, <3>1 DEF MessageInv, ReadOnce, Is, Config, i
    <3>3. Whole(conf[i].topic)
      BY <1>2, <3>1 DEF TopicInv, WholeConfigs
    <3>4. \A l \in Topic : dest'[c][l] = conf[i].topic[l]
      BY <1>5, <2>1, <3>2 DEF Topic
    <3> QED
      BY <3>3, <3>4 DEF Whole
  <2>3. Unsent'
    BY <1>9, <2>1 DEF MessageInv, Unsent
  <2>4. OneDestination'
    <3>1. \A d \in Cmds \ {c} : Sent(d)' => Whole(dest[d])' \/ d \in crossed'
      BY <1>9 DEF MessageInv, OneDestination, Whole
    <3> QED
      BY <2>2, <3>1 DEF OneDestination
  <2>5. ReadOnce'
    <3> SUFFICES ASSUME NEW d \in Cmds, task'[d].pc = "thread", d \notin crossed', task'[d].cfg \notin mixed'
                 PROVE  /\ dest'[d]["TG_DEST_CHAT_ID"] = conf'[task'[d].cfg].topic["TG_DEST_CHAT_ID"]
                        /\ ~HalfStored(task[d].cfg)'
      BY DEF ReadOnce, Is, Config
    <3>1. d # c
      BY <2>1
    <3> QED
      BY <1>1, <1>8, <1>9, <3>1 DEF MessageInv, ReadOnce, Is, Config
  <2> QED
    BY <2>3, <2>4, <2>5 DEF MessageInv
<1> QED
  BY <1>10, <1>11

LEMMA MessageStep ==
  ASSUME Typed, TopicInv, MessageInv, [Next]_vars
  PROVE  MessageInv'
<1>1. CASE \/ Start \/ AddressSaved \/ Break \/ TakeTrends \/ WriteTrend \/ InsertTrend
           \/ Tick \/ DailyReport \/ RoundStep \/ UNCHANGED vars \/ \E p \in Savers : Saving(p)
  <2>1. UNCHANGED <<task, destVars, conf, mixed>>
    BY <1>1 DEF Start, AddressSaved, Break, TakeTrends, WriteTrend, InsertTrend,
                Tick, DailyReport, RoundStep, Choose, EndRound, Saving, vars, agentVars
  <2> QED
    BY <2>1, MessageElsewhere
<1>2. ASSUME NEW c \in Cmds, CommandStep(c)
      PROVE  MessageInv'
  BY <1>2, MessageOther, MessageStore, MessageRead DEF CommandStep
<1>3. ASSUME NEW c \in Cmds, NEW o \in Menu[c], Deliver(c, o)
      PROVE  MessageInv'
  BY <1>3, MessageDeliver
<1>4. CASE Crash \/ Connect \/ EndSession
  BY <1>4, MessageCrash, MessageSession
<1> QED
  BY <1>1, <1>2, <1>3, <1>4 DEF Next, ClientStep

\* Every message goes to the chat and the thread of one binding, but for those
\* that a set_topic of their own session met - it stored a key between the two
\* reads of the address, or was between its two assignments at one of them -
\* and those of a session in which two set_topic had overlapped.  No number of
\* other sessions, failed saves, torn files and crashes does it.
\* (tg.go:15, 26, agent/config.go:90-91)
THEOREM MessagesInOnePlace == Spec => []OneDestination
<1>1. Init => MessageInv
  <2> SUFFICES ASSUME Init PROVE MessageInv
    OBVIOUS
  <2>1. \A c \in Cmds : task[c].pc = "none" /\ dest[c]["MESSAGE_THREAD_ID"] = Absent
    BY DEF Init, Idle, Nowhere, Topic
  <2> QED
    BY <2>1 DEF MessageInv, Unsent, ReadOnce, OneDestination, Sent, Is
<1>2. Typed /\ TopicInv /\ MessageInv /\ [Next]_vars => MessageInv'
  BY MessageStep
<1>3. MessageInv => OneDestination
  BY DEF MessageInv
<1> QED
  BY <1>1, <1>2, <1>3, TypedInductive, TopicInductive, PTL DEF Spec
=============================================================================
