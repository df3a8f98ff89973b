----------------------------- MODULE DialogProofs -----------------------------
(***************************************************************************)
(* Theorems about Dialog and the deployments of Nginx it runs, for any     *)
(* number of messages, owners and domains: type correctness, that no site  *)
(* waits for a certificate which is not there, and that site, address,     *)
(* webhook and secret are what the owner was told.                         *)
(***************************************************************************)
EXTENDS Dialog, TLAPS

\* An address is saved by a goroutine whose deployment has ended.
SavesDeployed == \A p \in Msgs : pc[p] \in {"hook", "mode"} => step[p] = "end"

Typed == TypeOK /\ SavesDeployed

-----------------------------------------------------------------------------
(* Type correctness.                                                       *)

\* The constants' facts the proofs use.
LEMMA Constants ==
  /\ Domains \subseteq Texts /\ Old \in Domains /\ MaxFaults \in Nat /\ MaxCrashes \in Nat
  /\ Given \subseteq [Owners -> Domains \cup {None, "domain"}]
BY NginxAssumption, DialogAssumption

\* The initial states are typed.
LEMMA InitTyped == Init => Typed
<1> SUFFICES ASSUME Init PROVE Typed
  OBVIOUS
<1>1. Plain(Old) \in Contents
  BY Constants DEF Contents
<1>2. NginxTypeOK
  BY <1>1, Constants DEF Init, NginxInit, NginxTypeOK, Contents
<1>3. hook \in [dom : Domains \cup {None}, sec : Secrets \cup {None}]
  BY Constants DEF Init, NoHook, Secrets
<1>4. nginx \in [Owners -> Domains \cup {None, "domain"}]
  BY Constants DEF Init
<1>5. base \in Domains \cup {None} /\ secret \in Secrets \cup {None} /\ mode \in {"polling", "webhook"}
  BY Constants DEF Init, Secrets
<1>6. TypeOK
  <2>1. msg \in [Msgs -> [owner : Owners, text : Texts] \cup {None}]
    BY DEF Init
  <2>2. /\ pc \in [Msgs -> {"none", "dispatch", "answer", "deploy", "hook", "mode", "done"}]
        /\ st \in [Msgs -> Domains \cup {None, "domain"}]
        /\ sec \in [Msgs -> Secrets \cup {None}]
    BY DEF Init
  <2>3. /\ up \in BOOLEAN /\ refused \in BOOLEAN /\ inbound \in BOOLEAN
        /\ polled \subseteq Msgs /\ mixed \subseteq Msgs
    BY Zenon DEF Init
  <2>5. crashes \in 0..MaxCrashes
    BY Constants DEF Init
  <2>4. \A p \in Msgs : pc[p] = "none"
    BY DEF Init
  <2> QED
    BY <1>2, <1>3, <1>4, <1>5, <2>1, <2>2, <2>3, <2>4, <2>5 DEF TypeOK
<1> QED
  BY <1>6 DEF Init, Typed, SavesDeployed

\* The two halves of Nginx's types: the machine, and the goroutines.
HostTyped ==
  /\ host \in [sites : BOOLEAN, links : BOOLEAN, ssl : BOOLEAN]
  /\ conf \in Contents /\ site \in Contents \cup {Link}
  /\ certs \subseteq Domains
  /\ faults \in 0..MaxFaults

WorkTyped ==
  /\ step \in [Msgs -> Steps \cup {"none"}]
  /\ dom \in [Msgs -> Domains \cup {"none"}]
  /\ tls \in [Msgs -> BOOLEAN]
  /\ answer \in [Msgs -> Answers \cup {"none"}]
  /\ \A p \in Msgs : step[p] # "none" => dom[p] \in Domains
  /\ \A p \in Msgs : step[p] = "end" => answer[p] \in Answers

LEMMA Halves == NginxTypeOK <=> HostTyped /\ WorkTyped
BY DEF NginxTypeOK, HostTyped, WorkTyped

\* A goroutine goes on with its deployment, or returns from it.
LEMMA WorkGoesOn ==
  ASSUME WorkTyped, NEW p \in Msgs, NEW from, from # "none",
         \/ \E to \in Steps \ {"end"} : Goes(p, from, to)
         \/ \E what \in Answers : Returns(p, from, what)
  PROVE  WorkTyped' /\ \A q \in Msgs \ {p} : step'[q] = step[q]
<1>1. CASE \E to \in Steps \ {"end"} : Goes(p, from, to)
  BY <1>1 DEF Goes, WorkTyped
<1>2. CASE \E what \in Answers : Returns(p, from, what)
  BY <1>2 DEF Returns, WorkTyped, Steps
<1> QED
  BY <1>1, <1>2

\* A failed write leaves the machine typed.
LEMMA FailureTyped == HostTyped /\ WriteFails => HostTyped'
BY Constants DEF HostTyped, WriteFails, Contents

\* A step of a deployment keeps Nginx's types, and only its own goroutine moves.
LEMMA DeployTyped ==
  ASSUME NginxTypeOK, NEW p \in Msgs, DeployStep(p)
  PROVE  NginxTypeOK' /\ \A q \in Msgs \ {p} : step'[q] = step[q]
<1> DEFINE Moves == WorkTyped' /\ \A q \in Msgs \ {p} : step'[q] = step[q]
<1>0. HostTyped /\ WorkTyped
  BY Halves
<1>1. SUFFICES HostTyped' /\ Moves
  BY Halves DEF NginxTypeOK, HostTyped, WorkTyped
<1> HIDE DEF Moves
<1>2. ASSUME NEW from, from # "none",
             \/ \E to \in Steps \ {"end"} : Goes(p, from, to)
             \/ \E what \in Answers : Returns(p, from, what)
      PROVE  Moves /\ dom[p] \in Domains
  <2>1. Moves
    BY <1>0, <1>2, WorkGoesOn DEF Moves
  <2> QED
    BY <1>0, <1>2, <2>1 DEF Goes, Returns, WorkTyped
<1>3. ASSUME dom[p] \in Domains
      PROVE  Plain(dom[p]) \in Contents /\ TLS(dom[p]) \in Contents
  BY <1>3 DEF Contents
<1>4. UNCHANGED hostVars => HostTyped'
  BY <1>0 DEF HostTyped, hostVars
<1> USE DEF Steps, Answers
<1>5. CASE WritePlain(p)
  <2>1. Moves /\ dom[p] \in Domains
    BY <1>2, <1>5 DEF WritePlain
  <2> QED
    BY <1>0, <1>3, <1>5, <2>1, FailureTyped DEF WritePlain, HostTyped
<1>6. CASE Enable(p)
  <2>1. Moves /\ dom[p] \in Domains
    BY <1>2, <1>6 DEF Enable
  <2> QED
    BY <1>0, <1>3, <1>6, <2>1, Constants DEF Enable, HostTyped, Contents
<1>7. CASE Test(p)
  BY <1>2, <1>4, <1>7 DEF Test
<1>8. CASE Reload(p)
  BY <1>2, <1>4, <1>8 DEF Reload
<1>9. CASE Certbot(p)
  <2>1. Moves /\ dom[p] \in Domains
    BY <1>2, <1>9 DEF Certbot
  <2> QED
    BY <1>0, <1>4, <1>9, <2>1 DEF Certbot, HostTyped
<1>10. CASE WriteTLS(p)
  <2>1. Moves /\ dom[p] \in Domains
    BY <1>2, <1>10 DEF WriteTLS
  <2> QED
    BY <1>0, <1>3, <1>10, <2>1, FailureTyped DEF WriteTLS, HostTyped
<1>11. CASE WriteEnabled(p)
  <2>1. Moves /\ dom[p] \in Domains
    BY <1>2, <1>11 DEF WriteEnabled
  <2>2. CASE site = Link /\ WriteFails
    BY <1>0, <2>1, <2>2, FailureTyped
  <2>3. CASE ~(site = Link /\ WriteFails)
    BY <1>0, <1>3, <1>11, <2>1, <2>3, Constants DEF WriteEnabled, HostTyped, Contents
  <2> QED
    BY <2>2, <2>3
<1>12. CASE Retest(p)
  BY <1>2, <1>4, <1>12 DEF Retest
<1>13. CASE Rollback(p)
  <2>1. Moves /\ dom[p] \in Domains
    BY <1>2, <1>13 DEF Rollback
  <2> QED
    BY <1>0, <1>3, <1>13, <2>1, FailureTyped DEF Rollback, HostTyped
<1> QED
  BY <1>5, <1>6, <1>7, <1>8, <1>9, <1>10, <1>11, <1>12, <1>13 DEF DeployStep

\* A deployment starts, and is forgotten with its goroutine or the process.
LEMMA StartTyped ==
  ASSUME NginxTypeOK, NEW p \in Msgs, NEW d \in Domains, NEW enableTLS \in BOOLEAN,
         Start(p, d, enableTLS)
  PROVE  NginxTypeOK'
<1>1. HostTyped'
  BY Halves DEF Start, HostTyped, hostVars
<1>2. WorkTyped'
  BY Halves DEF Start, WorkTyped, Steps
<1> QED
  BY <1>1, <1>2 DEF NginxTypeOK, HostTyped, WorkTyped

LEMMA ForgetTyped ==
  ASSUME WorkTyped, NEW p \in Msgs, Forget(p)
  PROVE  WorkTyped' /\ \A q \in Msgs \ {p} : step'[q] = step[q]
BY DEF Forget, WorkTyped

LEMMA CutTyped == NginxTypeOK /\ Cut => NginxTypeOK'
<1> SUFFICES ASSUME NginxTypeOK, Cut PROVE NginxTypeOK'
  OBVIOUS
<1>1. HostTyped'
  BY Halves DEF Cut, HostTyped, Contents
<1>2. WorkTyped'
  BY DEF Cut, NoDeployment, WorkTyped
<1> QED
  BY <1>1, <1>2 DEF NginxTypeOK, HostTyped, WorkTyped

\* The types of Dialog's own state: of the messages, and of the addresses.
MessagesTyped ==
  /\ nginx \in [Owners -> Domains \cup {None, "domain"}]
  /\ msg \in [Msgs -> [owner : Owners, text : Texts] \cup {None}]
  /\ pc \in [Msgs -> {"none", "dispatch", "answer", "deploy", "hook", "mode", "done"}]
  /\ st \in [Msgs -> Domains \cup {None, "domain"}]
  /\ \A p \in Msgs : pc[p] \in {"dispatch", "answer"} => msg[p] \in [owner : Owners, text : Texts]
  /\ polled \subseteq Msgs

AddressTyped ==
  /\ \A p \in Msgs : pc[p] \in {"hook", "mode"} => sec[p] \in Secrets
  /\ base \in Domains \cup {None} /\ mode \in {"polling", "webhook"}
  /\ secret \in Secrets \cup {None} /\ sec \in [Msgs -> Secrets \cup {None}]
  /\ hook \in [dom : Domains \cup {None}, sec : Secrets \cup {None}]

RestTyped ==
  /\ up \in BOOLEAN /\ refused \in BOOLEAN /\ inbound \in BOOLEAN
  /\ crashes \in 0..MaxCrashes
  /\ mixed \subseteq Msgs

LEMMA Parts ==
  Typed <=> NginxTypeOK /\ MessagesTyped /\ AddressTyped /\ RestTyped /\ SavesDeployed
BY DEF Typed, TypeOK, MessagesTyped, AddressTyped, RestTyped

LEMMA PartsNext ==
  NginxTypeOK' /\ MessagesTyped' /\ AddressTyped' /\ RestTyped' /\ SavesDeployed' => Typed'
BY DEF Typed, TypeOK, MessagesTyped, AddressTyped, RestTyped

LEMMA NginxUnchanged == NginxTypeOK /\ UNCHANGED nginxVars => NginxTypeOK'
BY DEF NginxTypeOK, nginxVars, hostVars, deployVars, Enabled, Passes

\* The messages' steps.
LEMMA ArrivesTyped ==
  ASSUME Typed, NEW p \in Msgs, NEW o \in Owners, NEW t \in Texts,
         Polled(p, o, t) \/ Posted(p, o, t)
  PROVE  Typed'
<1>0. NginxTypeOK /\ MessagesTyped /\ AddressTyped /\ RestTyped /\ SavesDeployed
  BY Parts
<1>1. Arrives(p, o, t)
  BY DEF Polled, Posted
<1>2. NginxTypeOK'
  BY <1>0, <1>1, NginxUnchanged DEF Arrives
<1>3. polled' \subseteq Msgs
  BY <1>0 DEF Polled, Posted, MessagesTyped
<1>4. MessagesTyped'
  BY <1>0, <1>1, <1>3 DEF Arrives, Goto, MessagesTyped
<1>5. mode' \in {"polling", "webhook"} /\ inbound' \in BOOLEAN
  <2>1. CASE Polled(p, o, t)
    BY <1>0, <2>1 DEF Polled, AddressTyped, RestTyped
  <2>2. CASE Posted(p, o, t)
    <3>1. CASE base # None /\ ~inbound
      BY <2>2, <3>1 DEF Posted
    <3>2. CASE ~(base # None /\ ~inbound)
      BY <1>0, <2>2, <3>2 DEF Posted, AddressTyped, RestTyped
    <3> QED
      BY <3>1, <3>2
  <2> QED
    BY <2>1, <2>2
<1>6. AddressTyped'
  BY <1>0, <1>1, <1>5 DEF Arrives, Goto, MessagesTyped, AddressTyped
<1>7. RestTyped'
  BY <1>0, <1>1, <1>5 DEF Arrives, RestTyped, history
<1>8. SavesDeployed'
  BY <1>0, <1>1 DEF Arrives, Goto, MessagesTyped, SavesDeployed, nginxVars, deployVars
<1> QED
  BY <1>2, <1>4, <1>6, <1>7, <1>8, PartsNext

LEMMA DispatchTyped ==
  ASSUME Typed, NEW p \in Msgs, Dispatch(p)
  PROVE  Typed'
<1>0. NginxTypeOK /\ MessagesTyped /\ AddressTyped /\ RestTyped /\ SavesDeployed
  BY Parts
<1>1. nginx[msg[p].owner] \in Domains \cup {None, "domain"}
  BY <1>0 DEF Dispatch, MessagesTyped
<1>2. NginxTypeOK'
  BY <1>0, NginxUnchanged DEF Dispatch
<1>3. MessagesTyped' /\ \A q \in Msgs : pc'[q] \in {"hook", "mode"} => pc'[q] = pc[q]
  <2>1. CASE nginx[msg[p].owner] = None /\ msg[p].text # Open
    BY <1>0, <2>1 DEF Dispatch, Ends, Read, Goto, MessagesTyped
  <2>2. CASE ~(nginx[msg[p].owner] = None /\ msg[p].text # Open)
    BY <1>0, <1>1, <2>2 DEF Dispatch, Goto, MessagesTyped
  <2> QED
    BY <2>1, <2>2
<1>4. AddressTyped'
  BY <1>0, <1>3 DEF Dispatch, AddressTyped, cfgVars
<1>5. RestTyped'
  BY <1>0 DEF Dispatch, RestTyped, cfgVars, history
<1>6. SavesDeployed'
  BY <1>0, <1>3 DEF Dispatch, SavesDeployed, nginxVars, deployVars
<1> QED
  BY <1>2, <1>3, <1>4, <1>5, <1>6, PartsNext

LEMMA ReplyTyped ==
  ASSUME Typed, NEW p \in Msgs, NEW state \in Domains \cup {None, "domain"}, Reply(p, state)
  PROVE  Typed'
<1>0. NginxTypeOK /\ MessagesTyped /\ AddressTyped /\ RestTyped /\ SavesDeployed
  BY Parts
<1>1. MessagesTyped' /\ \A q \in Msgs : pc'[q] \in {"hook", "mode"} => pc'[q] = pc[q]
  BY <1>0 DEF Reply, Ends, Read, Goto, MessagesTyped
<1>2. AddressTyped' /\ RestTyped' /\ SavesDeployed'
  BY <1>0, <1>1 DEF Reply, AddressTyped, RestTyped, SavesDeployed, cfgVars, history, nginxVars, deployVars
<1> QED
  BY <1>0, <1>1, <1>2, NginxUnchanged, PartsNext DEF Reply

\* The last answer starts a deployment.
LEMMA AnswerTyped ==
  ASSUME Typed, NEW p \in Msgs, Answer(p)
  PROVE  Typed'
<1>0. NginxTypeOK /\ MessagesTyped /\ AddressTyped /\ RestTyped /\ SavesDeployed
  BY Parts
<1>1. CASE startNginxWizard(p)
  BY <1>1, ReplyTyped DEF startNginxWizard
<1>2. CASE CancelWizard(p)
  BY <1>2, ReplyTyped DEF CancelWizard
<1>3. CASE GiveDomain(p)
  <2> DEFINE state == IF msg[p].text \in Domains THEN msg[p].text ELSE nginx[msg[p].owner]
  <2>1. msg[p].owner \in Owners
    BY <1>0, <1>3 DEF GiveDomain, Reply, MessagesTyped
  <2>2. state \in Domains \cup {None, "domain"}
    BY <1>0, <2>1 DEF MessagesTyped
  <2>3. Reply(p, state)
    BY <1>3 DEF GiveDomain
  <2> QED
    BY <2>2, <2>3, ReplyTyped
<1>4. CASE Deploy(p)
  <2>1. NginxTypeOK'
    BY <1>0, <1>4, StartTyped DEF Deploy
  <2>2. MessagesTyped' /\ \A q \in Msgs : pc'[q] \in {"hook", "mode"} => q # p /\ pc'[q] = pc[q]
    BY <1>0, <1>4 DEF Deploy, Read, Goto, MessagesTyped
  <2>3. AddressTyped'
    BY <1>0, <1>4, <2>2 DEF Deploy, AddressTyped, cfgVars
  <2>4. RestTyped'
    BY <1>0, <1>4 DEF Deploy, RestTyped, cfgVars
  <2>5. SavesDeployed'
    BY <1>0, <1>4, <2>2 DEF Deploy, Start, SavesDeployed, NginxTypeOK
  <2> QED
    BY <2>1, <2>2, <2>3, <2>4, <2>5, PartsNext
<1> QED
  BY <1>1, <1>2, <1>3, <1>4 DEF Answer

\* The deployment, and what follows it.
LEMMA DeploymentTyped ==
  ASSUME Typed, NEW p \in Msgs, Deployment(p)
  PROVE  Typed'
<1>0. NginxTypeOK /\ MessagesTyped /\ AddressTyped /\ RestTyped /\ SavesDeployed
  BY Parts
<1>1. NginxTypeOK' /\ \A q \in Msgs \ {p} : step'[q] = step[q]
  BY <1>0, DeployTyped DEF Deployment
<1>2. MessagesTyped' /\ AddressTyped' /\ RestTyped'
  BY <1>0 DEF Deployment, MessagesTyped, AddressTyped, RestTyped, msgVars, cfgVars, history
<1>3. SavesDeployed'
  BY <1>0, <1>1 DEF Deployment, SavesDeployed, msgVars
<1> QED
  BY <1>1, <1>2, <1>3, PartsNext

LEMMA SaveBaseTyped ==
  ASSUME Typed, NEW p \in Msgs, SaveBase(p)
  PROVE  Typed'
<1>0. NginxTypeOK /\ MessagesTyped /\ AddressTyped /\ RestTyped /\ SavesDeployed
  BY Parts
<1>1. dom[p] \in Domains
  BY <1>0 DEF SaveBase, NginxTypeOK
<1>2. NginxTypeOK'
  BY <1>0, NginxUnchanged DEF SaveBase
<1>3. MessagesTyped'
  BY <1>0 DEF SaveBase, Goto, MessagesTyped
<1>4. (IF secret = None THEN p ELSE secret) \in Secrets
  BY <1>0 DEF AddressTyped, Secrets
<1>5. AddressTyped'
  BY <1>0, <1>1, <1>4 DEF SaveBase, Goto, MessagesTyped, AddressTyped
<1>6. RestTyped'
  BY <1>0 DEF SaveBase, RestTyped, history
<1>7. SavesDeployed'
  BY <1>0 DEF SaveBase, Goto, MessagesTyped, SavesDeployed, nginxVars, deployVars
<1> QED
  BY <1>2, <1>3, <1>5, <1>6, <1>7, PartsNext

LEMMA SetWebhookTyped ==
  ASSUME Typed, NEW p \in Msgs, SetWebhook(p)
  PROVE  Typed'
<1>0. NginxTypeOK /\ MessagesTyped /\ AddressTyped /\ RestTyped /\ SavesDeployed
  BY Parts
<1>1. hook' \in [dom : Domains \cup {None}, sec : Secrets \cup {None}]
  BY <1>0 DEF SetWebhook, Wanted, AddressTyped, SavesDeployed, NginxTypeOK
<1>2. MessagesTyped'
  BY <1>0 DEF SetWebhook, Goto, MessagesTyped
<1>3. AddressTyped'
  BY <1>0, <1>1 DEF SetWebhook, Goto, MessagesTyped, AddressTyped
<1>4. RestTyped'
  BY <1>0 DEF SetWebhook, RestTyped, history
<1>5. SavesDeployed'
  BY <1>0 DEF SetWebhook, Goto, MessagesTyped, SavesDeployed, nginxVars, deployVars
<1> QED
  BY <1>0, <1>2, <1>3, <1>4, <1>5, NginxUnchanged, PartsNext DEF SetWebhook

\* The owner is told, and the goroutine is done.
LEMMA TellTyped ==
  ASSUME Typed, NEW p \in Msgs, NEW saved, Tell(p, saved),
         UNCHANGED <<nginx, msg, st>>
  PROVE  /\ WorkTyped' /\ MessagesTyped' /\ SavesDeployed' /\ mixed' \subseteq Msgs
         /\ sec' \in [Msgs -> Secrets \cup {None}]
         /\ \A q \in Msgs : pc'[q] \in {"hook", "mode"} => sec'[q] \in Secrets
<1>0. NginxTypeOK /\ MessagesTyped /\ AddressTyped /\ RestTyped /\ SavesDeployed
  BY Parts
<1>1. WorkTyped' /\ \A q \in Msgs \ {p} : step'[q] = step[q]
  BY <1>0, Halves, ForgetTyped DEF Tell
<1>2. MessagesTyped' /\ \A q \in Msgs : pc'[q] \in {"hook", "mode"} => q # p /\ pc'[q] = pc[q]
  BY <1>0 DEF Tell, Ends, Goto, MessagesTyped
<1>3. sec' \in [Msgs -> Secrets \cup {None}] /\ \A q \in Msgs \ {p} : sec'[q] = sec[q]
  BY <1>0 DEF Tell, AddressTyped
<1>4. SavesDeployed'
  BY <1>0, <1>1, <1>2 DEF SavesDeployed
<1>5. mixed' \subseteq Msgs
  BY <1>0 DEF Tell, RestTyped
<1> QED
  BY <1>0, <1>1, <1>2, <1>3, <1>4, <1>5 DEF AddressTyped

LEMMA WizardTyped ==
  ASSUME Typed, NEW p \in Msgs, Wizard(p)
  PROVE  Typed'
<1>0. NginxTypeOK /\ MessagesTyped /\ AddressTyped /\ RestTyped /\ SavesDeployed
  BY Parts
<1>1. CASE GiveUp(p)
  <2>1. HostTyped'
    BY <1>0, <1>1, Halves DEF GiveUp, HostTyped, hostVars
  <2>2. NginxTypeOK' /\ MessagesTyped' /\ SavesDeployed'
    BY <1>1, <2>1, TellTyped DEF GiveUp, NginxTypeOK, HostTyped, WorkTyped
  <2>3. AddressTyped' /\ RestTyped'
    BY <1>0, <1>1, TellTyped DEF GiveUp, AddressTyped, RestTyped
  <2> QED
    BY <2>2, <2>3, PartsNext
<1>2. CASE SetWebhookFails(p)
  <2>1. sec[p] \in Secrets /\ dom[p] \in Domains
    BY <1>0, <1>2 DEF SetWebhookFails, AddressTyped, SavesDeployed, NginxTypeOK
  <2>2. hook' \in [dom : Domains \cup {None}, sec : Secrets \cup {None}]
    BY <1>0, <1>2, <2>1 DEF SetWebhookFails, Wanted, AddressTyped
  <2>3. HostTyped'
    BY <1>0, <1>2, Halves, Constants DEF SetWebhookFails, HostTyped
  <2>4. NginxTypeOK' /\ MessagesTyped' /\ SavesDeployed'
    BY <1>2, <2>3, TellTyped DEF SetWebhookFails, NginxTypeOK, HostTyped, WorkTyped
  <2>5. AddressTyped' /\ RestTyped'
    BY <1>0, <1>2, <2>1, <2>2, TellTyped DEF SetWebhookFails, AddressTyped, RestTyped
  <2> QED
    BY <2>4, <2>5, PartsNext
<1>3. CASE SaveMode(p)
  <2>1. sec[p] \in Secrets
    BY <1>0, <1>3 DEF SaveMode, AddressTyped
  <2>2. HostTyped'
    BY <1>0, <1>3, Halves DEF SaveMode, HostTyped, hostVars
  <2>3. NginxTypeOK' /\ MessagesTyped' /\ SavesDeployed'
    BY <1>3, <2>2, TellTyped DEF SaveMode, NginxTypeOK, HostTyped, WorkTyped
  <2>4. AddressTyped' /\ RestTyped'
    BY <1>0, <1>3, <2>1, TellTyped DEF SaveMode, AddressTyped, RestTyped
  <2> QED
    BY <2>3, <2>4, PartsNext
<1> QED
  BY <1>1, <1>2, <1>3, DispatchTyped, AnswerTyped, DeploymentTyped, SaveBaseTyped, SetWebhookTyped
  DEF Wizard

\* The process, and Telegram.
LEMMA ProcessTyped ==
  ASSUME Typed, Crash \/ StartWebhook \/ StartPolling \/ DeleteWebhook
  PROVE  Typed'
<1>0. NginxTypeOK /\ MessagesTyped /\ AddressTyped /\ RestTyped /\ SavesDeployed
  BY Parts
<1>1. CASE Crash
  <2>1. NginxTypeOK'
    BY <1>0, <1>1, CutTyped DEF Crash
  <2>2. MessagesTyped' /\ \A p \in Msgs : pc'[p] \notin {"dispatch", "answer", "deploy", "hook", "mode"}
    BY <1>0, <1>1 DEF Crash, Working, Busy, MessagesTyped
  <2>3. AddressTyped'
    BY <1>0, <1>1, <2>2 DEF Crash, AddressTyped
  <2>4. RestTyped'
    <3>1. crashes' \in 0..MaxCrashes
      BY <1>0, <1>1, Constants DEF Crash, RestTyped
    <3>2. up' \in BOOLEAN /\ inbound' \in BOOLEAN /\ mixed' \subseteq Msgs
      BY <1>1, Zenon DEF Crash
    <3>3. refused' \in BOOLEAN
      BY <1>0, <1>1 DEF Crash, RestTyped
    <3> QED
      BY <3>1, <3>2, <3>3 DEF RestTyped
  <2>5. SavesDeployed'
    BY <2>2 DEF SavesDeployed
  <2> QED
    BY <2>1, <2>2, <2>3, <2>4, <2>5, PartsNext
<1>2. CASE StartWebhook
  <2>1. secret' \in Secrets
    BY <1>0, <1>2 DEF StartWebhook, AddressTyped, Secrets
  <2>2. AddressTyped'
    BY <1>0, <1>2, <2>1 DEF StartWebhook, AddressTyped, msgVars
  <2>3. MessagesTyped' /\ SavesDeployed' /\ RestTyped'
    BY <1>0, <1>2 DEF StartWebhook, MessagesTyped, SavesDeployed, RestTyped, msgVars, history, nginxVars, deployVars
  <2> QED
    BY <1>0, <1>2, <2>2, <2>3, NginxUnchanged, PartsNext DEF StartWebhook
<1>3. CASE StartPolling
  <2>1. secret' \in Secrets \cup {None}
    BY <1>0, <1>3 DEF StartPolling, AddressTyped, Secrets
  <2>2. hook' \in [dom : Domains \cup {None}, sec : Secrets \cup {None}]
    BY <1>0, <1>3 DEF StartPolling, NoHook, AddressTyped
  <2>3. AddressTyped'
    BY <1>0, <1>3, <2>1, <2>2 DEF StartPolling, AddressTyped, msgVars
  <2>4. MessagesTyped' /\ SavesDeployed' /\ RestTyped'
    BY <1>0, <1>3 DEF StartPolling, MessagesTyped, SavesDeployed, RestTyped, msgVars, history, deployVars
  <2>5. HostTyped'
    BY <1>0, <1>3, Halves, Constants DEF StartPolling, HostTyped
  <2>6. WorkTyped'
    BY <1>0, <1>3, Halves DEF StartPolling, WorkTyped, deployVars
  <2> QED
    BY <2>3, <2>4, <2>5, <2>6, PartsNext DEF NginxTypeOK, HostTyped, WorkTyped
<1>4. CASE DeleteWebhook
  <2>1. hook' \in [dom : Domains \cup {None}, sec : Secrets \cup {None}]
    BY <1>4 DEF DeleteWebhook, NoHook
  <2>2. AddressTyped' /\ RestTyped'
    BY <1>0, <1>4, <2>1 DEF DeleteWebhook, AddressTyped, RestTyped, msgVars, history
  <2>3. MessagesTyped' /\ SavesDeployed'
    BY <1>0, <1>4 DEF DeleteWebhook, MessagesTyped, SavesDeployed, msgVars, nginxVars, deployVars
  <2> QED
    BY <1>0, <1>4, <2>2, <2>3, NginxUnchanged, PartsNext DEF DeleteWebhook
<1> QED
  BY <1>1, <1>2, <1>3, <1>4

LEMMA Stutters == Typed /\ UNCHANGED vars => Typed'
BY NginxUnchanged, Parts, PartsNext
DEF vars, msgVars, cfgVars, history, nginxVars, deployVars, MessagesTyped, AddressTyped, RestTyped, SavesDeployed

LEMMA TypedInductive == Spec => []Typed
<1>1. Typed /\ [Next]_vars => Typed'
  BY ArrivesTyped, WizardTyped, ProcessTyped, Stutters DEF Next
<1> QED
  BY <1>1, InitTyped, PTL DEF Spec

\* Every state the wizard and the deployments reach is of the types they
\* expect; in particular an answer never finds its message gone, and an
\* address that is saved is that of a deployment which has ended.
\* (handlers.go:927-1056)
THEOREM DialogTypeCorrect == Spec => []TypeOK
BY TypedInductive, PTL DEF Typed

-----------------------------------------------------------------------------
(* No 443 block without its certificate.                                   *)

\* Past certbot a deployment's certificate is there, and whatever file holds
\* a 443 block was written by such a one.
Certified ==
  /\ \A p \in Msgs : step[p] \in {"tls", "relink", "retest", "rollback"} => dom[p] \in certs
  /\ conf.kind = "tls" => conf.dom \in certs
  /\ site.kind = "tls" => site.dom \in certs

LEMMA Kinds ==
  /\ Missing.kind # "tls" /\ Empty.kind # "tls" /\ Link.kind # "tls"
  /\ \A d : Plain(d).kind # "tls" /\ TLS(d).dom = d
BY DEF Missing, Empty, Link, Plain, TLS

LEMMA InitCertified == Init => Certified
BY Kinds DEF Init, NginxInit, Certified

\* A goroutine that returns or goes on, the certificates growing.
LEMMA GoneOnCertified ==
  ASSUME NginxTypeOK, Certified, NEW p \in Msgs, NEW from, certs \subseteq certs',
         \/ \E to \in Steps : /\ Goes(p, from, to)
                              /\ to \in {"tls", "relink", "retest", "rollback"} => dom[p] \in certs'
         \/ \E what \in Answers : Returns(p, from, what)
  PROVE  \A q \in Msgs : step'[q] \in {"tls", "relink", "retest", "rollback"} => dom'[q] \in certs'
<1>1. CASE \E to \in Steps : /\ Goes(p, from, to)
                             /\ to \in {"tls", "relink", "retest", "rollback"} => dom[p] \in certs'
  BY <1>1 DEF Goes, NginxTypeOK, Certified
<1>2. CASE \E what \in Answers : Returns(p, from, what)
  BY <1>2 DEF Returns, NginxTypeOK, Certified
<1> QED
  BY <1>1, <1>2

\* The steps of a deployment: only certbot, whose failure ends it, leads to the 443 block.
LEMMA DeployCertified ==
  ASSUME NginxTypeOK, Certified, NEW p \in Msgs, DeployStep(p)
  PROVE  Certified'
<1> DEFINE Past == \A q \in Msgs : step'[q] \in {"tls", "relink", "retest", "rollback"} => dom'[q] \in certs'
<1> HIDE DEF Past
<1>1. ASSUME NEW from, certs \subseteq certs',
             \/ \E to \in Steps : /\ Goes(p, from, to)
                                  /\ to \in {"tls", "relink", "retest", "rollback"} => dom[p] \in certs'
             \/ \E what \in Answers : Returns(p, from, what)
      PROVE  Past
  BY <1>1, GoneOnCertified DEF Past
<1>2. ASSUME Past, UNCHANGED hostVars
      PROVE  Certified'
  BY <1>2 DEF Certified, Past, hostVars
<1>3. ASSUME Past, WriteFails
      PROVE  Certified'
  BY <1>3, Kinds DEF Certified, Past, WriteFails
<1> USE DEF Steps, Answers
<1>4. CASE WritePlain(p)
  <2>1. CASE Returns(p, "write", "failed") /\ WriteFails
    BY <1>1, <1>3, <2>1 DEF WriteFails
  <2>2. CASE Goes(p, "write", "enable") /\ conf' = Plain(dom[p]) /\ UNCHANGED <<host, site, certs, faults>>
    <3>1. Past
      BY <1>1, <2>2
    <3> QED
      BY <2>2, <3>1, Kinds DEF Certified, Past
  <2> QED
    BY <1>4, <2>1, <2>2 DEF WritePlain
<1>5. CASE Enable(p)
  <2>1. Past
    BY <1>1, <1>5 DEF Enable
  <2>2. site' = site \/ site' = Link \/ site' = Plain(dom[p]) \/ site' = Missing
    BY <1>5 DEF Enable
  <2> QED
    BY <1>5, <2>1, <2>2, Kinds DEF Enable, Certified, Past
<1>6. CASE Test(p)
  BY <1>1, <1>2, <1>6 DEF Test, hostVars
<1>7. CASE Reload(p)
  BY <1>1, <1>2, <1>7 DEF Reload, hostVars
<1>8. CASE Certbot(p)
  <2>1. CASE Returns(p, "certbot", "kept") /\ UNCHANGED hostVars
    BY <1>1, <1>2, <2>1 DEF hostVars
  <2>2. CASE /\ Goes(p, "certbot", "tls")
             /\ certs' = certs \cup {dom[p]}
             /\ UNCHANGED <<host, conf, site, faults>>
    <3>1. Past
      BY <1>1, <2>2
    <3> QED
      BY <2>2, <3>1 DEF Certified, Past
  <2> QED
    BY <1>8, <2>1, <2>2 DEF Certbot
<1>9. CASE WriteTLS(p)
  <2>1. CASE Returns(p, "tls", "kept") /\ WriteFails
    BY <1>1, <1>3, <2>1 DEF WriteFails
  <2>2. CASE /\ Goes(p, "tls", IF host.sites THEN "relink" ELSE "retest")
             /\ conf' = TLS(dom[p])
             /\ UNCHANGED <<host, site, certs, faults>>
    <3>1. dom[p] \in certs
      BY <2>2 DEF Goes, Certified
    <3>2. Past
      BY <1>1, <2>2, <3>1
    <3> QED
      BY <2>2, <3>1, <3>2, Kinds DEF Certified, Past
  <2> QED
    BY <1>9, <2>1, <2>2 DEF WriteTLS
<1>10. CASE WriteEnabled(p)
  <2>1. Goes(p, "relink", "retest") /\ dom[p] \in certs
    BY <1>10 DEF WriteEnabled, Goes, Certified
  <2>2. UNCHANGED certs
    BY <1>10 DEF WriteEnabled, WriteFails
  <2>3. Past
    BY <1>1, <2>1, <2>2
  <2>4. conf' \in {conf, Empty, TLS(dom[p])} /\ site' \in {site, Empty, TLS(dom[p])}
    BY <1>10 DEF WriteEnabled, WriteFails
  <2> QED
    BY <2>1, <2>2, <2>3, <2>4, Kinds DEF Certified, Past
<1>11. CASE Retest(p)
  <2>1. CASE Goes(p, "retest", "rollback")
    BY <1>1, <1>2, <1>11, <2>1 DEF Retest, hostVars, Goes, Certified
  <2>2. CASE Returns(p, "retest", "https")
    BY <1>1, <1>2, <1>11, <2>2 DEF Retest, hostVars
  <2> QED
    BY <1>11, <2>1, <2>2 DEF Retest
<1>12. CASE Rollback(p)
  <2>1. Past
    BY <1>1, <1>12 DEF Rollback, WriteFails
  <2>2. CASE WriteFails
    BY <1>3, <2>1, <2>2
  <2>3. CASE conf' = Plain(dom[p]) /\ UNCHANGED <<host, site, certs, faults>>
    BY <2>1, <2>3, Kinds DEF Certified, Past
  <2> QED
    BY <1>12, <2>2, <2>3 DEF Rollback
<1> QED
  BY <1>4, <1>5, <1>6, <1>7, <1>8, <1>9, <1>10, <1>11, <1>12 DEF DeployStep

\* Of the other steps of a goroutine only three touch a deployment: its start,
\* and the ends that forget it.
LEMMA WizardCertified ==
  ASSUME Typed, Certified, NEW p \in Msgs, Wizard(p)
  PROVE  Certified'
<1>0. NginxTypeOK
  BY DEF Typed, TypeOK
<1>1. CASE Deployment(p)
  BY <1>0, <1>1, DeployCertified DEF Deployment
<1>2. CASE Deploy(p)
  BY <1>0, <1>2 DEF Deploy, Start, hostVars, NginxTypeOK, Certified
<1>3. CASE Dispatch(p) \/ startNginxWizard(p) \/ CancelWizard(p) \/ GiveDomain(p) \/ SaveBase(p) \/ SetWebhook(p)
  <2>1. UNCHANGED nginxVars
    BY <1>3 DEF Dispatch, startNginxWizard, CancelWizard, GiveDomain, Reply, SaveBase, SetWebhook
  <2> QED
    BY <2>1 DEF nginxVars, hostVars, deployVars, Certified
<1>4. CASE GiveUp(p) \/ SetWebhookFails(p) \/ SaveMode(p)
  <2>1. Forget(p) /\ UNCHANGED <<conf, site, certs>>
    BY <1>4 DEF GiveUp, SetWebhookFails, SaveMode, Tell, hostVars
  <2> QED
    BY <1>0, <2>1 DEF Forget, NginxTypeOK, Certified
<1> QED
  BY <1>1, <1>2, <1>3, <1>4 DEF Wizard, Answer

LEMMA ElsewhereCertified ==
  ASSUME Certified,
         \/ \E p \in Msgs, o \in Owners, t \in Texts : Polled(p, o, t) \/ Posted(p, o, t)
         \/ Crash \/ StartWebhook \/ StartPolling \/ DeleteWebhook
         \/ UNCHANGED vars
  PROVE  Certified'
<1>1. CASE Crash
  BY <1>1, Kinds DEF Crash, Cut, NoDeployment, Certified
<1>2. CASE ~Crash
  <2>1. UNCHANGED <<conf, site, certs, deployVars>>
    BY <1>2 DEF Polled, Posted, Arrives, StartWebhook, StartPolling, DeleteWebhook, vars, nginxVars, hostVars
  <2> QED
    BY <2>1 DEF deployVars, Certified
<1> QED
  BY <1>1, <1>2

\* No state has nginx enabled with a 443 block whose certificate is missing: a
\* host where nginx -t refuses it would not start nginx again, and the Master
\* behind it is out of reach.  However many deployments overlap, whatever
\* writes fail and whenever the Master dies.  (nginx.go:15, 129-157)
THEOREM CertificateFirst == Spec => []CertFirst
<1>1. Certified => CertFirst
  BY DEF Certified, CertFirst, Enabled
<1>2. Typed /\ Certified /\ [Next]_vars => Certified'
  BY WizardCertified, ElsewhereCertified DEF Next
<1> QED
  BY <1>1, <1>2, InitCertified, TypedInductive, PTL DEF Spec

-----------------------------------------------------------------------------
(* Overlapping deployments.                                                *)

\* A deployment is its goroutine's, and none goes on when the Master is down.
Owned ==
  /\ \A p \in Msgs : step[p] # "none" => Busy(p)
  /\ ~up => \A p \in Msgs : ~Working(p)

\* A goroutine that is busy and not among the mixed is the only one, and an
\* answer is the last deployment's as long as nothing overlaps.
Lone(p) == Busy(p) /\ p \notin mixed

Noticed ==
  /\ \A p \in mixed : Busy(p)
  /\ mixed # {} => overlap
  /\ \A p, q \in Msgs : Lone(p) /\ Busy(q) => q = p
  /\ told # None /\ ~overlap => \A p \in Msgs : ~Busy(p)

\* While nothing overlaps a busy goroutine is alone.
LEMMA LoneFacts ==
  ASSUME Typed, Noticed, NEW p \in Msgs, Busy(p)
  PROVE  /\ ~overlap => Lone(p)
         /\ p \in mixed => overlap /\ \A q \in Msgs : ~Lone(q)
         /\ Lone(p) => mixed = {} /\ (told # None => overlap)
<1>1. mixed \subseteq Msgs
  BY DEF Typed, TypeOK
<1>2. ~overlap => Lone(p)
  BY DEF Noticed, Lone
<1>3. p \in mixed => overlap /\ \A q \in Msgs : ~Lone(q)
  BY DEF Noticed, Lone
<1>4. Lone(p) => mixed = {} /\ (told # None => overlap)
  BY <1>1 DEF Noticed, Lone
<1> QED
  BY <1>2, <1>3, <1>4

\* What does not concern deployments keeps all of it.
LEMMA TalkNoticed ==
  ASSUME Typed, Owned, Noticed, UNCHANGED <<up, step, told, mixed, overlap>>,
         \A q \in Msgs : Busy(q)' <=> Busy(q),
         \A q \in Msgs : Working(q)' => Working(q) \/ up
  PROVE  Owned' /\ Noticed'
<1>1. Owned'
  BY DEF Owned
<1>2. Noticed'
  BY DEF Typed, TypeOK, Noticed, Lone
<1> QED
  BY <1>1, <1>2

\* The wizard's talk: messages that arrive, are dispatched and answered.
LEMMA TalkFacts ==
  ASSUME Typed, NEW p \in Msgs,
         \/ \E o \in Owners, t \in Texts : Polled(p, o, t) \/ Posted(p, o, t)
         \/ Dispatch(p) \/ startNginxWizard(p) \/ CancelWizard(p) \/ GiveDomain(p)
  PROVE  /\ UNCHANGED <<nginxVars, up, base, secret, sec, hook, told, mixed, overlap, refused>>
         /\ mode' = mode \/ (Accepted /\ hook # NoHook)
         /\ ~Busy(p) /\ ~Busy(p)'
         /\ Working(p) \/ up
         /\ \A q \in Msgs \ {p} : pc'[q] = pc[q]
<1>0. pc \in [Msgs -> {"none", "dispatch", "answer", "deploy", "hook", "mode", "done"}]
  BY DEF Typed, TypeOK
<1>1. CASE \E o \in Owners, t \in Texts : Polled(p, o, t) \/ Posted(p, o, t)
  BY <1>0, <1>1 DEF Polled, Posted, Arrives, NextMsg, Goto, Busy, history
<1>2. CASE Dispatch(p)
  BY <1>0, <1>2 DEF Dispatch, Ends, Goto, Busy, Working, cfgVars, history
<1>3. CASE startNginxWizard(p) \/ CancelWizard(p) \/ GiveDomain(p)
  <2>1. PICK s : Reply(p, s)
    BY <1>3 DEF startNginxWizard, CancelWizard, GiveDomain
  <2> QED
    BY <1>0, <2>1 DEF Reply, Ends, Goto, Busy, Working, cfgVars, history
<1> QED
  BY <1>1, <1>2, <1>3

\* A deployment starts: those that overlap are noted.
LEMMA DeployNoticed ==
  ASSUME Typed, Owned, Noticed, NEW p \in Msgs, Deploy(p)
  PROVE  Owned' /\ Noticed' /\ \A q \in Msgs : Lone(q)' => q = p
<1>1. /\ pc[p] = "answer" /\ pc' = [pc EXCEPT ![p] = "deploy"]
      /\ step' = [step EXCEPT ![p] = "write"]
      /\ told' = None /\ up' = up
      /\ mixed' = IF {q \in Msgs \ {p} : Busy(q)} = {} THEN mixed
                  ELSE mixed \cup {q \in Msgs \ {p} : Busy(q)} \cup {p}
      /\ overlap' = (overlap \/ {q \in Msgs \ {p} : Busy(q)} # {})
  BY DEF Deploy, Goto, Start
<1>2. /\ pc \in [Msgs -> {"none", "dispatch", "answer", "deploy", "hook", "mode", "done"}]
      /\ step \in [Msgs -> Steps \cup {"none"}] /\ mixed \subseteq Msgs
  BY DEF Typed, TypeOK, NginxTypeOK
<1>3. ~Busy(p) /\ Busy(p)' /\ Working(p) /\ Working(p)'
  BY <1>1, <1>2 DEF Busy, Working
<1>4. \A q \in Msgs \ {p} : (Busy(q)' <=> Busy(q)) /\ (Working(q)' <=> Working(q)) /\ step'[q] = step[q]
  BY <1>1, <1>2 DEF Busy, Working
<1>5. Owned'
  BY <1>1, <1>2, <1>3, <1>4 DEF Owned
<1>6. \A q \in mixed' : q \in Msgs /\ Busy(q)'
  BY <1>1, <1>2, <1>3, <1>4 DEF Noticed
<1>7. \A q \in Msgs : Lone(q)' => q = p
  BY <1>1, <1>4 DEF Lone
<1>8. \A q \in Msgs : Lone(p)' /\ Busy(q)' => q = p
  BY <1>1, <1>4 DEF Lone
<1>9. mixed' # {} => overlap'
  BY <1>1 DEF Noticed
<1>10. Noticed'
  BY <1>1, <1>6, <1>7, <1>8, <1>9 DEF Noticed
<1> QED
  BY <1>5, <1>7, <1>10

\* The owner is told: the goroutine is no more busy, and none is alone.
LEMMA TellNoticed ==
  ASSUME Typed, Owned, Noticed, NEW p \in Msgs, NEW saved \in BOOLEAN, Busy(p), Tell(p, saved), up' = up
  PROVE  Owned' /\ Noticed' /\ \A q \in Msgs : ~Lone(q)'
<1>1. /\ pc' = [pc EXCEPT ![p] = "done"]
      /\ step' = [step EXCEPT ![p] = "none"]
      /\ mixed' = mixed \ {p}
      /\ overlap' = IF saved THEN p \in mixed ELSE overlap
  BY DEF Tell, Ends, Goto, Forget
<1>2. /\ pc \in [Msgs -> {"none", "dispatch", "answer", "deploy", "hook", "mode", "done"}]
      /\ step \in [Msgs -> Steps \cup {"none"}] /\ mixed \subseteq Msgs
  BY DEF Typed, TypeOK, NginxTypeOK
<1>3. ~Busy(p)' /\ ~Working(p)' /\ step'[p] = "none" /\ Working(p)
  BY <1>1, <1>2 DEF Busy, Working
<1>4. \A q \in Msgs \ {p} : (Busy(q)' <=> Busy(q)) /\ (Working(q)' <=> Working(q)) /\ step'[q] = step[q]
  BY <1>1, <1>2 DEF Busy, Working
<1>5. Owned'
  BY <1>3, <1>4 DEF Owned
<1>6. \A q \in Msgs : ~Lone(q)'
  BY <1>1, <1>3, <1>4 DEF Noticed, Lone
<1>7. ~overlap' => mixed = {} /\ \A q \in Msgs : Busy(q) => q = p
  <2>1. ~overlap' => Lone(p)
    BY <1>1, LoneFacts DEF Lone
  <2> QED
    BY <2>1, LoneFacts DEF Noticed
<1>8. \A q \in mixed' : Busy(q)'
  BY <1>1, <1>2, <1>4 DEF Noticed
<1>9. ~overlap' => \A q \in Msgs : ~Busy(q)'
  BY <1>3, <1>4, <1>7
<1>10. Noticed'
  BY <1>1, <1>6, <1>7, <1>8, <1>9 DEF Noticed
<1> QED
  BY <1>5, <1>6, <1>10

-----------------------------------------------------------------------------
(* What a lone deployment leaves.                                          *)

\* The site in sites-enabled, if the host has it, for a block c.
SiteIs(c) == host.sites => site = IF host.links THEN Link ELSE c

\* What is in place when the owner is given the answer.
Delivered(d, what) ==
  /\ what \in Answers
  /\ Promised(d, what)
  /\ what # "failed" => Enabled.dom = d

\* What is in place at each step of a deployment that is alone and met no fault.
SiteAt(p) ==
  /\ step[p] = "enable" => conf = Plain(dom[p])
  /\ step[p] \in {"test", "reload", "certbot", "tls"} => conf = Plain(dom[p]) /\ SiteIs(Plain(dom[p]))
  /\ step[p] = "relink" => host.sites /\ conf = TLS(dom[p]) /\ SiteIs(Plain(dom[p]))
  /\ step[p] \in {"retest", "rollback"} => conf = TLS(dom[p]) /\ SiteIs(TLS(dom[p]))
  /\ step[p] \in {"reload", "certbot", "tls", "relink", "retest", "rollback"} => dom[p] \notin Unservable
  /\ step[p] = "end" => Delivered(dom[p], answer[p])

\* The blocks are told apart by their kinds.
LEMMA Blocks ==
  /\ \A d : Plain(d).kind = "plain" /\ Plain(d).dom = d /\ TLS(d).kind = "tls" /\ TLS(d).dom = d
  /\ Link.kind = "link"
  /\ \A d : Plain(d) # Link /\ TLS(d) # Link
<1>1. /\ \A d : Plain(d).kind = "plain" /\ Plain(d).dom = d /\ TLS(d).kind = "tls" /\ TLS(d).dom = d
      /\ Link.kind = "link"
  BY DEF Plain, TLS, Link
<1> QED
  BY <1>1

\* nginx reads the block that was written and enabled ...
LEMMA EnabledFacts ==
  ASSUME NEW d
  PROVE  /\ conf = Plain(d) /\ SiteIs(Plain(d)) => Enabled = Plain(d)
         /\ conf = TLS(d) /\ SiteIs(TLS(d)) => Enabled = TLS(d)
BY Blocks DEF Enabled, SiteIs

\* ... and accepts one on port 80 by its domain.
LEMMA PassesFacts ==
  ASSUME NEW d
  PROVE  Passes(Plain(d)) <=> d \notin Unservable
BY Blocks DEF Passes

LEMMA PassesTLS ==
  ASSUME NEW d
  PROVE  Passes(TLS(d)) => d \notin Unservable
BY Blocks DEF Passes

\* A faultless step of a lone deployment.
LEMMA SiteStep ==
  ASSUME NginxTypeOK, NEW p \in Msgs, SiteAt(p), DeployStep(p), faults = 0, faults' = 0
  PROVE  SiteAt(p)'
<1>0. /\ step \in [Msgs -> Steps \cup {"none"}] /\ dom \in [Msgs -> Domains \cup {"none"}]
      /\ answer \in [Msgs -> Answers \cup {"none"}]
      /\ host \in [sites : BOOLEAN, links : BOOLEAN, ssl : BOOLEAN]
  BY DEF NginxTypeOK
<1>a. ~WriteFails /\ faults' # faults + 1
  BY DEF WriteFails
<1>b. ASSUME NEW from, NEW to, Goes(p, from, to)
      PROVE  step[p] = from /\ step'[p] = to /\ dom'[p] = dom[p] /\ answer'[p] = answer[p]
  BY <1>0, <1>b DEF Goes
<1>c. ASSUME NEW from, NEW what, Returns(p, from, what)
      PROVE  step[p] = from /\ step'[p] = "end" /\ dom'[p] = dom[p] /\ answer'[p] = what
  BY <1>0, <1>c DEF Returns
<1>1. CASE WritePlain(p)
  <2>1. Goes(p, "write", "enable") /\ conf' = Plain(dom[p])
    BY <1>1, <1>a DEF WritePlain
  <2> QED
    BY <1>b, <2>1 DEF SiteAt
<1>2. CASE Enable(p)
  <2>1. Goes(p, "enable", "test") /\ conf' = conf /\ host' = host
    BY <1>2 DEF Enable
  <2>2. host.sites => site' = IF host.links THEN Link ELSE Plain(dom[p])
    BY <1>2, <1>a DEF Enable
  <2>3. step[p] = "enable" /\ step'[p] = "test" /\ dom'[p] = dom[p]
    BY <1>b, <2>1
  <2> QED
    BY <2>1, <2>2, <2>3 DEF SiteAt, SiteIs
<1>3. CASE Test(p)
  <2>0. UNCHANGED hostVars /\ step[p] = "test" /\ dom'[p] = dom[p]
    BY <1>b, <1>c, <1>3 DEF Test
  <2>1. conf = Plain(dom[p]) /\ SiteIs(Plain(dom[p]))
    BY <2>0 DEF SiteAt
  <2>2. CASE Passes(Enabled)
    <3>1. step'[p] = "reload" /\ dom[p] \notin Unservable
      BY <1>b, <1>3, <2>1, <2>2, EnabledFacts, PassesFacts DEF Test
    <3> QED
      BY <2>0, <2>1, <3>1 DEF SiteAt, SiteIs, hostVars
  <2>3. CASE ~Passes(Enabled)
    <3>1. step'[p] = "end" /\ answer'[p] = "failed"
      BY <1>c, <1>3, <2>3 DEF Test
    <3> QED
      BY <3>1 DEF SiteAt, Delivered, Promised, Answers
  <2> QED
    BY <2>2, <2>3
<1>d. ASSUME UNCHANGED hostVars, dom'[p] = dom[p], step'[p] = "end", answer'[p] \in {"plain", "kept"},
             conf = Plain(dom[p]), SiteIs(Plain(dom[p])), dom[p] \notin Unservable
      PROVE  SiteAt(p)'
  <2>1. Enabled = Plain(dom[p]) /\ Passes(Enabled)
    BY <1>d, EnabledFacts, PassesFacts
  <2>2. Enabled' = Enabled /\ (Passes(Enabled))' = Passes(Enabled)
    BY <1>d DEF Enabled, Passes, hostVars
  <2>3. Promised(dom[p], answer[p])'
    BY <1>d, <2>1, <2>2 DEF Promised
  <2> QED
    BY <1>d, <2>1, <2>2, <2>3, Blocks DEF SiteAt, Delivered, Answers
<1>4. CASE Reload(p)
  <2>0. UNCHANGED hostVars /\ step[p] = "reload" /\ dom'[p] = dom[p]
    BY <1>b, <1>c, <1>4 DEF Reload
  <2>1. conf = Plain(dom[p]) /\ SiteIs(Plain(dom[p])) /\ dom[p] \notin Unservable
    BY <2>0 DEF SiteAt
  <2>2. CASE Goes(p, "reload", "certbot")
    BY <1>b, <2>0, <2>1, <2>2 DEF SiteAt, SiteIs, hostVars
  <2>3. CASE Returns(p, "reload", "plain")
    BY <1>c, <1>d, <2>0, <2>1, <2>3
  <2>4. CASE Returns(p, "reload", "failed")
    <3>1. step'[p] = "end" /\ answer'[p] = "failed"
      BY <1>c, <2>4
    <3> QED
      BY <3>1 DEF SiteAt, Delivered, Promised, Answers
  <2> QED
    BY <1>4, <2>2, <2>3, <2>4 DEF Reload
<1>5. CASE Certbot(p)
  <2>0. UNCHANGED <<host, conf, site>> /\ step[p] = "certbot" /\ dom'[p] = dom[p]
    BY <1>b, <1>c, <1>5 DEF Certbot, hostVars
  <2>1. conf = Plain(dom[p]) /\ SiteIs(Plain(dom[p])) /\ dom[p] \notin Unservable
    BY <2>0 DEF SiteAt
  <2>2. CASE Goes(p, "certbot", "tls")
    BY <1>b, <2>0, <2>1, <2>2 DEF SiteAt, SiteIs
  <2>3. CASE Returns(p, "certbot", "kept") /\ UNCHANGED hostVars
    BY <1>c, <1>d, <2>0, <2>1, <2>3
  <2> QED
    BY <1>5, <2>2, <2>3 DEF Certbot
<1>6. CASE WriteTLS(p)
  <2>1. /\ Goes(p, "tls", IF host.sites THEN "relink" ELSE "retest")
        /\ conf' = TLS(dom[p]) /\ UNCHANGED <<host, site>>
    BY <1>6, <1>a DEF WriteTLS
  <2>2. step[p] = "tls" /\ dom'[p] = dom[p] /\ step'[p] = IF host.sites THEN "relink" ELSE "retest"
    BY <1>b, <2>1
  <2>3. SiteIs(Plain(dom[p])) /\ dom[p] \notin Unservable
    BY <2>2 DEF SiteAt
  <2> QED
    BY <2>1, <2>2, <2>3 DEF SiteAt, SiteIs
<1>7. CASE WriteEnabled(p)
  <2>1. step[p] = "relink" /\ step'[p] = "retest" /\ dom'[p] = dom[p] /\ host' = host
    BY <1>b, <1>7 DEF WriteEnabled, WriteFails
  <2>2. host.sites /\ conf = TLS(dom[p]) /\ SiteIs(Plain(dom[p])) /\ dom[p] \notin Unservable
    BY <2>1 DEF SiteAt
  <2>3. IF site = Link THEN conf' = TLS(dom[p]) /\ UNCHANGED site ELSE site' = TLS(dom[p]) /\ UNCHANGED conf
    BY <1>7, <1>a DEF WriteEnabled
  <2>4. site = Link <=> host.links
    BY <2>2, Blocks DEF SiteIs
  <2> QED
    BY <2>1, <2>2, <2>3, <2>4 DEF SiteAt, SiteIs
<1>8. CASE Retest(p)
  <2>0. UNCHANGED hostVars /\ step[p] = "retest" /\ dom'[p] = dom[p]
    BY <1>b, <1>c, <1>8 DEF Retest
  <2>1. conf = TLS(dom[p]) /\ SiteIs(TLS(dom[p])) /\ dom[p] \notin Unservable
    BY <2>0 DEF SiteAt
  <2>2. CASE Passes(Enabled)
    <3>1. step'[p] = "end" /\ answer'[p] = "https"
      BY <1>c, <1>8, <2>2 DEF Retest
    <3>2. Enabled = TLS(dom[p])
      BY <2>1, EnabledFacts
    <3>3. Enabled' = Enabled /\ (Passes(Enabled))' = Passes(Enabled)
      BY <2>0 DEF Enabled, Passes, hostVars
    <3>4. Promised(dom[p], answer[p])'
      BY <2>0, <2>2, <3>1, <3>2, <3>3 DEF Promised
    <3> QED
      BY <2>0, <3>1, <3>2, <3>3, <3>4, Blocks DEF SiteAt, Delivered, Answers
  <2>3. CASE ~Passes(Enabled)
    <3>1. step'[p] = "rollback"
      BY <1>b, <1>8, <2>3 DEF Retest
    <3> QED
      BY <2>0, <2>1, <3>1 DEF SiteAt, SiteIs, hostVars
  <2> QED
    BY <2>2, <2>3
<1>9. CASE Rollback(p)
  <2>1. /\ step[p] = "rollback" /\ step'[p] = "end" /\ dom'[p] = dom[p] /\ answer'[p] = "rolledback"
        /\ conf' = Plain(dom[p]) /\ UNCHANGED <<host, site, certs>>
    BY <1>c, <1>9, <1>a DEF Rollback
  <2>2. SiteIs(TLS(dom[p])) /\ dom[p] \notin Unservable
    BY <2>1 DEF SiteAt
  <2>3. Enabled' = TLS(dom[p]) \/ Enabled' = Plain(dom[p])
    BY <2>1, <2>2, Blocks DEF Enabled, SiteIs
  <2>4. host.sites = host.links => Enabled' = Plain(dom[p])
    BY <1>0, <2>1, <2>2, Blocks DEF Enabled, SiteIs
  <2>5. Enabled' = Plain(dom[p]) => (Passes(Enabled))'
    BY <2>2, Blocks DEF Passes
  <2>6. Promised(dom[p], answer[p])'
    BY <2>1, <2>4, <2>5 DEF Promised
  <2> QED
    BY <2>1, <2>3, <2>6, Blocks DEF SiteAt, Delivered, Answers
<1> QED
  BY <1>1, <1>2, <1>3, <1>4, <1>5, <1>6, <1>7, <1>8, <1>9 DEF DeployStep

-----------------------------------------------------------------------------
(* Address, webhook and answers.                                           *)

\* What a lone goroutine that saves the address knows of it.
AddressAt(p) ==
  /\ pc[p] \in {"hook", "mode"} => base = dom[p] /\ secret \in {None, sec[p]} /\ answer[p] # "failed"
  /\ pc[p] = "mode" /\ hook # NoHook => hook = Wanted(p)

LoneKnows == \A p \in Msgs : Lone(p) => SiteAt(p) /\ AddressAt(p)

\* What an answer said still holds while nothing overlaps ...
ToldKnows ==
  told # None /\ ~overlap =>
    Delivered(told.dom, told.answer) /\ (told.saved => base = told.dom /\ told.answer # "failed")

\* ... and so does what the webhook was registered with, but while a
\* deployment is between saving the address and registering it.
HookKnows ==
  up /\ ~overlap /\ hook # NoHook =>
    /\ ~refused /\ (\A p \in Msgs : pc[p] # "hook") => hook.dom = base
    /\ mode = "webhook" => Accepted

Knows == faults = 0 => LoneKnows /\ ToldKnows /\ HookKnows

\* Nothing is lost of it when the site and the deployments are let alone.
LEMMA SiteUntouched ==
  ASSUME UNCHANGED nginxVars
  PROVE  /\ \A p \in Msgs : SiteAt(p) => SiteAt(p)'
         /\ \A d, what : Delivered(d, what) => Delivered(d, what)'
         /\ faults' = faults
<1>1. UNCHANGED <<host, conf, site, certs, faults, step, dom, answer>>
  BY DEF nginxVars, hostVars, deployVars
<1>2. \A p \in Msgs : SiteAt(p) => SiteAt(p)'
  BY <1>1 DEF SiteAt, SiteIs, Delivered, Promised, Enabled, Passes
<1>3. \A d, what : Delivered(d, what) => Delivered(d, what)'
  BY <1>1 DEF Delivered, Promised, Enabled, Passes
<1> QED
  BY <1>1, <1>2, <1>3

\* An answer's promise needs only what nginx reads, and the certificates.
LEMMA DeliveredStays ==
  ASSUME UNCHANGED <<host, conf, site, certs>>, NEW d, NEW what, Delivered(d, what)
  PROVE  Delivered(d, what)'
BY DEF Delivered, Promised, Enabled, Passes

\* The wizard's talk.
LEMMA TalkKeeps ==
  ASSUME Typed, Owned, Noticed, Knows, NEW p \in Msgs,
         \/ \E o \in Owners, t \in Texts : Polled(p, o, t) \/ Posted(p, o, t)
         \/ Dispatch(p) \/ startNginxWizard(p) \/ CancelWizard(p) \/ GiveDomain(p)
  PROVE  Owned' /\ Noticed' /\ Knows'
<1>1. /\ UNCHANGED <<nginxVars, up, base, secret, sec, hook, told, mixed, overlap, refused>>
      /\ mode' = mode \/ (Accepted /\ hook # NoHook)
      /\ ~Busy(p) /\ ~Busy(p)'
      /\ Working(p) \/ up
      /\ \A q \in Msgs \ {p} : pc'[q] = pc[q]
  BY TalkFacts
<1>2. \A q \in Msgs : (Busy(q)' <=> Busy(q)) /\ (Busy(q) => pc'[q] = pc[q])
  BY <1>1 DEF Busy
<1>3. \A q \in Msgs : Working(q)' => Working(q) \/ up
  BY <1>1 DEF Working, Busy
<1>4. Owned' /\ Noticed'
  BY <1>1, <1>2, <1>3, TalkNoticed DEF nginxVars, deployVars
<1>5. SUFFICES ASSUME faults = 0 PROVE LoneKnows' /\ ToldKnows' /\ HookKnows'
  BY <1>1, <1>4, SiteUntouched DEF Knows
<1>6. LoneKnows /\ ToldKnows /\ HookKnows
  BY <1>5 DEF Knows
<1>7. LoneKnows'
  <2> SUFFICES ASSUME NEW q \in Msgs, Lone(q)' PROVE SiteAt(q)' /\ AddressAt(q)'
    BY DEF LoneKnows
  <2>1. Lone(q) /\ pc'[q] = pc[q]
    BY <1>1, <1>2 DEF Lone
  <2>2. SiteAt(q) /\ AddressAt(q)
    BY <1>6, <2>1 DEF LoneKnows
  <2>3. UNCHANGED <<dom, answer>>
    BY <1>1 DEF nginxVars, deployVars
  <2> QED
    BY <1>1, <2>1, <2>2, <2>3, SiteUntouched DEF AddressAt, Wanted
<1>8. ToldKnows'
  BY <1>1, <1>6, SiteUntouched DEF ToldKnows
<1>9. HookKnows'
  <2>1. (\A q \in Msgs : pc'[q] # "hook") => \A q \in Msgs : pc[q] # "hook"
    BY <1>2 DEF Busy
  <2> QED
    BY <1>1, <1>6, <2>1 DEF HookKnows, Accepted
<1> QED
  BY <1>7, <1>8, <1>9

\* The last answer starts a deployment.
LEMMA DeployKeeps ==
  ASSUME Typed, Owned, Noticed, Knows, NEW p \in Msgs, Deploy(p)
  PROVE  Owned' /\ Noticed' /\ Knows'
<1>1. Owned' /\ Noticed' /\ \A q \in Msgs : Lone(q)' => q = p
  BY DeployNoticed
<1>2. /\ UNCHANGED hostVars /\ UNCHANGED <<up, base, mode, secret, hook, refused>>
      /\ told' = None /\ pc[p] = "answer" /\ pc' = [pc EXCEPT ![p] = "deploy"]
      /\ step' = [step EXCEPT ![p] = "write"]
      /\ ~overlap' => ~overlap
  BY DEF Deploy, Start, Goto, cfgVars
<1>3. /\ pc \in [Msgs -> {"none", "dispatch", "answer", "deploy", "hook", "mode", "done"}]
      /\ step \in [Msgs -> Steps \cup {"none"}]
  BY DEF Typed, TypeOK, NginxTypeOK
<1>4. SiteAt(p)' /\ AddressAt(p)'
  BY <1>2, <1>3 DEF SiteAt, AddressAt
<1>5. (\A q \in Msgs : pc'[q] # "hook") => \A q \in Msgs : pc[q] # "hook"
  BY <1>2, <1>3
<1>6. faults' = 0 => LoneKnows' /\ ToldKnows' /\ HookKnows'
  BY <1>1, <1>2, <1>4, <1>5 DEF Knows, LoneKnows, ToldKnows, HookKnows, hostVars, Accepted
<1> QED
  BY <1>1, <1>6 DEF Knows

\* A step of a deployment.
LEMMA DeploymentKeeps ==
  ASSUME Typed, Owned, Noticed, Knows, NEW p \in Msgs, Deployment(p)
  PROVE  Owned' /\ Noticed' /\ Knows'
<1>0. NginxTypeOK
  BY DEF Typed, TypeOK
<1>1. pc[p] = "deploy" /\ DeployStep(p) /\ UNCHANGED <<up, crashes, msgVars, cfgVars, history>>
  BY DEF Deployment
<1>2. UNCHANGED <<up, pc, base, mode, secret, sec, hook, told, mixed, overlap, refused>>
  BY <1>1 DEF msgVars, cfgVars, history
<1>3. Busy(p) /\ \A q \in Msgs : (Busy(q)' <=> Busy(q)) /\ (Working(q)' <=> Working(q))
  BY <1>1, <1>2 DEF Busy, Working
<1>4. \A q \in Msgs \ {p} : step'[q] = step[q]
  BY <1>0, <1>1, DeployTyped
<1>5. Owned' /\ Noticed'
  <2>1. Owned'
    BY <1>2, <1>3, <1>4 DEF Owned
  <2>2. Noticed'
    BY <1>2, <1>3 DEF Noticed, Lone, Typed, TypeOK
  <2> QED
    BY <2>1, <2>2
<1>6. SUFFICES ASSUME faults' = 0 PROVE LoneKnows' /\ ToldKnows' /\ HookKnows'
  BY <1>5 DEF Knows
<1>7. faults = 0
  <2>1. faults \in Nat /\ (faults' = faults \/ faults' = faults + 1)
    BY <1>0, <1>1, Constants DEF NginxTypeOK, DeployStep, WritePlain, Enable, Test, Reload, Certbot,
       WriteTLS, WriteEnabled, Retest, Rollback, WriteFails, hostVars
  <2> QED
    BY <1>6, <2>1
<1>8. LoneKnows'
  <2> SUFFICES ASSUME NEW q \in Msgs, Lone(q)' PROVE SiteAt(q)' /\ AddressAt(q)'
    BY DEF LoneKnows
  <2>1. Lone(q) /\ q = p
    BY <1>2, <1>3 DEF Noticed, Lone
  <2>2. SiteAt(p)
    BY <1>7, <2>1 DEF Knows, LoneKnows
  <2>3. SiteAt(p)'
    BY <1>0, <1>1, <1>6, <1>7, <2>2, SiteStep
  <2>4. AddressAt(p)'
    BY <1>1, <1>2 DEF AddressAt
  <2> QED
    BY <2>1, <2>3, <2>4
<1>9. ToldKnows'
  BY <1>2, <1>3 DEF ToldKnows, Noticed
<1>10. HookKnows'
  BY <1>2, <1>7 DEF Knows, HookKnows, Accepted
<1> QED
  BY <1>8, <1>9, <1>10

\* A goroutine goes on from one step of saving the address to the next.
LEMMA SavingNoticed ==
  ASSUME Typed, Owned, Noticed, NEW p \in Msgs, NEW to \in {"hook", "mode"}, Busy(p),
         Goto(p, to), UNCHANGED <<up, step, told, mixed, overlap>>
  PROVE  /\ Owned' /\ Noticed'
         /\ pc'[p] = to /\ \A q \in Msgs \ {p} : pc'[q] = pc[q]
         /\ \A q \in Msgs : Lone(q)' => q = p /\ Lone(p)
<1>1. pc'[p] = to /\ \A q \in Msgs \ {p} : pc'[q] = pc[q]
  BY DEF Goto, Typed, TypeOK
<1>2. \A q \in Msgs : (Busy(q)' <=> Busy(q)) /\ (Working(q)' <=> Working(q))
  BY <1>1 DEF Busy, Working
<1>3. Owned' /\ Noticed'
  BY <1>2, TalkNoticed
<1>4. \A q \in Msgs : Lone(q)' => q = p /\ Lone(p)
  BY <1>2 DEF Lone, Noticed
<1> QED
  BY <1>1, <1>3, <1>4

\* The address is saved.
LEMMA SaveBaseKeeps ==
  ASSUME Typed, Owned, Noticed, Knows, NEW p \in Msgs, SaveBase(p)
  PROVE  Owned' /\ Noticed' /\ Knows'
<1>1. /\ pc[p] = "deploy" /\ step[p] = "end" /\ answer[p] # "failed"
      /\ base' = dom[p] /\ sec' = [sec EXCEPT ![p] = IF secret = None THEN p ELSE secret]
      /\ Goto(p, "hook")
      /\ UNCHANGED <<nginxVars, up, mode, secret, hook, told, mixed, overlap, refused>>
  BY DEF SaveBase, history
<1>2. Busy(p)
  BY <1>1 DEF Busy
<1>3. UNCHANGED <<step, dom, answer, faults>>
  BY <1>1 DEF nginxVars, hostVars, deployVars
<1>4. /\ Owned' /\ Noticed'
      /\ pc'[p] = "hook" /\ \A q \in Msgs \ {p} : pc'[q] = pc[q]
      /\ \A q \in Msgs : Lone(q)' => q = p /\ Lone(p)
  BY <1>1, <1>2, <1>3, SavingNoticed
<1>5. SUFFICES ASSUME faults = 0 PROVE LoneKnows' /\ ToldKnows' /\ HookKnows'
  BY <1>3, <1>4 DEF Knows
<1>6. LoneKnows'
  <2> SUFFICES ASSUME Lone(p) PROVE SiteAt(p)' /\ AddressAt(p)'
    BY <1>4 DEF LoneKnows
  <2>1. SiteAt(p)'
    BY <1>1, <1>5, SiteUntouched DEF Knows, LoneKnows
  <2>2. sec'[p] = IF secret = None THEN p ELSE secret
    BY <1>1 DEF Typed, TypeOK
  <2> QED
    BY <1>1, <1>3, <1>4, <2>1, <2>2 DEF AddressAt
<1>7. ToldKnows'
  BY <1>1, <1>2 DEF ToldKnows, Noticed
<1>8. HookKnows'
  BY <1>1, <1>4, <1>5 DEF Knows, HookKnows, Accepted
<1> QED
  BY <1>6, <1>7, <1>8

\* The webhook is registered.
LEMMA SetWebhookKeeps ==
  ASSUME Typed, Owned, Noticed, Knows, NEW p \in Msgs, SetWebhook(p)
  PROVE  Owned' /\ Noticed' /\ Knows'
<1>1. /\ pc[p] = "hook" /\ hook' = Wanted(p) /\ refused' = FALSE /\ Goto(p, "mode")
      /\ UNCHANGED <<nginxVars, up, base, mode, secret, sec, told, mixed, overlap>>
  BY DEF SetWebhook
<1>2. Busy(p)
  BY <1>1 DEF Busy
<1>3. UNCHANGED <<step, dom, answer, faults>>
  BY <1>1 DEF nginxVars, hostVars, deployVars
<1>4. /\ Owned' /\ Noticed'
      /\ pc'[p] = "mode" /\ \A q \in Msgs \ {p} : pc'[q] = pc[q]
      /\ \A q \in Msgs : Lone(q)' => q = p /\ Lone(p)
  BY <1>1, <1>2, <1>3, SavingNoticed
<1>5. SUFFICES ASSUME faults = 0 PROVE LoneKnows' /\ ToldKnows' /\ HookKnows'
  BY <1>3, <1>4 DEF Knows
<1>6. Lone(p) => base = dom[p] /\ secret \in {None, sec[p]} /\ answer[p] # "failed"
  BY <1>1, <1>5 DEF Knows, LoneKnows, AddressAt
<1>7. LoneKnows'
  <2> SUFFICES ASSUME Lone(p) PROVE SiteAt(p)' /\ AddressAt(p)'
    BY <1>4 DEF LoneKnows
  <2>1. SiteAt(p)'
    BY <1>1, <1>5, SiteUntouched DEF Knows, LoneKnows
  <2> QED
    BY <1>1, <1>3, <1>6, <2>1 DEF AddressAt, Wanted
<1>8. ToldKnows'
  BY <1>1, <1>2 DEF ToldKnows, Noticed
<1>9. HookKnows'
  <2>1. ~overlap => Lone(p)
    BY <1>2, LoneFacts
  <2> QED
    BY <1>1, <1>6, <2>1 DEF HookKnows, Accepted, Wanted
<1> QED
  BY <1>7, <1>8, <1>9

\* The owner is told: what the goroutine knows is what the answer says.
LEMMA TellKeeps ==
  ASSUME Typed, Owned, Noticed, Knows, NEW p \in Msgs, NEW saved \in BOOLEAN,
         Busy(p), step[p] = "end", Tell(p, saved),
         UNCHANGED <<host, conf, site, certs, up, base>>,
         faults' = 0, faults = 0, saved => pc[p] \in {"hook", "mode"},
         HookKnows'
  PROVE  Owned' /\ Noticed' /\ Knows'
<1>1. Owned' /\ Noticed' /\ \A q \in Msgs : ~Lone(q)'
  BY TellNoticed
<1>2. ~overlap' => Lone(p)
  BY LoneFacts DEF Tell, Lone
<1>3. Lone(p) => Delivered(dom[p], answer[p])
  BY DEF Knows, LoneKnows, SiteAt
<1>4. Lone(p) /\ saved => base = dom[p] /\ answer[p] # "failed"
  BY DEF Knows, LoneKnows, AddressAt
<1>5. told' = [dom |-> dom[p], answer |-> answer[p], saved |-> saved]
  BY DEF Tell
<1>6. ToldKnows'
  <2> SUFFICES ASSUME ~overlap'
               PROVE  /\ Delivered(told.dom, told.answer)'
                      /\ told'.saved => base' = told'.dom /\ told'.answer # "failed"
    BY DEF ToldKnows
  <2>1. told'.dom = dom[p] /\ told'.answer = answer[p] /\ told'.saved = saved
    BY <1>5
  <2>2. Delivered(dom[p], answer[p])
    BY <1>2, <1>3
  <2>3. Delivered(told.dom, told.answer)'
    BY <2>1, <2>2 DEF Delivered, Promised, Enabled, Passes
  <2> QED
    BY <1>2, <1>4, <2>1, <2>3
<1> QED
  BY <1>1, <1>6 DEF Knows, LoneKnows

\* A deployment that failed, or whose address is refused, ends.
LEMMA GiveUpKeeps ==
  ASSUME Typed, Owned, Noticed, Knows, NEW p \in Msgs, GiveUp(p)
  PROVE  Owned' /\ Noticed' /\ Knows'
<1>1. /\ pc[p] = "deploy" /\ step[p] = "end" /\ Tell(p, FALSE) /\ Goto(p, "done")
      /\ UNCHANGED <<hostVars, up, base, mode, secret, hook, refused>>
      /\ overlap' = overlap
  BY DEF GiveUp, Tell, Ends
<1>2. Busy(p) /\ UNCHANGED <<host, conf, site, certs, faults>>
  BY <1>1 DEF Busy, hostVars
<1>3. CASE faults = 0
  <2>1. (\A q \in Msgs : pc'[q] # "hook") => \A q \in Msgs : pc[q] # "hook"
    BY <1>1 DEF Goto, Typed, TypeOK
  <2>2. HookKnows'
    BY <1>1, <1>3, <2>1 DEF Knows, HookKnows, Accepted
  <2> QED
    BY <1>1, <1>2, <1>3, <2>2, TellKeeps
<1>4. CASE faults # 0
  BY <1>1, <1>2, <1>4, TellNoticed DEF Knows
<1> QED
  BY <1>3, <1>4

\* The registration fails: the Master polls, an earlier webhook may be left.
LEMMA SetWebhookFailsKeeps ==
  ASSUME Typed, Owned, Noticed, Knows, NEW p \in Msgs, SetWebhookFails(p)
  PROVE  Owned' /\ Noticed' /\ Knows'
<1>1. /\ pc[p] = "hook" /\ Tell(p, TRUE) /\ mode' = "polling"
      /\ UNCHANGED <<host, conf, site, certs, up, base>>
      /\ \/ UNCHANGED <<hook, faults>> /\ refused' = (hook # NoHook)
         \/ faults' = faults + 1
  BY DEF SetWebhookFails
<1>2. Busy(p) /\ step[p] = "end" /\ faults \in Nat
  BY <1>1, Constants DEF Busy, Typed, SavesDeployed, TypeOK, NginxTypeOK
<1>3. CASE faults' = 0
  <2>0. faults' # faults + 1
    BY <1>2, <1>3
  <2>1. faults = 0 /\ UNCHANGED hook /\ (hook # NoHook => refused')
    BY <1>1, <1>3, <2>0, Zenon
  <2>2. HookKnows'
    BY <1>1, <2>1 DEF HookKnows, NoHook
  <2> QED
    BY <1>1, <1>2, <1>3, <2>1, <2>2, TellKeeps
<1>4. CASE faults' # 0
  BY <1>1, <1>2, <1>4, TellNoticed DEF Knows
<1> QED
  BY <1>3, <1>4

\* The mode is saved with the secret that was registered.
LEMMA SaveModeKeeps ==
  ASSUME Typed, Owned, Noticed, Knows, NEW p \in Msgs, SaveMode(p)
  PROVE  Owned' /\ Noticed' /\ Knows'
<1>1. /\ pc[p] = "mode" /\ Tell(p, TRUE) /\ secret' = sec[p]
      /\ overlap' = (p \in mixed)
      /\ UNCHANGED <<hostVars, up, base, hook, refused>>
  BY DEF SaveMode, Tell
<1>2. Busy(p) /\ step[p] = "end" /\ UNCHANGED <<host, conf, site, certs, faults>>
  BY <1>1 DEF Busy, Typed, SavesDeployed, hostVars
<1>3. CASE faults = 0
  <2>1. ~overlap' => base = dom[p] /\ (hook # NoHook => hook = Wanted(p))
    BY <1>1, <1>2, <1>3 DEF Lone, Knows, LoneKnows, AddressAt
  <2>2. HookKnows'
    BY <1>1, <2>1 DEF HookKnows, Accepted, Wanted, NoHook
  <2> QED
    BY <1>1, <1>2, <1>3, <2>2, TellKeeps
<1>4. CASE faults # 0
  BY <1>1, <1>2, <1>4, TellNoticed DEF Knows
<1> QED
  BY <1>3, <1>4

\* The Master dies: an answer that was given still holds, for no deployment was
\* under way.
LEMMA CrashKeeps ==
  ASSUME Typed, Owned, Noticed, Knows, Crash
  PROVE  Owned' /\ Noticed' /\ Knows'
<1>1. /\ up' = FALSE /\ pc' = [p \in Msgs |-> IF Working(p) THEN "done" ELSE pc[p]]
      /\ mixed' = {} /\ Cut /\ told' = IF overlap THEN None ELSE told
      /\ overlap' = FALSE /\ base' = base
  BY DEF Crash
<1>2. \A p \in Msgs : ~Working(p)' /\ ~Busy(p)' /\ step'[p] = "none"
  BY <1>1 DEF Working, Busy, Cut, NoDeployment
<1>3. Owned' /\ Noticed'
  BY <1>1, <1>2 DEF Owned, Noticed, Lone
<1>4. LoneKnows' /\ HookKnows'
  BY <1>1, <1>2 DEF LoneKnows, HookKnows, Lone
<1>5. UNCHANGED <<host, site, certs, faults>>
  BY <1>1 DEF Cut
<1>6. faults = 0 => ToldKnows'
  <2> SUFFICES ASSUME faults = 0, told # None, ~overlap
               PROVE  /\ Delivered(told.dom, told.answer)'
                      /\ told'.saved => base' = told'.dom /\ told'.answer # "failed"
    BY <1>1 DEF ToldKnows
  <2>1. \A p \in Msgs : step[p] = "none"
    BY DEF Owned, Noticed
  <2>2. conf' = conf /\ told' = told
    BY <1>1, <2>1 DEF Cut
  <2>3. Delivered(told.dom, told.answer) /\ (told.saved => base = told.dom /\ told.answer # "failed")
    BY DEF Knows, ToldKnows
  <2> QED
    BY <1>1, <1>5, <2>2, <2>3 DEF Delivered, Promised, Enabled, Passes
<1> QED
  BY <1>3, <1>4, <1>5, <1>6 DEF Knows

\* A start, and what takes the webhook away, leave it right or gone.
LEMMA TelegramKeeps ==
  ASSUME Typed, Owned, Noticed, Knows, StartWebhook \/ StartPolling \/ DeleteWebhook
  PROVE  Owned' /\ Noticed' /\ Knows'
<1>1. UNCHANGED <<host, conf, site, certs, deployVars, pc, base, sec, told, mixed, overlap>>
  BY DEF StartWebhook, StartPolling, DeleteWebhook, nginxVars, hostVars, msgVars
<1>2. \A q \in Msgs : (Busy(q)' <=> Busy(q)) /\ (Working(q)' <=> Working(q))
  BY <1>1 DEF Busy, Working
<1>3. up' /\ (up \/ ~DeleteWebhook)
  BY DEF StartWebhook, StartPolling, DeleteWebhook
<1>4. Owned' /\ Noticed'
  <2>1. Owned'
    BY <1>1, <1>2, <1>3 DEF Owned, deployVars
  <2>2. Noticed'
    BY <1>1, <1>2 DEF Noticed, Lone, Typed, TypeOK
  <2> QED
    BY <2>1, <2>2
<1>5. SUFFICES ASSUME faults' = 0 PROVE LoneKnows' /\ ToldKnows' /\ HookKnows'
  BY <1>4 DEF Knows
<1>6. faults' = faults /\ (StartPolling \/ DeleteWebhook => hook' = NoHook)
  <2>1. faults \in Nat
    BY Constants DEF Typed, TypeOK, NginxTypeOK
  <2> QED
    BY <1>5, <2>1 DEF StartWebhook, StartPolling, DeleteWebhook, nginxVars, hostVars
<1>7. UNCHANGED nginxVars
  BY <1>1, <1>6 DEF nginxVars, hostVars
<1>8. LoneKnows'
  <2> SUFFICES ASSUME NEW q \in Msgs, Lone(q)' PROVE SiteAt(q)' /\ AddressAt(q)'
    BY DEF LoneKnows
  <2>1. Lone(q) /\ Working(q)
    BY <1>1, <1>2 DEF Lone, Working
  <2>2. SiteAt(q) /\ AddressAt(q)
    BY <1>5, <1>6, <2>1 DEF Knows, LoneKnows
  <2>3. DeleteWebhook
    BY <2>1 DEF Owned, StartWebhook, StartPolling
  <2>4. hook' = NoHook /\ secret' = secret
    BY <1>6, <2>3 DEF DeleteWebhook
  <2> QED
    BY <1>1, <1>7, <2>2, <2>4, SiteUntouched DEF AddressAt, NoHook, deployVars
<1>9. ToldKnows'
  BY <1>1, <1>5, <1>6, <1>7, SiteUntouched DEF Knows, ToldKnows
<1>10. HookKnows'
  <2>1. CASE StartWebhook
    BY <1>1, <2>1 DEF StartWebhook, HookKnows, Accepted
  <2>2. CASE StartPolling \/ DeleteWebhook
    BY <1>6, <2>2 DEF HookKnows, NoHook
  <2> QED
    BY <2>1, <2>2
<1> QED
  BY <1>8, <1>9, <1>10

\* At first nobody is busy and nobody was told anything, and a webhook is the
\* address's.
LEMMA InitKnows == Init => Owned /\ Noticed /\ Knows
<1> SUFFICES ASSUME Init PROVE Owned /\ Noticed /\ Knows
  OBVIOUS
<1>1. \A p \in Msgs : step[p] = "none" /\ ~Busy(p) /\ ~Working(p)
  BY DEF Init, NginxInit, Busy, Working
<1>2. Owned /\ Noticed /\ LoneKnows /\ ToldKnows
  BY <1>1 DEF Init, Owned, Noticed, Lone, LoneKnows, ToldKnows
<1>3. HookKnows
  BY DEF Init, HookKnows, Accepted
<1> QED
  BY <1>2, <1>3 DEF Knows

\* Every step keeps it.
LEMMA StepKnows ==
  ASSUME Typed, Owned, Noticed, Knows, [Next]_vars
  PROVE  Owned' /\ Noticed' /\ Knows'
<1>1. ASSUME NEW p \in Msgs,
             Wizard(p) \/ (\E o \in Owners, t \in Texts : Polled(p, o, t) \/ Posted(p, o, t))
      PROVE  Owned' /\ Noticed' /\ Knows'
  BY <1>1, TalkKeeps, DeployKeeps, DeploymentKeeps, GiveUpKeeps, SaveBaseKeeps, SetWebhookKeeps,
     SetWebhookFailsKeeps, SaveModeKeeps DEF Wizard, Answer
<1>2. CASE Crash \/ StartWebhook \/ StartPolling \/ DeleteWebhook
  BY <1>2, CrashKeeps, TelegramKeeps
<1>3. CASE UNCHANGED vars
  <2>1. /\ UNCHANGED nginxVars
        /\ UNCHANGED <<up, pc, base, mode, secret, sec, hook, told, mixed, overlap, refused>>
    BY <1>3 DEF vars, msgVars, cfgVars, history
  <2>2. UNCHANGED <<step, dom, answer>>
    BY <2>1 DEF nginxVars, deployVars
  <2>3. \A q \in Msgs : (Busy(q)' <=> Busy(q)) /\ (Working(q)' <=> Working(q)) /\ (Lone(q)' <=> Lone(q))
    BY <2>1 DEF Busy, Working, Lone
  <2>4. Owned' /\ Noticed'
    BY <2>1, <2>2, <2>3, TalkNoticed
  <2>5. LoneKnows => LoneKnows'
    BY <2>1, <2>2, <2>3, SiteUntouched DEF LoneKnows, AddressAt, Wanted
  <2>6. ToldKnows => ToldKnows'
    BY <2>1, SiteUntouched DEF ToldKnows
  <2>7. HookKnows => HookKnows'
    BY <2>1 DEF HookKnows, Accepted
  <2> QED
    BY <2>1, <2>4, <2>5, <2>6, <2>7, SiteUntouched DEF Knows
<1> QED
  BY <1>1, <1>2, <1>3 DEF Next

\* The invariant behind the three theorems.
LEMMA KnowsInductive == Spec => [](Owned /\ Noticed /\ Knows)
<1>1. Typed /\ (Owned /\ Noticed /\ Knows) /\ [Next]_vars => (Owned /\ Noticed /\ Knows)'
  BY StepKnows
<1> QED
  BY <1>1, InitKnows, TypedInductive, PTL DEF Spec

\* When nothing failed, overlapped or is under way, what the owner was told of
\* his last deployment is what nginx reads and accepts: the 443 block he was
\* promised, or the one on port 80 after certbot failed or after a rollback -
\* for any number of messages, owners and domains, and on any kind of host.
\* (nginx.go:105-159)
THEOREM AnswersHold == Spec => []AnswerIsTrue
<1>1. Knows => AnswerIsTrue
  BY DEF Knows, ToldKnows, AnswerIsTrue, Settled, Delivered
<1> QED
  BY <1>1, KnowsInductive, PTL

\* At rest the webhook is the public address's and the address an owner was
\* told of is the site's, whatever crashes, fallbacks and starts there were,
\* when no deployments overlapped and Telegram has not refused the last.
\* (handlers.go:1023-1056)
THEOREM AddressesAgree == Spec => []AddressAgrees
<1>1. Knows => AddressAgrees
  <2> SUFFICES ASSUME Knows, Settled, faults = 0
               PROVE  /\ hook # NoHook /\ ~refused => hook.dom = base
                      /\ told # None /\ told.saved => base = told.dom /\ Enabled.dom = base
    BY DEF AddressAgrees
  <2>1. up /\ ~overlap /\ \A p \in Msgs : pc[p] # "hook"
    BY DEF Settled, Busy
  <2> QED
    BY <2>1 DEF Knows, ToldKnows, HookKnows, Delivered
<1> QED
  BY <1>1, KnowsInductive, PTL

\* A Master in webhook mode accepts what Telegram posts, however many wizards
\* made or registered secrets before, one after the other.
\* (app.go:120-126, handlers.go:1032-1051, 1079-1086)
THEOREM PostsAreAccepted == Spec => []PostsAccepted
<1>1. Knows => PostsAccepted
  BY DEF Knows, HookKnows, PostsAccepted
<1> QED
  BY <1>1, KnowsInductive, PTL
=============================================================================
