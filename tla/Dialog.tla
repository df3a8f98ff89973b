-------------------------------- MODULE Dialog --------------------------------
(***************************************************************************)
(* The /nginx wizard: from the messages of an owner to a deployed site,    *)
(* the public address in master.conf and the webhook at Telegram.          *)
(* Sources: Dispatch, startNginxWizard and handleNginxWizard of            *)
(* internal/master/handlers.go, EnableWebhookFromConfig, StartTG; the site *)
(* itself is module Nginx.                                                 *)
(*                                                                         *)
(* A message polled is handled before the next is; a message posted has a  *)
(* goroutine of its own, and then two answers may be handled at once.  How *)
(* the Master changes between the two is module TgMode's subject, here it  *)
(* may lose its webhook at any time.  A SaveKeys is one step, which module *)
(* ConfFile shows it to be for those who only save.                        *)
(***************************************************************************)
EXTENDS Nginx

CONSTANTS
  Owners,
  Cancel, Open, Dash,   \* the texts "cancel", "/nginx" and "-"
  Texts,                \* what owners write, or the buttons they press
  Refused,              \* the domains ValidateSecureHTTPSURL refuses
  Given,                \* where the wizards of a Master that runs may stand
  Old,                  \* the domain of an address from an earlier life
  None,
  MaxCrashes            \* bound: how often the Master dies

ASSUME DialogAssumption ==
  /\ {Cancel, Open, Dash} \subseteq Texts
  /\ Domains = Texts \ {Cancel, Open} /\ Refused \subseteq Domains
  /\ Given \subseteq [Owners -> Domains \cup {None, "domain"}] /\ Old \in Domains \ (Refused \cup Unservable)
  /\ Msgs \subseteq Nat \ {0} /\ MaxCrashes \in Nat

VARIABLES
  up, crashes,
  nginx,      \* h.nginx: None, "domain", or the domain the owner has given
  msg,        \* each message: its owner and text, None before it is sent
  pc,         \* how far its goroutine has come
  st,         \* the wizard's state as it has read it
  polled,     \* the messages that came by getUpdates
  base, mode, secret,   \* PUBLIC_BASE_URL, TG_MODE, WEBHOOK_SECRET: the Config
                        \* and the file; a secret is named after its maker
  sec,        \* the secret a goroutine registers
  inbound,    \* a.tgInbound: a POST has come
  hook,       \* at Telegram: the domain and the secret
  \* History
  told,       \* the last deployment an owner got an answer about
  mixed,      \* messages whose deployment overlapped another
  overlap,    \* nothing has settled since such a one
  refused     \* the last setWebhook failed and has left another webhook

cfgVars == <<base, mode, inbound, secret, sec, hook>>
msgVars == <<nginx, msg, pc, st, polled>>
history == <<told, mixed, overlap, refused>>
vars == <<nginxVars, up, crashes, msgVars, cfgVars, history>>

Secrets == Msgs \cup {0}   \* 0: made at a start, or in an earlier life
NoHook  == [dom |-> None, sec |-> None]

Busy(p)    == pc[p] \in {"deploy", "hook", "mode"}
Working(p) == Busy(p) \/ pc[p] \in {"dispatch", "answer"}

TypeOK ==
  /\ NginxTypeOK
  /\ up \in BOOLEAN /\ refused \in BOOLEAN /\ crashes \in 0..MaxCrashes
  /\ nginx \in [Owners -> Domains \cup {None, "domain"}]
  /\ msg \in [Msgs -> [owner : Owners, text : Texts] \cup {None}]
  /\ pc \in [Msgs -> {"none", "dispatch", "answer", "deploy", "hook", "mode", "done"}]
  /\ st \in [Msgs -> Domains \cup {None, "domain"}]
  /\ \A p \in Msgs :
       /\ pc[p] \in {"dispatch", "answer"} => msg[p] \in [owner : Owners, text : Texts]
       /\ pc[p] \in {"hook", "mode"} => sec[p] \in Secrets
  /\ polled \subseteq Msgs /\ mixed \subseteq Msgs
  /\ base \in Domains \cup {None} /\ mode \in {"polling", "webhook"} /\ inbound \in BOOLEAN
  /\ secret \in Secrets \cup {None} /\ sec \in [Msgs -> Secrets \cup {None}]
  /\ hook \in [dom : Domains \cup {None}, sec : Secrets \cup {None}]

\* A Master that has been running, with owners in the middle of their wizards:
\* one that polls and has no site, or one with an address and a webhook.
Init ==
  /\ NginxInit
  /\ up = TRUE /\ crashes = 0
  /\ nginx \in Given
  /\ msg = [p \in Msgs |-> None]
  /\ pc = [p \in Msgs |-> "none"]
  /\ st = [p \in Msgs |-> None]
  /\ sec = [p \in Msgs |-> None]
  /\ polled = {} /\ inbound = FALSE
  /\ \/ /\ base = None /\ mode = "polling" /\ secret = None /\ hook = NoHook
        /\ conf = Missing /\ site = Missing
     \/ /\ base = Old /\ mode = "webhook" /\ secret = 0 /\ hook = [dom |-> Old, sec |-> 0]
        /\ conf = Plain(Old) /\ site = IF host.links THEN Link ELSE IF host.sites THEN Plain(Old) ELSE Missing
  /\ told = None /\ mixed = {} /\ overlap = FALSE /\ refused = FALSE

-----------------------------------------------------------------------------
(* Messages.                                                               *)

Goto(p, to) == pc' = [pc EXCEPT ![p] = to]

\* Messages are numbered as they come.
NextMsg == {p \in Msgs : pc[p] = "none" /\ \A q \in Msgs : pc[q] = "none" => p <= q}

Arrives(p, o, t) ==
  /\ up /\ p \in NextMsg
  /\ msg' = [msg EXCEPT ![p] = [owner |-> o, text |-> t]]
  /\ Goto(p, "dispatch")
  /\ UNCHANGED <<nginxVars, up, crashes, nginx, st, base, secret, sec, hook, history>>

\* The poll loop handles one update after the other.
Polled(p, o, t) ==
  /\ Arrives(p, o, t)
  /\ hook = NoHook /\ mode = "polling"
  /\ \A q \in polled : ~Working(q)
  /\ polled' = polled \cup {p}
  /\ UNCHANGED <<mode, inbound>>

\* The secret Telegram sends is one the Master accepts.
Accepted == secret = None \/ hook.sec = secret

\* handleWebhook: the first POST confirms the webhook; each has a goroutine.
Posted(p, o, t) ==
  /\ Arrives(p, o, t)
  /\ hook # NoHook /\ Accepted
  /\ IF base # None /\ ~inbound THEN inbound' = TRUE /\ mode' = "webhook" ELSE UNCHANGED <<mode, inbound>>
  /\ UNCHANGED polled

\* The goroutine has no more use for the message.
Read(p) ==
  /\ msg' = [msg EXCEPT ![p] = None]
  /\ st' = [st EXCEPT ![p] = None]

Ends(p) == Goto(p, "done") /\ polled' = polled \ {p}

\* Dispatch reads the wizard's state, without a lock.
Dispatch(p) ==
  /\ pc[p] = "dispatch"
  /\ IF nginx[msg[p].owner] = None /\ msg[p].text # Open
       THEN Ends(p) /\ Read(p)   \* a command of another module
       ELSE /\ Goto(p, "answer")
            /\ st' = [st EXCEPT ![p] = nginx[msg[p].owner]]
            /\ UNCHANGED <<msg, polled>>
  /\ UNCHANGED <<nginxVars, up, crashes, nginx, cfgVars, history>>

Reply(p, state) ==
  /\ pc[p] = "answer"
  /\ Ends(p) /\ Read(p)
  /\ nginx' = [nginx EXCEPT ![msg[p].owner] = state]
  /\ UNCHANGED <<nginxVars, up, crashes, cfgVars, history>>

startNginxWizard(p) == st[p] = None /\ Reply(p, "domain")

CancelWizard(p) == st[p] # None /\ msg[p].text = Cancel /\ Reply(p, None)

\* Whatever has no slash and is no IP address is taken for a domain.
GiveDomain(p) ==
  /\ st[p] = "domain" /\ msg[p].text # Cancel
  /\ Reply(p, IF msg[p].text \in Domains THEN msg[p].text ELSE nginx[msg[p].owner])

\* The last answer: whatever is not "-" is an e-mail address.
Deploy(p) ==
  /\ pc[p] = "answer" /\ st[p] \in Domains /\ msg[p].text # Cancel
  /\ nginx' = [nginx EXCEPT ![msg[p].owner] = None]
  /\ Goto(p, "deploy") /\ Read(p)
  /\ Start(p, st[p], msg[p].text # Dash)
  /\ LET others == {q \in Msgs \ {p} : Busy(q)} IN
       /\ mixed' = IF others = {} THEN mixed ELSE mixed \cup others \cup {p}
       /\ overlap' = (overlap \/ others # {})
  /\ told' = None
  /\ UNCHANGED <<up, crashes, polled, cfgVars, refused>>

Deployment(p) ==
  /\ pc[p] = "deploy" /\ DeployStep(p)
  /\ UNCHANGED <<up, crashes, msgVars, cfgVars, history>>

\* The owner is told.
Tell(p, saved) ==
  /\ Ends(p) /\ Forget(p)
  /\ sec' = [sec EXCEPT ![p] = None]
  /\ told' = [dom |-> dom[p], answer |-> answer[p], saved |-> saved]
  /\ overlap' = IF saved THEN p \in mixed ELSE overlap
  /\ mixed' = mixed \ {p}

\* An error of DeployNginx ends it, and so does an address that is refused.
GiveUp(p) ==
  /\ pc[p] = "deploy" /\ step[p] = "end"
  /\ answer[p] = "failed" \/ dom[p] \in Refused
  /\ Tell(p, FALSE)
  /\ UNCHANGED <<hostVars, up, crashes, nginx, msg, st, base, mode, inbound, secret, hook, refused>>

\* Two bugs to rule out: an empty secret is registered; a secret is made every time.
SaveBaseNoSecret(p) ==
  /\ pc[p] = "deploy" /\ step[p] = "end"
  /\ answer[p] # "failed" /\ dom[p] \notin Refused
  /\ base' = dom[p]
  /\ sec' = [sec EXCEPT ![p] = secret]
  /\ Goto(p, "hook")
  /\ UNCHANGED <<nginxVars, up, crashes, nginx, msg, st, polled, mode, inbound, secret, hook, history>>

SaveBaseNewSecret(p) ==
  /\ pc[p] = "deploy" /\ step[p] = "end"
  /\ answer[p] # "failed" /\ dom[p] \notin Refused
  /\ base' = dom[p]
  /\ sec' = [sec EXCEPT ![p] = p]
  /\ Goto(p, "hook")
  /\ UNCHANGED <<nginxVars, up, crashes, nginx, msg, st, polled, mode, inbound, secret, hook, history>>

SaveBase(p) ==
  /\ pc[p] = "deploy" /\ step[p] = "end"
  /\ answer[p] # "failed" /\ dom[p] \notin Refused
  /\ base' = dom[p]
  /\ sec' = [sec EXCEPT ![p] = IF secret = None THEN p ELSE secret]
  /\ Goto(p, "hook")
  /\ UNCHANGED <<nginxVars, up, crashes, nginx, msg, st, polled, mode, inbound, secret, hook, history>>

\* What a goroutine asks Telegram for.
Wanted(p) == [dom |-> dom[p], sec |-> sec[p]]

SetWebhook(p) ==
  /\ pc[p] = "hook"
  /\ hook' = Wanted(p) /\ refused' = FALSE
  /\ Goto(p, "mode")
  /\ UNCHANGED <<nginxVars, up, crashes, nginx, msg, st, polled, base, mode, inbound, secret, sec,
                 told, mixed, overlap>>

\* An error; Telegram may have done it all the same.
SetWebhookFails(p) ==
  /\ pc[p] = "hook"
  /\ \/ UNCHANGED <<hook, faults>> /\ refused' = (hook # NoHook)
     \/ faults < MaxFaults /\ faults' = faults + 1 /\ hook' = Wanted(p) /\ refused' = FALSE
  /\ mode' = "polling" /\ secret' = sec[p]
  /\ Tell(p, TRUE)
  /\ UNCHANGED <<host, conf, site, certs, up, crashes, nginx, msg, st, base, inbound>>

SaveMode(p) ==
  /\ pc[p] = "mode"
  /\ mode' = "webhook" /\ secret' = sec[p]
  /\ Tell(p, TRUE)
  /\ UNCHANGED <<hostVars, up, crashes, nginx, msg, st, base, inbound, hook, refused>>

-----------------------------------------------------------------------------
(* The process, and Telegram.                                              *)

Crash ==
  /\ up /\ crashes < MaxCrashes
  /\ up' = FALSE /\ crashes' = crashes + 1
  /\ nginx' = [o \in Owners |-> None]
  /\ pc' = [p \in Msgs |-> IF Working(p) THEN "done" ELSE pc[p]]
  /\ msg' = [p \in Msgs |-> None] /\ st' = [p \in Msgs |-> None] /\ sec' = [p \in Msgs |-> None]
  /\ polled' = {} /\ mixed' = {}
  /\ Cut
  /\ told' = IF overlap THEN None ELSE told
  /\ inbound' = FALSE /\ overlap' = FALSE
  /\ UNCHANGED <<base, mode, secret, hook, refused>>

\* A bug to rule out: a start takes the registered webhook for the wanted one.
StartWebhookAsIs ==
  /\ ~up /\ mode = "webhook" /\ base # None
  /\ up' = TRUE
  /\ UNCHANGED <<nginxVars, crashes, msgVars, cfgVars, history>>

\* StartTG with a webhook wanted: EnableWebhookFromConfig ...
StartWebhook ==
  /\ ~up /\ mode = "webhook" /\ base # None
  /\ up' = TRUE
  /\ secret' = IF secret = None THEN 0 ELSE secret
  /\ hook' = [dom |-> base, sec |-> secret'] /\ refused' = FALSE
  /\ UNCHANGED <<nginxVars, crashes, msgVars, base, mode, inbound, sec, told, mixed, overlap>>

\* ... and without one, or after an error: deleteWebhook, whose error is ignored.
StartPolling ==
  /\ ~up
  /\ up' = TRUE /\ mode' = "polling"
  /\ secret' = IF secret = None /\ mode = "webhook" /\ base # None THEN 0 ELSE secret
  /\ \/ hook' = NoHook /\ refused' = FALSE /\ UNCHANGED faults
     \/ hook # NoHook /\ faults < MaxFaults /\ faults' = faults + 1 /\ UNCHANGED <<hook, refused>>
  /\ UNCHANGED <<host, conf, site, certs, deployVars, crashes, msgVars, base, inbound, sec,
                 told, mixed, overlap>>

\* fallbackToPolling, or a poll loop that meets a webhook.
DeleteWebhook ==
  /\ up /\ hook # NoHook
  /\ hook' = NoHook /\ mode' = "polling" /\ inbound' = FALSE /\ refused' = FALSE
  /\ UNCHANGED <<nginxVars, up, crashes, msgVars, base, secret, sec, told, mixed, overlap>>

-----------------------------------------------------------------------------
Answer(p) == startNginxWizard(p) \/ CancelWizard(p) \/ GiveDomain(p) \/ Deploy(p)

Wizard(p) ==
  \/ Dispatch(p) \/ Answer(p) \/ Deployment(p) \/ GiveUp(p) \/ SaveBase(p)
  \/ SetWebhook(p) \/ SetWebhookFails(p) \/ SaveMode(p)

Next ==
  \/ \E p \in Msgs :
       Wizard(p) \/ (\E o \in Owners, t \in Texts : Polled(p, o, t) \/ Posted(p, o, t))
  \/ Crash \/ StartWebhook \/ StartPolling \/ DeleteWebhook

Spec == Init /\ [][Next]_vars

-----------------------------------------------------------------------------
\* nginx is never left with a 443 block without its certificate, which would
\* keep it from starting: not between two steps, after a crash or a failed
\* write, nor when deployments overlap.  (nginx.go:15, 129-157)
CertFirst == Enabled.kind = "tls" => Enabled.dom \in certs

Settled == up /\ ~overlap /\ \A p \in Msgs : ~Busy(p)

\* What an answer promises of the site; nothing is said of a failure, and a
\* rollback where the site is not a copy must have reached what nginx reads.
Promised(d, what) ==
  /\ what = "https" => Enabled = TLS(d) /\ Passes(Enabled)
  /\ what \in {"plain", "kept"} => Enabled = Plain(d) /\ Passes(Enabled)
  /\ what = "rolledback" /\ host.sites = host.links => Enabled = Plain(d) /\ Passes(Enabled)

\* What the owner was told about his site is what nginx reads, and what nginx -t
\* accepts: also after a rollback, where the site is not a copy - that keeps
\* the 443 block.  (nginx.go:105-159)
AnswerIsTrue == Settled /\ told # None /\ faults = 0 => Promised(told.dom, told.answer)

\* At rest the webhook is the public address's, in either mode, and the public
\* address that an owner was told of is the site's, through crashes, fallbacks
\* and new starts - unless two deployments overlapped, or the last setWebhook
\* failed and an earlier webhook is left.  (handlers.go:1023-1056)
AddressAgrees ==
  Settled /\ faults = 0 =>
    /\ hook # NoHook /\ ~refused => hook.dom = base
    /\ told # None /\ told.saved => base = told.dom /\ Enabled.dom = base

\* A Master in webhook mode accepts the secret Telegram sends: the wizard that
\* makes a secret registers it before it is the Master's, and it is made once.
\* (app.go:120-126, handlers.go:1032-1051, 1079-1086)
PostsAccepted ==
  up /\ mode = "webhook" /\ hook # NoHook /\ ~overlap /\ faults = 0 => Accepted
=============================================================================
