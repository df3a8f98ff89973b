-------------------------------- MODULE Nginx --------------------------------
(***************************************************************************)
(* DeployNginx of internal/master/nginx.go: the site it leaves in nginx's  *)
(* directories.  Every write of a file and every command it runs is a      *)
(* step; deployments of two goroutines may overlap.                        *)
(***************************************************************************)
EXTENDS Naturals

CONSTANTS
  Msgs,         \* the goroutines that may deploy, one for each Telegram message
  Domains,      \* what the wizard takes for a domain
  Unservable,   \* those for which nginx -t refuses a server_name line
  MaxFaults     \* bound: writes that fail, calls whose outcome is lost

ASSUME NginxAssumption == Unservable \subseteq Domains /\ MaxFaults \in Nat

VARIABLES
  host,     \* of the machine: sites, it has sites-available; links, it can
            \* make the link; ssl, its nginx accepts the 443 block
  conf,     \* ip-sentinel.conf in sites-available, or in conf.d
  site,     \* in sites-enabled: nothing, a link to conf, or a copy
  certs,    \* domains certbot has issued a certificate for
  step,     \* how far each goroutine has come, "none" if it does not deploy
  dom,      \* its domain
  tls,      \* whether 443 is asked for
  answer,   \* what DeployNginx returns
  faults

hostVars   == <<host, conf, site, certs, faults>>
deployVars == <<step, dom, tls, answer>>
nginxVars  == <<hostVars, deployVars>>

Plain(d) == [kind |-> "plain", dom |-> d]
TLS(d)   == [kind |-> "tls", dom |-> d]
Missing  == [kind |-> "none"]
Empty    == [kind |-> "empty"]   \* cut and not written
Link     == [kind |-> "link"]

Contents == {Missing, Empty} \cup {Plain(d) : d \in Domains} \cup {TLS(d) : d \in Domains}
Steps    == {"write", "enable", "test", "reload", "certbot", "tls", "relink", "retest", "rollback", "end"}
Answers  == {"failed", "plain", "kept", "https", "rolledback"}

\* What nginx reads, and whether nginx -t is content with it.
Enabled == IF host.sites /\ site # Link THEN site ELSE conf
Passes(c) ==
  /\ c.kind \in {"plain", "tls"} => c.dom \notin Unservable
  /\ c.kind = "tls" => host.ssl /\ c.dom \in certs

NginxTypeOK ==
  /\ host \in [sites : BOOLEAN, links : BOOLEAN, ssl : BOOLEAN]
  /\ conf \in Contents /\ site \in Contents \cup {Link}
  /\ certs \subseteq Domains
  /\ step \in [Msgs -> Steps \cup {"none"}]
  /\ dom \in [Msgs -> Domains \cup {"none"}]
  /\ tls \in [Msgs -> BOOLEAN]
  /\ answer \in [Msgs -> Answers \cup {"none"}]
  /\ \A p \in Msgs : step[p] # "none" => dom[p] \in Domains
  /\ \A p \in Msgs : step[p] = "end" => answer[p] \in Answers
  /\ faults \in 0..MaxFaults

NginxInit ==
  /\ host \in [sites : BOOLEAN, links : BOOLEAN, ssl : BOOLEAN]
  /\ host.links => host.sites
  /\ certs = {} /\ faults = 0
  /\ step = [p \in Msgs |-> "none"]
  /\ dom = [p \in Msgs |-> "none"]
  /\ tls = [p \in Msgs |-> FALSE]
  /\ answer = [p \in Msgs |-> "none"]

Deploying(p) == step[p] \notin {"none", "end"}

Start(p, d, enableTLS) ==
  /\ step' = [step EXCEPT ![p] = "write"]
  /\ dom' = [dom EXCEPT ![p] = d]
  /\ tls' = [tls EXCEPT ![p] = enableTLS]
  /\ UNCHANGED <<hostVars, answer>>

Goes(p, from, to) ==
  /\ step[p] = from
  /\ step' = [step EXCEPT ![p] = to]
  /\ UNCHANGED <<dom, tls, answer>>

\* What is known of a deployment goes with its goroutine.
Forget(p) ==
  /\ step' = [step EXCEPT ![p] = "none"]
  /\ dom' = [dom EXCEPT ![p] = "none"]
  /\ tls' = [tls EXCEPT ![p] = FALSE]
  /\ answer' = [answer EXCEPT ![p] = "none"]

\* ... or with the process.
NoDeployment ==
  /\ step' = [p \in Msgs |-> "none"]
  /\ dom' = [p \in Msgs |-> "none"]
  /\ tls' = [p \in Msgs |-> FALSE]
  /\ answer' = [p \in Msgs |-> "none"]

Returns(p, from, what) ==
  /\ step[p] = from
  /\ step' = [step EXCEPT ![p] = "end"]
  /\ answer' = [answer EXCEPT ![p] = what]
  /\ UNCHANGED <<dom, tls>>

\* A write fails: the file was not opened, or cut and not written.
WriteFails ==
  /\ faults < MaxFaults /\ faults' = faults + 1
  /\ conf' \in {conf, Empty}
  /\ UNCHANGED <<host, site, certs>>

\* The process dies, maybe with a file cut.
Cut ==
  /\ NoDeployment
  /\ conf' \in {conf} \cup {Empty : p \in {q \in Msgs : step[q] \in {"write", "tls", "rollback"}}}
  /\ UNCHANGED <<host, site, certs, faults>>

-----------------------------------------------------------------------------
\* The proxy on port 80 comes first, TLS or not.
WritePlain(p) ==
  \/ /\ Goes(p, "write", "enable")
     /\ conf' = Plain(dom[p])
     /\ UNCHANGED <<host, site, certs, faults>>
  \/ Returns(p, "write", "failed") /\ WriteFails

\* The enabled file is replaced: by a link or, if that cannot be made, a copy,
\* whose errors are ignored.
Enable(p) ==
  /\ Goes(p, "enable", "test")
  /\ \/ ~host.sites /\ UNCHANGED <<site, faults>>
     \/ host.sites /\ host.links /\ site' = Link /\ UNCHANGED faults
     \/ host.sites /\ ~host.links /\ site' = Plain(dom[p]) /\ UNCHANGED faults
     \/ /\ host.sites /\ ~host.links /\ site' = Missing
        /\ faults < MaxFaults /\ faults' = faults + 1
  /\ UNCHANGED <<host, conf, certs>>

\* nginx -t; what it refuses stays where it is.
Test(p) ==
  /\ IF Passes(Enabled) THEN Goes(p, "test", "reload") ELSE Returns(p, "test", "failed")
  /\ UNCHANGED hostVars

\* systemctl reload nginx, or nginx -s reload.
Reload(p) ==
  /\ \/ tls[p] /\ Goes(p, "reload", "certbot")
     \/ ~tls[p] /\ Returns(p, "reload", "plain")
     \/ Returns(p, "reload", "failed")
  /\ UNCHANGED hostVars

\* A bug to rule out: a failure of certbot is not noticed.
CertbotUnchecked(p) ==
  /\ Goes(p, "certbot", "tls")
  /\ certs' \in {certs, certs \cup {dom[p]}}
  /\ UNCHANGED <<host, conf, site, faults>>

Certbot(p) ==
  \/ /\ Goes(p, "certbot", "tls")
     /\ certs' = certs \cup {dom[p]}
     /\ UNCHANGED <<host, conf, site, faults>>
  \/ Returns(p, "certbot", "kept") /\ UNCHANGED hostVars

WriteTLS(p) ==
  \/ /\ Goes(p, "tls", IF host.sites THEN "relink" ELSE "retest")
     /\ conf' = TLS(dom[p])
     /\ UNCHANGED <<host, site, certs, faults>>
  \/ Returns(p, "tls", "kept") /\ WriteFails

\* The enabled file is written, too, through the link or into the copy; an
\* error is ignored.
WriteEnabled(p) ==
  /\ Goes(p, "relink", "retest")
  /\ \/ /\ IF site = Link THEN conf' = TLS(dom[p]) /\ UNCHANGED site
                          ELSE site' = TLS(dom[p]) /\ UNCHANGED conf
        /\ UNCHANGED <<host, certs, faults>>
     \/ site = Link /\ WriteFails
     \/ /\ site # Link /\ faults < MaxFaults /\ faults' = faults + 1
        /\ site' \in {site, Empty}
        /\ UNCHANGED <<host, conf, certs>>

\* Reloading comes next; its result is ignored.
Retest(p) ==
  /\ IF Passes(Enabled) THEN Returns(p, "retest", "https") ELSE Goes(p, "retest", "rollback")
  /\ UNCHANGED hostVars

\* A bug to rule out: port 80 is reported and not restored.
RollbackNot(p) == Returns(p, "rollback", "rolledback") /\ UNCHANGED hostVars

\* Only conf is written back, and its error ignored.
Rollback(p) ==
  /\ Returns(p, "rollback", "rolledback")
  /\ \/ conf' = Plain(dom[p]) /\ UNCHANGED <<host, site, certs, faults>>
     \/ WriteFails

DeployStep(p) ==
  \/ WritePlain(p) \/ Enable(p) \/ Test(p) \/ Reload(p) \/ Certbot(p)
  \/ WriteTLS(p) \/ WriteEnabled(p) \/ Retest(p) \/ Rollback(p)
=============================================================================
