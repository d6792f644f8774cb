--------------------------------- MODULE Edge ---------------------------------
(***************************************************************************)
(* What participants reach a deployment through (ridge/deploy/local.py):   *)
(* the certificate of the edge proxy, generated by the event's own CA or    *)
(* installed from files outside, and the Windows host's relays to the       *)
(* desktops' workers, each a firewall rule and a portproxy entry.  The      *)
(* infrastructure stage of up sets them up, that stage's and the next one's *)
(* probes look at them, and down takes the relays away.                    *)
(*                                                                         *)
(* local.json and the files it names are the organizer's and not among the *)
(* journal's fingerprints: they may change between two commands, and the    *)
(* files also under one.  A command may be killed at any step.             *)
(***************************************************************************)
EXTENDS Integers

CONSTANTS
  Port,       \* the relays' listening ports
  Target,     \* desktops' addresses
  MaxChanges, \* bound on changes of local.json and renewals of the pair together
  MaxFaults   \* bound on kills

VARIABLES
  local,         \* local.json: the TLS mode and the relays' targets
  source,        \* the issue each file of the external pair comes from
  internal,      \* the event CA's material: "none", "partial" or "whole"
  pair,          \* participant.pem and participant-key.pem
  conf,          \* the mode participant-tls.conf was rendered for
  served,        \* the mode and the certificate the edge proxy loaded; NotServed
  rule, proxy,   \* per port: the firewall rule is there; the portproxy's target
  proc,          \* the command under way, with the local.json it read
  changes, faults

vars == <<local, source, internal, pair, conf, served, rule, proxy, proc, changes, faults>>

None == "none"
Event == 0  \* a file issued by the event CA; the external issues are numbered from 1
Local == [mode : {"generated", "external"}, relays : [Port -> Target \cup {None}]]
NoPair == [pem |-> -1, key |-> -1]
NotServed == [mode |-> None, pem |-> -1]
NoRelays == [p \in Port |-> None]
Idle == [at |-> "idle", local |-> [mode |-> "generated", relays |-> NoRelays], todo |-> {}, port |-> CHOOSE p \in Port : TRUE,
         probing |-> FALSE, applied |-> FALSE]

Init ==
  /\ local \in Local /\ source = [pem |-> 1, key |-> 1]
  /\ internal = "none" /\ pair = NoPair /\ conf = None /\ served = NotServed
  /\ rule = [p \in Port |-> FALSE] /\ proxy = NoRelays
  /\ proc = Idle /\ changes = 0 /\ faults = 0

Configured(l) == {p \in Port : l.relays[p] # None}
External == proc.local.mode = "external"
Go(step) == proc' = [proc EXCEPT !.at = step]
Fail == proc' = Idle

\* A probe that fails: after a down the stage is applied again, once.
Refused ==
  IF ~proc.probing \/ proc.applied \/ served # NotServed THEN Fail
  ELSE proc' = [proc EXCEPT !.at = "rule", !.todo = Configured(proc.local), !.probing = FALSE]

-----------------------------------------------------------------------------
(* The organizer *)

Reconfigure ==
  /\ changes < MaxChanges /\ changes' = changes + 1
  /\ local' \in Local \ {local}
  /\ UNCHANGED <<source, internal, pair, conf, served, rule, proxy, proc, faults>>

\* A renewal writes one file after the other.
Renew ==
  /\ IF source.pem = source.key
       THEN /\ changes < MaxChanges /\ changes' = changes + 1
            /\ source' = [source EXCEPT !.pem = @ + 1]
       ELSE source' = [source EXCEPT !.key = source.pem] /\ UNCHANGED changes
  /\ UNCHANGED <<local, internal, pair, conf, served, rule, proxy, proc, faults>>

Kill ==
  /\ proc.at \notin {"idle", "verified", "stopped"}
  /\ faults < MaxFaults /\ faults' = faults + 1
  /\ Fail
  /\ UNCHANGED <<local, source, internal, pair, conf, served, rule, proxy, changes>>

-----------------------------------------------------------------------------
(* up: the relays *)

\* A stage that was verified is probed first and, after a down, applied if that fails.
UpBegin(probing) ==
  /\ proc.at \in {"idle", "verified", "stopped"}
  /\ proc' = [Idle EXCEPT !.at = IF probing THEN "certificate" ELSE "rule", !.local = local,
                          !.todo = Configured(local), !.probing = probing]
  /\ UNCHANGED <<local, source, internal, pair, conf, served, rule, proxy, changes, faults>>

\* One configured relay after another: its rule is replaced, then its proxy entry, each
\* by a removal and an addition (the two in the middle are one step here).
RemoveRule(p) ==
  /\ proc.at = "rule" /\ p \in proc.todo
  /\ rule' = [rule EXCEPT ![p] = FALSE]
  /\ proc' = [proc EXCEPT !.at = "allow", !.port = p, !.todo = @ \ {p}]
  /\ UNCHANGED <<local, source, internal, pair, conf, served, proxy, changes, faults>>

AddRule ==
  /\ proc.at = "allow"
  /\ rule' = [rule EXCEPT ![proc.port] = TRUE]
  /\ proxy' = [proxy EXCEPT ![proc.port] = None]
  /\ Go("forward")
  /\ UNCHANGED <<local, source, internal, pair, conf, served, changes, faults>>

Forward ==
  /\ proc.at = "forward"
  /\ proxy' = [proxy EXCEPT ![proc.port] = proc.local.relays[proc.port]]
  /\ Go("rule")
  /\ UNCHANGED <<local, source, internal, pair, conf, served, rule, changes, faults>>

-----------------------------------------------------------------------------
(* up: the certificates *)

RenderTls ==
  /\ proc.at = "rule" /\ proc.todo = {}
  /\ conf' = proc.local.mode
  /\ Go("certs")
  /\ UNCHANGED <<local, source, internal, pair, served, rule, proxy, changes, faults>>

\* The generator's first command makes the CA; a kill leaves it without its CRL, which
\* nothing but a rotation by hand makes whole.
GenerateCa ==
  /\ proc.at = "certs" /\ internal = "none"
  /\ internal' = "partial"
  /\ Go("issue")
  /\ UNCHANGED <<local, source, pair, conf, served, rule, proxy, changes, faults>>

IssueNodes ==
  /\ proc.at = "issue"
  /\ internal' = "whole" /\ pair' = [pem |-> Event, key |-> Event]
  /\ Go("certificate")
  /\ UNCHANGED <<local, source, conf, served, rule, proxy, changes, faults>>

\* What is there is preserved, and must be whole.
PreserveCa ==
  /\ proc.at = "certs" /\ internal # "none"
  /\ IF internal = "whole" THEN Go("certificate") ELSE Fail
  /\ UNCHANGED <<local, source, internal, pair, conf, served, rule, proxy, changes, faults>>

CopyCertificate ==
  /\ proc.at = "certificate" /\ External
  /\ pair' = [pair EXCEPT !.pem = source.pem]
  /\ Go("key")
  /\ UNCHANGED <<local, source, internal, conf, served, rule, proxy, changes, faults>>

CopyKey ==
  /\ proc.at = "key"
  /\ pair' = [pair EXCEPT !.key = source.key]
  /\ Go("check")
  /\ UNCHANGED <<local, source, internal, conf, served, rule, proxy, changes, faults>>

\* The pair in place must match; the files copied may be renewed again by now.
CheckPair ==
  /\ proc.at = "check"
  /\ IF pair.pem = pair.key /\ internal = "whole"
       THEN Go(IF proc.probing THEN "services" ELSE "compose") ELSE Refused
  /\ UNCHANGED <<local, source, internal, pair, conf, served, rule, proxy, changes, faults>>

\* The CRL is there, signed, and named in both certificates.
CrlVerifies == internal = "whole"

\* Generated: the event's address is in both certificates, and the CRL verifies.
CheckGenerated ==
  /\ proc.at = "certificate" /\ ~External
  /\ IF CrlVerifies /\ pair = [pem |-> Event, key |-> Event]
       THEN Go(IF proc.probing THEN "services" ELSE "compose") ELSE Refused
  /\ UNCHANGED <<local, source, internal, pair, conf, served, rule, proxy, changes, faults>>

-----------------------------------------------------------------------------
(* up: the services and the probes *)

\* The proxy loads its files when it starts; a running one is left alone.
StartServices ==
  /\ proc.at = "compose"
  /\ served' = IF served = NotServed THEN [mode |-> conf, pem |-> pair.pem] ELSE served
  /\ proc' = [proc EXCEPT !.at = "certificate", !.probing = TRUE, !.applied = TRUE]
  /\ UNCHANGED <<local, source, internal, pair, conf, rule, proxy, changes, faults>>

\* Seeded fault (EdgeAsConfigured): only the rules of the relays are looked at.
RelaysMatchRules(l) == \A p \in Configured(l) : rule[p]

RelaysMatch(l) == \A p \in Configured(l) : rule[p] /\ proxy[p] = l.relays[p]

\* The four pages answer where the mode puts them, under the certificate it trusts.
PagesAnswer(l) ==
  served.mode = l.mode /\ (served.pem = Event <=> l.mode = "generated")

ProbeServices ==
  /\ proc.at = "services"
  /\ IF RelaysMatch(proc.local) /\ PagesAnswer(proc.local) THEN Go("verified") ELSE Refused
  /\ UNCHANGED <<local, source, internal, pair, conf, served, rule, proxy, changes, faults>>

-----------------------------------------------------------------------------
(* down *)

DownBegin ==
  /\ proc.at \in {"idle", "verified"}
  /\ served' = NotServed
  /\ proc' = [Idle EXCEPT !.at = "unforward", !.local = local, !.todo = Configured(local)]
  /\ UNCHANGED <<local, source, internal, pair, conf, rule, proxy, changes, faults>>

RemoveProxy(p) ==
  /\ proc.at = "unforward" /\ p \in proc.todo
  /\ proxy' = [proxy EXCEPT ![p] = None]
  /\ proc' = [proc EXCEPT !.at = "forbid", !.port = p, !.todo = @ \ {p}]
  /\ UNCHANGED <<local, source, internal, pair, conf, served, rule, changes, faults>>

Forbid ==
  /\ proc.at = "forbid"
  /\ rule' = [rule EXCEPT ![proc.port] = FALSE]
  /\ Go("unforward")
  /\ UNCHANGED <<local, source, internal, pair, conf, served, proxy, changes, faults>>

DownEnd ==
  /\ proc.at = "unforward" /\ proc.todo = {}
  /\ Go("stopped")
  /\ UNCHANGED <<local, source, internal, pair, conf, served, rule, proxy, changes, faults>>

Next ==
  \/ Reconfigure \/ Renew \/ Kill
  \/ \E probing \in BOOLEAN : UpBegin(probing)
  \/ \E p \in Port : RemoveRule(p) \/ RemoveProxy(p)
  \/ AddRule \/ Forward \/ RenderTls \/ GenerateCa \/ IssueNodes \/ PreserveCa
  \/ CopyCertificate \/ CopyKey \/ CheckPair \/ CheckGenerated \/ StartServices \/ ProbeServices
  \/ DownBegin \/ Forbid \/ DownEnd

Spec == Init /\ [][Next]_vars

-----------------------------------------------------------------------------
(* Properties *)

\* When up has verified the edge, every relay of the local.json it read leads to its
\* desktop through an open rule, the proxy serves the mode configured, and the pair on
\* the disk is one issue's, whichever kills, renewals and reconfigurations came before;
\* and when down is done, none of the relays it knows is open.
EdgeAsConfigured ==
  /\ proc.at = "verified" =>
       /\ \A p \in Configured(proc.local) : rule[p] /\ proxy[p] = proc.local.relays[p]
       /\ served.mode = proc.local.mode /\ pair.pem = pair.key
       /\ (pair.pem = Event <=> proc.local.mode = "generated")
  /\ proc.at = "stopped" => \A p \in Configured(proc.local) : ~rule[p] /\ proxy[p] = None

=============================================================================
