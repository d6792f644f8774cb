-------------------------------- MODULE Profile --------------------------------
(***************************************************************************)
(* The deployment profile (ridge/deploy/config.py) from the operator's      *)
(* file to the desktops that run because of it: `up --teams N` is recorded  *)
(* in the runtime before anything is validated, every command validates     *)
(* the file anew, the journal keeps the fingerprint of a profile validated  *)
(* a second time, and desktops are started by compose service, each on the  *)
(* host of the profile row found for that service.                          *)
(*                                                                         *)
(* Names are compared as wholes.  Memory stands for the resource with the   *)
(* headroom, cpu for the two without.                                       *)
(***************************************************************************)
EXTENDS Integers, Sequences, FiniteSets, Functions

CONSTANTS
  Name,        \* names of desktops, services and teams
  Service,     \* desktop-team01, ...: the service names of teams, by number
  Slot,        \* desktop-slot01, ...: those of registration's slots
  Synthesized, \* desktop-01, ...: the desktops --teams makes up
  TeamName,    \* team-01, ...: neutral teams
  MaxServices, \* MAX_DESKTOP_SERVICES
  Written,     \* the profiles an operator may write
  RelayPort    \* ports of local.json's relays

VARIABLES
  profile,   \* the operator's file
  relay,     \* local.json: the relay port of each desktop of worker w; <<>>: no relay
  override,  \* overrides.json: the teams of `up --teams`; 0: no file
  journal,   \* the profile whose fingerprint the journal holds; None
  settled,   \* the state database exists: the journal's profile may no longer change
  started,   \* compose services started, with the row each was started by
  late       \* history: --teams was recorded after the journal

vars == <<profile, relay, override, journal, settled, started, late>>

None == [none |-> TRUE]
Refused == [refused |-> TRUE]
Absent == -1
DefaultMembers == 2
Central == [cpu |-> 1, memory |-> 5]
Desktop == [cpu |-> 1, memory |-> 5]

-----------------------------------------------------------------------------
(* Validation *)

Names(desktops) == {desktops[k].name : k \in DOMAIN desktops}
RowOf(p, name) == p.desktops[CHOOSE k \in DOMAIN p.desktops : p.desktops[k].name = name]

\* _validate_desktops: names, and remote addresses with their ports, are distinct.
ValidDesktops(desktops) ==
  /\ desktops # <<>>
  /\ \A j, k \in DOMAIN desktops : j # k =>
       /\ desktops[j].name # desktops[k].name
       /\ desktops[j].worker # "local" /\ desktops[k].worker # "local"
            => desktops[j].endpoint # desktops[k].endpoint

\* Seeded fault (ProfileSettled): one account too many.
NeutralAccountsFromZero(name, members) == [k \in 1 .. members + 1 |-> <<name, k - 1>>]

NeutralAccounts(name, members) == [k \in 1 .. members |-> <<name, k>>]

\* neutral_roster: one team a desktop, or <<>> when there are too few.
NeutralRoster(count, desktops) ==
  IF count > Len(desktops) THEN <<>> ELSE
  [k \in 1 .. count |-> [name |-> TeamName[k], members |-> DefaultMembers,
                         desktop |-> desktops[k].name,
                         accounts |-> NeutralAccounts(TeamName[k], DefaultMembers)]]

\* A dynamic profile has a desktop for every slot compose defines and needs, and no roster.
ValidRegistration(p) ==
  /\ p.teams = <<>>
  /\ Len(p.desktops) = Len(Slot) /\ Names(p.desktops) = Range(Slot)

NormalTeam(team) ==
  [team EXCEPT !.accounts = IF @ = <<>> THEN NeutralAccounts(team.name, team.members) ELSE @]

\* An explicit roster: account names are compared within a team only.
ValidTeams(teams, desktops) ==
  /\ \A j, k \in DOMAIN teams : j # k => teams[j].name # teams[k].name
  /\ \A k \in DOMAIN teams :
       /\ teams[k].desktop \in Names(desktops)
       /\ Len(teams[k].accounts) = teams[k].members /\ IsInjective(teams[k].accounts)

\* _validate_roster: a count, or no roster, becomes neutral teams.
NormalTeams(p) ==
  IF p.registration THEN <<>>
  ELSE IF p.teams # <<>> THEN [k \in DOMAIN p.teams |-> NormalTeam(p.teams[k])]
  ELSE NeutralRoster(IF p.count = Absent THEN Len(p.desktops) ELSE p.count, p.desktops)

\* _check_capacity of one host, with n desktops.
Fits(available, central, n) ==
  /\ available.cpu >= central.cpu + n * Desktop.cpu
  /\ available.memory >= ((central.memory + n * Desktop.memory) * 6) \div 5

Nothing == [cpu |-> 0, memory |-> 0]

\* Seeded fault (PlacementFits): a desktop of two teams is counted once.
CapacityOfDesktops(p) ==
  LET used == Names(p.desktops) \cap {p.teams[k].desktop : k \in DOMAIN p.teams}
      on(host) == Cardinality({name \in used : RowOf(p, name).worker = host})
  IN  /\ Fits(p.host, Central, on("local"))
      /\ on("w") > 0 => p.worker # Nothing /\ Fits(p.worker, Nothing, on("w"))

\* _check_capacity: a desktop counts once for each team that has it, a slot once.
Capacity(p) ==
  LET active == IF p.registration THEN p.desktops
                ELSE [k \in DOMAIN p.teams |-> RowOf(p, p.teams[k].desktop)]
      on(host) == Cardinality({k \in DOMAIN active : active[k].worker = host})
  IN  /\ Fits(p.host, Central, on("local"))
      /\ on("w") > 0 => p.worker # Nothing /\ Fits(p.worker, Nothing, on("w"))

\* validate: the profile with its roster and defaults in place, or refused.
Validate(p) ==
  LET n == [p EXCEPT !.teams = NormalTeams(p), !.count = Len(NormalTeams(p))] IN
  IF /\ ValidDesktops(p.desktops)
     /\ IF p.registration THEN ValidRegistration(p)
        ELSE n.teams # <<>> /\ (p.teams # <<>> => ValidTeams(n.teams, p.desktops))
     /\ Capacity(n)
    THEN n ELSE Refused

\* apply_team_override: a neutral roster, and desktops made up where the file has too few.
TeamOverride(p, teams) ==
  LET extra == [k \in 1 .. teams - Len(p.desktops) |->
                  [name |-> Synthesized[Len(p.desktops) + k], worker |-> "local", endpoint |-> 1]]
  IN  [p EXCEPT !.desktops = @ \o extra, !.teams = <<>>, !.count = teams]

\* _validate_desktop_workers: if the worker of local.json has relays, every desktop placed
\* on it has a port and no two the same.
ValidWorkers(p) ==
  LET remote == {row \in Range(p.desktops) : row.worker = "w"}
  IN  relay = <<>> \/ (DOMAIN relay = {row.name : row \in remote} /\ IsInjective(relay))

\* LocalStack(): the recorded override, then validation, then local.json.
Load(teams) ==
  LET p == Validate(IF teams = 0 THEN profile ELSE TeamOverride(profile, teams))
  IN  IF p = Refused THEN Refused ELSE IF ValidWorkers(p) THEN p ELSE Refused

-----------------------------------------------------------------------------
(* Commands *)

\* _desktop_spec: a service that is a desktop's name is that desktop, whosever it is.
DesktopSpec(p, service) ==
  IF service \in Names(p.desktops) THEN RowOf(p, service)
  ELSE RowOf(p, p.teams[CHOOSE k \in DOMAIN p.teams : Service[k] = service].desktop)

Placed(p, services) == {[service |-> s, row |-> DesktopSpec(p, s)] : s \in services}

\* The journal is made, checked, or - with no state yet - moved to the profile; then the
\* desktops of a profile with teams are started, if the run gets that far.
Provision(teams) ==
  LET p == Load(teams) IN
  IF p = Refused \/ (journal \notin {None, p} /\ settled)
    THEN UNCHANGED <<journal, settled, started>>
    ELSE /\ journal' = Validate(p)
         /\ \/ UNCHANGED <<settled, started>>
            \/ /\ settled' = TRUE
               /\ started' = started \cup
                    Placed(p, {Service[k] : k \in DOMAIN p.teams})

Up ==
  /\ Provision(override)
  /\ UNCHANGED <<profile, relay, override, late>>

\* main: the number is recorded before the profile is looked at, and does not change.
UpTeams(teams) ==
  /\ override \in {0, teams}
  /\ override' = teams
  /\ late' = (late \/ (override = 0 /\ journal # None))
  /\ Provision(teams)
  /\ UNCHANGED <<profile, relay>>

\* The registration worker, of a profile that has one, starts a slot's desktop.
StartSlot(slot) ==
  /\ settled
  /\ LET p == Load(override) IN
     /\ p # Refused /\ p.registration
     /\ started' = started \cup Placed(p, {slot})
  /\ UNCHANGED <<profile, relay, override, journal, settled, late>>

\* Every project of the hosts the profile now names.
Down ==
  /\ journal # None
  /\ LET p == Load(override) IN
     /\ p # Refused
     /\ started' = {d \in started : d.row.worker \notin
                      {"local"} \cup {row.worker : row \in Range(p.desktops)}}
  /\ UNCHANGED <<profile, relay, override, journal, settled, late>>

-----------------------------------------------------------------------------

Init ==
  /\ profile \in Written
  /\ \E names \in {{}, {row.name : row \in {r \in Range(profile.desktops) : r.worker = "w"}}} :
       relay \in [names -> RelayPort]
  /\ override = 0 /\ journal = None /\ settled = FALSE /\ started = {} /\ late = FALSE

Next ==
  \/ Up \/ Down
  \/ \E teams \in 1 .. MaxServices : UpTeams(teams)
  \/ \E slot \in Range(Slot) : StartSlot(slot)

Spec == Init /\ [][Next]_vars

-----------------------------------------------------------------------------
(* Properties *)

\* The fingerprint in the journal is that of a fixed point: validating the profile it was
\* taken of gives the profile back, and every later command finds the same one - unless
\* --teams was recorded only after the journal, or the run has not settled and may move.
ProfileSettled ==
  journal # None =>
    /\ journal # Refused /\ Validate(journal) = journal
    /\ settled /\ ~late => Load(override) = journal

\* A desktop is named as the service of another team's: started in that one's place.
Crossed(p) ==
  \E k \in DOMAIN p.teams : Service[k] \in Names(p.desktops) \ {p.teams[k].desktop}

\* What the accepted profile starts on a host fits it, with the headroom, and no two
\* services claim one address and port, or one relay port - unless two teams were given
\* one desktop, or a desktop bears the service name of a team that has another.
PlacementFits ==
  LET n == Cardinality({d \in started : d.row.worker = "w"}) IN
  (settled /\ ~late /\ ~Crossed(journal)) =>
    /\ Fits(journal.host, Central, Cardinality(started) - n)
    /\ n > 0 => Fits(journal.worker, Nothing, n)
    /\ \A d, e \in started :
         (d # e /\ d.row.worker = "w" /\ e.row.worker = "w" /\ d.row # e.row) =>
           /\ d.row.endpoint # e.row.endpoint
           /\ relay # <<>> => relay[d.row.name] # relay[e.row.name]

=============================================================================
