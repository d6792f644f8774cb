---------------------------- MODULE MCOperations ----------------------------
(***************************************************************************)
(* The parts of the deployment that share no state, checked side by side:   *)
(* a behaviour belongs to one part, named by `part`, and runs that part's   *)
(* module on the small instance given here.  v1 .. v19 stand for the        *)
(* variables of the part under way, in the order its module declares them;  *)
(* what the part does not use stays 0.                                      *)
(*                                                                         *)
(* operations checks the safety of the parts, operations_live the liveness  *)
(* of those a repeated command must get through.                            *)
(***************************************************************************)
EXTENDS Integers, Sequences

CONSTANTS
  Parts,         \* the parts a run considers
  Operator,      \* Deployment: who runs commands
  Process,       \* Journal: the processes that retry a step
  Nobody,        \* Deployment, Journal: holds no lock
  Profiles,      \* Deployment: values of profile.registration.enabled
  MaxMark,       \* Deployment: bound on the rows of the audit table
  Steps,         \* Journal: steps of one lifecycle
  MaxJournals,   \* Journal: bound on the journals ever started
  Component,     \* Packaging: images of the project
  WorkDir,       \* Packaging: work directories of builds
  MaxTree,       \* Packaging: bound on the edits
  Installer,     \* Installation: processes that install
  MaxKey,        \* Provisioning: bound on the generated secrets
  Port, Target,  \* Edge: published ports and what they may lead to
  Controller,    \* Rehearsal: commands of the controllers
  Request,       \* Rehearsal: requests to the board
  MaxHandlers,   \* Rehearsal: the board's handler slots
  MaxTime,       \* Rehearsal: bound on the wall clock
  MaxEvents,     \* Rehearsal: bound on the ledger
  MaxTokens,     \* Recovery: bound on the tokens of exports
  MaxChanges,    \* Recovery, Edge: bound on the changes made from outside
  MaxFaults,     \* bound on the faults of Recovery, Deployment, Packaging, Edge, Rehearsal, Registration
  MaxLosses      \* bound on the faults of Journal, Installation, Provisioning

VARIABLES
  part,
  v1, v2, v3, v4, v5, v6, v7, v8, v9, v10, v11, v12, v13, v14, v15, v16, v17, v18, v19

vars ==
  <<part, v1, v2, v3, v4, v5, v6, v7, v8, v9, v10, v11, v12, v13, v14, v15, v16, v17, v18, v19>>

\* Packaging: the second content differs from the first in a Dockerfile alone, the third in
\* the files that the packer compares.
Edits == 2
Layout == [t \in 1 .. MaxTree + 1 |-> IF t = 2 THEN 1 ELSE t]

-----------------------------------------------------------------------------
(* The profiles an operator may write: names, placements and rosters that   *)
(* meet, hosts that fit exactly, and hosts with one unit too few.  Compose   *)
(* has three services, one more than --teams takes.                         *)

MaxServices == 2
Service == <<"desktop-team01", "desktop-team02", "desktop-team03">>
Slot == <<"desktop-slot01", "desktop-slot02", "desktop-slot03">>
Synthesized == <<"desktop-01", "desktop-02", "desktop-03">>
TeamName == <<"team-01", "team-02", "team-03">>
RelayPort == {1, 2}
Name ==
  {"desktop-x", "desktop-y", "a", "b"} \cup
  UNION {{names[k] : k \in 1 .. 3} : names \in {Service, Slot, Synthesized, TeamName}}

Row == {[name |-> "desktop-team01", worker |-> "local", endpoint |-> 1],
        [name |-> "desktop-team02", worker |-> "w", endpoint |-> 1],
        [name |-> "desktop-02", worker |-> "local", endpoint |-> 1],
        [name |-> "desktop-x", worker |-> "w", endpoint |-> 1],
        [name |-> "desktop-y", worker |-> "w", endpoint |-> 2]}
SlotRows == [k \in 1 .. 3 |-> [name |-> Slot[k], worker |-> IF k = 3 THEN "w" ELSE "local",
                                endpoint |-> k]]

Team(name, desktop, accounts) ==
  [name |-> name, members |-> 2, desktop |-> desktop, accounts |-> accounts]

\* A number of teams (-1: none given), one team or two.
RosterOf(desktops) ==
  LET names == {desktops[k].name : k \in DOMAIN desktops} IN
  {[count |-> n, teams |-> <<>>] : n \in {-1, 1, 2}} \cup
  {[count |-> -1, teams |-> <<Team("a", d, accounts)>>] :
     d \in names, accounts \in {<<>>, <<"a", "b">>, <<"a", "a">>}} \cup
  {[count |-> -1, teams |-> <<Team("a", d, <<>>), Team("b", e, <<>>)>>] : d, e \in names}

Host == {[cpu |-> 2, memory |-> 12], [cpu |-> 3, memory |-> 18], [cpu |-> 3, memory |-> 17]}
Worker == {[cpu |-> 0, memory |-> 0], [cpu |-> 1, memory |-> 6], [cpu |-> 2, memory |-> 12]}

Written ==
  UNION {{[desktops |-> desktops, registration |-> registration, host |-> host,
           worker |-> worker, count |-> roster.count, teams |-> roster.teams] :
             registration \in IF Len(desktops) > 1 THEN BOOLEAN ELSE {FALSE},
             host \in Host, worker \in Worker, roster \in RosterOf(desktops)} :
           desktops \in {SlotRows} \cup [{1} -> Row] \cup [{1, 2} -> Row]}

-----------------------------------------------------------------------------

SyncLoop == INSTANCE SyncLoop WITH
  Rows <- 5, Affected <- 1 .. 4, Timeout <- 8, Pause <- 1, RetryDelay <- 2, MaxDelay <- 30,
  Latency <- 1, MaxWait <- 180, MaxOutages <- 1, queued <- v1, done <- v2, attempts <- v3,
  due <- v4, down <- v5, outages <- v6

\* The modules with proofs are taken through the modules that hold their proofs, so that
\* the theorems there are theorems about these instances (OperationsProofs).
Recovery == INSTANCE RecoveryProofs WITH
  mode <- v1, store <- v2, apps <- v3, token <- v4, tokens <- v5, exporter <- v6,
  output <- v7, creator <- v8, set <- v9, restorer <- v10, dest <- v11, faults <- v12

Deployment == INSTANCE DeploymentProofs WITH
  None <- Nobody, dynamic <- v1, journal <- v2, step <- v3, lock <- v4, call <- v5,
  artifacts <- v6, secrets <- v7, units <- v8, data <- v9, file <- v10, control <- v11,
  pending <- v12, mark <- v13, visible <- v14, workMark <- v15, saved <- v16,
  worker <- v17, raced <- v18, faults <- v19

Journal == INSTANCE JournalProofs WITH
  None <- Nobody, MaxFaults <- MaxLosses, file <- v1, born <- v2, state <- v3,
  release <- v4, source <- v5, step <- v6, recorded <- v7, present <- v8, surplus <- v9,
  lock <- v10, at <- v11, bereft <- v12, faults <- v13

\* Packaging (Pack), Installation (Inst), Provisioning (Prov), Edge, Rehearsal (Board)
\* and Profile
Preparation == INSTANCE PreparationProofs WITH
  Work <- WorkDir,
  tree <- v1, head <- v2, base <- v3, image <- v4, receipt <- v5, builder <- v6,
  manifest <- v7, packer <- v8, bundle <- v9, distribution <- v10, touched <- v11,
  packFaults <- v12,
  damaged <- v1, expected <- v2, staging <- v3, dest <- v4, tags <- v5, installing <- v6,
  overlapped <- v7, installFaults <- v8,
  file <- v1, volume <- v2, verified <- v3, running <- v4, at <- v5, done <- v6, key <- v7,
  hurt <- v8, setupFaults <- v9,
  local <- v1, source <- v2, internal <- v3, pair <- v4, conf <- v5, served <- v6,
  rule <- v7, proxy <- v8, proc <- v9, changes <- v10, edgeFaults <- v11,
  now <- v1, ledger <- v2, log <- v3, public <- v4, boardStaging <- v5, lock <- v6,
  database <- v7, comments <- v8, command <- v9, request <- v10, cut <- v11, late <- v12,
  boardFaults <- v13,
  profile <- v1, relay <- v2, override <- v3, journal <- v4, settled <- v5, started <- v6,
  profileLate <- v7

\* Two teams may register for two places; two workers.
RegWorker == {"w1", "w2"}
Registration == INSTANCE Registration WITH
  MaxTeams <- 2, PerTeam <- 2, MaxReg <- 2, MaxAttempts <- 2, Worker <- RegWorker,
  status <- v1, slots <- v2, attempts <- v3, token <- v4, lapsed <- v5, deferred <- v6,
  slotStatus <- v7, owner <- v8, worker <- v9, desktops <- v10, ctfd <- v11, iris <- v12,
  grants <- v13, config <- v14, text <- v15, teams <- v16, decidedBy <- v17, overlap <- v18,
  faults <- v19

\* Nobody is no operator and no process, no installer is called as an idle destination's
\* holder is, and no controller as a request or as what stands for none of them; profiles
\* are typed, and there is a name for every number.
ASSUME OperationsAssumption ==
  /\ Nobody \notin Operator \cup Process
  /\ Preparation!InstallerAssumption /\ Preparation!BoardAssumption
  /\ Preparation!ProfileAssumption

-----------------------------------------------------------------------------
(* The variables after the first 13, 12, ... that a part uses *)

Zero13 == v14 = 0 /\ v15 = 0 /\ v16 = 0 /\ v17 = 0 /\ v18 = 0 /\ v19 = 0
Zero12 == v13 = 0 /\ Zero13
Zero11 == v12 = 0 /\ Zero12
Zero9 == v10 = 0 /\ v11 = 0 /\ Zero11
Zero8 == v9 = 0 /\ Zero9
Zero7 == v8 = 0 /\ Zero8
Zero6 == v7 = 0 /\ Zero7

Still19 == UNCHANGED part
Still13 == UNCHANGED <<part, v14, v15, v16, v17, v18, v19>>
Still12 == UNCHANGED v13 /\ Still13
Still11 == UNCHANGED v12 /\ Still12
Still9 == UNCHANGED <<v10, v11>> /\ Still11
Still8 == UNCHANGED v9 /\ Still9
Still7 == UNCHANGED v8 /\ Still8
Still6 == UNCHANGED v7 /\ Still7

Init ==
  /\ part \in Parts
  /\ \/ part = "loop" /\ SyncLoop!Init /\ Zero6
     \/ part = "recovery" /\ Recovery!Init /\ Zero12
     \/ part = "provisioning" /\ Preparation!Prov!Init /\ Zero9
     \/ part = "deployment" /\ Deployment!Init
     \/ part = "journal" /\ Journal!Init /\ Zero13
     \/ part = "packaging" /\ Preparation!Pack!Init /\ Zero12
     \/ part = "installation" /\ Preparation!Inst!Init /\ Zero8
     \/ part = "edge" /\ Preparation!Edge!Init /\ Zero11
     \/ part = "rehearsal" /\ Preparation!Board!Init /\ Zero13
     \/ part = "profile" /\ Preparation!Profile!Init /\ Zero7
     \/ part = "registration" /\ Registration!Init

Next ==
  \/ part = "loop" /\ SyncLoop!Next /\ Still6
  \/ part = "recovery" /\ Recovery!Next /\ Still12
  \/ part = "provisioning" /\ Preparation!Prov!Next /\ Still9
  \/ part = "deployment" /\ Deployment!Next /\ Still19
  \/ part = "journal" /\ Journal!Next /\ Still13
  \/ part = "packaging" /\ Preparation!Pack!Next /\ Still12
  \/ part = "installation" /\ Preparation!Inst!Next /\ Still8
  \/ part = "edge" /\ Preparation!Edge!Next /\ Still11
  \/ part = "rehearsal" /\ Preparation!Board!Next /\ Still13
  \/ part = "profile" /\ Preparation!Profile!Next /\ Still7
  \/ part = "registration" /\ Registration!Next /\ Still19

Spec == Init /\ [][Next]_vars

-----------------------------------------------------------------------------
(* The fairness of Recovery, Provisioning, Deployment and Registration.  A  *)
(* behaviour has one part, so one condition can stand for one of each part. *)

Go1 ==
  \/ part = "recovery" /\ Recovery!CreateStep /\ Still12
  \/ part = "provisioning" /\ (Preparation!Prov!UpStep \/ Preparation!Prov!UpBegin) /\ Still9
  \/ part = "deployment" /\ Deployment!Repair /\ Still19
  \/ part = "registration" /\ Registration!Loop("w1") /\ Still19
Go2 ==
  \/ part = "recovery" /\ Recovery!ExportStep("job") /\ Still12
  \/ part = "deployment" /\ Deployment!Deliver /\ Still19
  \/ part = "registration" /\ Registration!Loop("w2") /\ Still19
Go3 ==
  \/ part = "recovery" /\ Recovery!ExportStep("hand") /\ Still12
  \/ part = "registration" /\ Registration!Clocks(1) /\ Still19
Go4 ==
  \/ part = "recovery" /\ Recovery!RestoreStep /\ Still12
  \/ part = "registration" /\ Registration!Clocks(2) /\ Still19
Command(o) == part = "deployment" /\ Deployment!CommandStep(o) /\ Still19
Again ==
  \/ part = "recovery" /\ Recovery!RestoreTry /\ Still12
  \/ part = "deployment" /\ (\E o \in Operator : Deployment!UpBegin(o)) /\ Still19

FairSpec ==
  /\ Spec
  /\ WF_vars(Go1) /\ WF_vars(Go2) /\ WF_vars(Go3) /\ WF_vars(Go4)
  /\ \A o \in Operator : WF_vars(Command(o))
  /\ SF_vars(Again)

-----------------------------------------------------------------------------
(* Properties: those of the parts' modules *)

\* No due row of the delivery thread is passed over for longer than MaxWait: with four
\* rows of a silent application, three minutes (sync_once: oldest row first).
WaitBounded == part = "loop" => SyncLoop!WaitBounded

\* A completed export holds the store and the applications at one instant.
ExportIsOneInstant == part = "recovery" => Recovery!ExportIsOneInstant

\* When up ends, the handout's credentials are the ones the applications accept.
HandoutWorks == part = "provisioning" => Preparation!Prov!HandoutWorks

\* A journal that says the event is ready or running has every stage verified.
ReadyMeansVerified == part = "deployment" => Deployment!ReadyMeansVerified

\* The lifecycle implements the run the facilitators were promised (EventRun).
Run == INSTANCE EventRun WITH
  phase <- IF part = "deployment" THEN Deployment!Phase ELSE "absent",
  work  <- IF part = "deployment" THEN v15 ELSE 0

ImplementsEventRun == Run!Spec

\* No retried step creates a resource beside the one an earlier try had created.
OneResource == part = "journal" => Journal!OneResource

\* What up accepts was all built from one source, and what a bundle or a distribution
\* brings together is one commit's.
OneSource == part = "packaging" => Preparation!Pack!UpRunsOneSource /\ Preparation!Pack!BundleIsOneSource

\* A destination that exists holds one verified bundle, whole, with its images.
InstallIsWhole == part = "installation" => Preparation!Inst!InstallIsWhole

\* An edge whose probe passed shows the configured certificate and relays.
EdgeAsConfigured == part = "edge" => Preparation!Edge!EdgeAsConfigured

\* Comments keep the time the ledger gives their moment; directories, ledger and log of
\* the rehearsal's releases never part further than one interrupted release.
LedgersAgree == part = "rehearsal" => Preparation!Board!CommentsOnClock /\ Preparation!Board!ReleasesAgree

\* The journal's profile is a fixed point of validation that later commands find again,
\* and what it starts fits the hosts.
ProfileKept == part = "profile" => Preparation!Profile!ProfileSettled /\ Preparation!Profile!PlacementFits

\* A verified set of a paused event is restored at last, however often a try fails.
RestoreConverges ==
  (part = "recovery" /\ Recovery!Restorable) ~> (part = "recovery" => ~Recovery!Restorable)

\* The operator who repeats up finishes a first setup: at the stages, under outages, kills
\* and a second operator, and at the files and accounts, killed between any two of them.
Unfinished ==
  \/ part = "deployment" /\ Deployment!InSetup
  \/ part = "provisioning" /\ Preparation!Prov!Unfinished
SetupEnds == Unfinished ~> ~Unfinished

\* Every registration is settled in the end, whatever fails: it is ready, cancelled or in
\* the operator's hands (register_once, registration_loop).
Unsettled(r) == part = "registration" /\ Registration!Unsettled(r)
EveryoneSettles == \A r \in Registration!Reg : Unsettled(r) ~> ~Unsettled(r)

=============================================================================
