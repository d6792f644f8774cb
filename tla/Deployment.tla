------------------------------ MODULE Deployment ------------------------------
(***************************************************************************)
(* The lifecycle of one event host (ridge/deploy/local.py): the commands   *)
(* up, start, pause, down, backup and fence, each a process that takes the *)
(* event lock and may be killed between any two of its steps; the journal  *)
(* they keep (ridge/deploy/journal.py); the services, data and secrets     *)
(* their stages build and probe; the registration worker start leaves      *)
(* running; and the progress store's control row, which the commands share *)
(* with the controller's own command line (ridge/cli.py) and with the      *)
(* integration service.                                                    *)
(*                                                                         *)
(* The services are grouped as the stages start them: "backends" are       *)
(* INFRA_SERVICES, "applications" APP_SERVICES.  A compose command that is *)
(* checked may fail, one that is not (check=False) may fail silently; both *)
(* and every kill or outage count against MaxFaults.                       *)
(***************************************************************************)
EXTENDS Integers

CONSTANTS
  Operator,   \* processes that run lifecycle commands
  None,
  Profiles,   \* values of profile.registration.enabled to consider
  MaxMark,    \* bound on the rows of the audit table
  MaxFaults   \* bound on kills, outages and failed calls together

VARIABLES
  dynamic,    \* the profile lets teams register themselves
  journal,    \* meta.state of the journal, "none" before the file exists
  step,       \* steps.state, per stage
  lock,       \* the process that holds the event lock
  call,       \* the command each process runs
  artifacts,  \* the images and assets match their receipts
  secrets,    \* "none", "partial" or "complete"
  units,      \* groups of services that run
  data,       \* what the applications' volumes hold
  file,       \* state.sqlite: "none", "empty" (no run row) or "made"
  control,    \* the run and control rows: provisioned, mode, fenced
  pending,    \* the outbox holds undelivered rows
  mark,       \* MAX(id) of audit
  visible,    \* the part of mark that is in state.sqlite, not only in its -wal
  workMark,   \* history: the audit row of the latest accepted work
  saved,      \* the mark in the newest recovery set that verifies, 0 for none
  worker,     \* the registration worker the pid file names: "none","live","dead"
  raced,      \* history: the last start checked the steps before another command's
  faults

hostVars  == <<artifacts, secrets, units, data>>
storeVars == <<file, control, pending, mark, visible, workMark>>
vars == <<dynamic, journal, step, lock, call, hostVars, storeVars, saved, worker,
          raced, faults>>

STAGES == <<"ARTIFACTS_VERIFIED", "INFRASTRUCTURE_READY", "APPLICATIONS_READY",
            "IDENTITIES_READY", "DESKTOPS_READY", "EVIDENCE_READY", "PROVISIONED_PAUSED">>
Stage == DOMAIN STAGES
Unit == {"backends", "applications", "desktops", "integration"}

\* Journal.create writes the whole schema before the lock is first taken.
Init ==
  /\ dynamic \in Profiles
  /\ journal = "none" /\ step = [i \in Stage |-> "pending"]
  /\ lock = None /\ call = [o \in Operator |-> [cmd |-> "none", at |-> "idle", n |-> 1, flag |-> FALSE]]
  /\ artifacts = TRUE /\ secrets = "none" /\ units = {} /\ data = {}
  /\ file = "none" /\ control = [provisioned |-> FALSE, mode |-> "paused", fenced |-> FALSE]
  /\ pending = FALSE /\ mark = 0 /\ visible = 0 /\ workMark = 0 /\ saved = 0
  /\ worker = "none" /\ raced = FALSE /\ faults = 0

Idle == [cmd |-> "none", at |-> "idle", n |-> 1, flag |-> FALSE]
At(o, cmd, at) == call[o].cmd = cmd /\ call[o].at = at
Go(o, at) == call' = [call EXCEPT ![o].at = at] /\ UNCHANGED lock
Fault == faults < MaxFaults /\ faults' = faults + 1
NoFault == UNCHANGED faults

\* The journal's entries on stage i: begun (or reopened after a down), verified, failed.
StepBegins(i) == step' = [step EXCEPT ![i] = "started"]
StepVerified(i) == step' = [step EXCEPT ![i] = "verified"]
StepFails(i) == step' = [step EXCEPT ![i] = "failed"]
SetState(value) == journal' = value

\* The command ends, by its return or by an error, and releases the lock.
Ends(o) == call' = [call EXCEPT ![o] = Idle] /\ lock' = None

\* A command of process o begins: it takes the event lock.
Takes(o, cmd, at, flag) ==
  /\ lock = None /\ call[o] = Idle
  /\ lock' = o
  /\ call' = [call EXCEPT ![o] = [cmd |-> cmd, at |-> at, n |-> 1, flag |-> flag]]

\* A transaction adds an audit row.  Its connection's close moves the -wal into
\* the database only when no other connection is open: the integration service
\* may hold one.
Audited ==
  /\ mark' = mark + 1
  /\ visible' \in {mark + 1} \cup (IF "integration" \in units THEN {visible} ELSE {})
NotAudited == UNCHANGED <<mark, visible>>

\* Bounds the audit rows: a command begins with room for its own, and leaves it
\* to no one else.
Room == mark + 2 <= MaxMark

\* State.mode: frozen on a fenced site, no row and no change when already there.
SetMode(value) ==
  /\ ~control.fenced
  /\ value = "running" => control.provisioned
  /\ IF control.mode = value THEN UNCHANGED control /\ NotAudited
     ELSE control' = [control EXCEPT !.mode = value] /\ Audited

-----------------------------------------------------------------------------
(* The stages: what each probe requires, and what each apply builds.        *)

Serving == {"backends", "applications"} \subseteq units
DesktopsUp == dynamic \/ "desktops" \in units

ProbeInfrastructure == secrets = "complete" /\ "backends" \in units
ProbeApplications == Serving
ProbeIdentities == "identities" \in data /\ Serving
ProbeDesktops == "connections" \in data /\ "backends" \in units /\ DesktopsUp
ProbeEvidence == "index" \in data /\ "backends" \in units /\ DesktopsUp
Preflight == Serving /\ {"identities", "index"} \subseteq data
ProbeExercise(mode) ==
  file = "made" /\ control.mode = mode /\ Preflight /\ "integration" \in units

Probe(i) ==
  CASE i = 1 -> artifacts
    [] i = 2 -> ProbeInfrastructure
    [] i = 3 -> ProbeApplications
    [] i = 4 -> ProbeIdentities
    [] i = 5 -> ProbeDesktops
    [] i = 6 -> ProbeEvidence
    [] i = 7 -> ProbeExercise("paused")

\* Seeded fault (SetupEnds): the secrets of an earlier try are refused.
AppliableFresh(i) ==
  CASE i = 1 -> TRUE
    [] i = 2 -> secrets = "none"
    [] i \in {3, 5} -> "backends" \in units
    [] i \in {4, 6} -> Serving
    [] i = 7 -> file # "empty" /\ Serving

\* What stage i's apply needs in order not to raise.
Appliable(i) ==
  CASE i \in {1, 2} -> secrets # "partial"
    [] i \in {3, 5} -> "backends" \in units
    [] i \in {4, 6} -> Serving
    [] i = 7 -> file # "empty" /\ Serving

Starts(i) ==
  CASE i = 2 -> {"backends"}
    [] i \in {3, 4} -> {"applications"}
    [] i = 5 -> IF dynamic THEN {} ELSE {"desktops"}
    [] i = 7 -> {"integration"}
    [] OTHER -> {}

EnsureSecrets == secrets' = IF secrets = "none" THEN "complete" ELSE secrets

ApplyInfrastructure ==
  EnsureSecrets /\ units' = units \cup {"backends"} /\ UNCHANGED <<data, storeVars>>

ApplyApplications ==
  units' = units \cup {"applications"} /\ UNCHANGED <<secrets, data, storeVars>>

\* Accounts and teams in IRIS and CTFd; IRIS is then started with the numbers found.
ApplyIdentities ==
  /\ data' = data \cup {"identities"} /\ units' = units \cup {"applications"}
  /\ UNCHANGED <<secrets, storeVars>>

\* The desktops of a static event, and Guacamole's accounts and connections.
ApplyDesktops ==
  /\ units' = units \cup Starts(5) /\ data' = data \cup {"connections"}
  /\ UNCHANGED <<secrets, storeVars>>

ApplyEvidence ==
  data' = data \cup {"index"} /\ UNCHANGED <<units, secrets, storeVars>>

\* A store is initialised when there is no file yet, and provisioned once.
ApplyProvisioned ==
  /\ units' = units \cup {"integration"} /\ file' = "made"
  /\ IF control.provisioned
       THEN UNCHANGED <<control, pending>> /\ NotAudited
       ELSE /\ control' = [control EXCEPT !.provisioned = TRUE]
            /\ pending' = (pending \/ file = "none")
            /\ Audited
  /\ UNCHANGED <<secrets, data, workMark>>

Apply(i) ==
  /\ CASE i = 1 -> UNCHANGED <<units, secrets, data, storeVars>>
       [] i = 2 -> ApplyInfrastructure
       [] i = 3 -> ApplyApplications
       [] i = 4 -> ApplyIdentities
       [] i = 5 -> ApplyDesktops
       [] i = 6 -> ApplyEvidence
       [] i = 7 -> ApplyProvisioned
  /\ UNCHANGED artifacts

\* What a kill, or an error of one of its calls, may leave of stage i's apply.
ApplyPartly(i) ==
  /\ units' \in {units, units \cup Starts(i)}
  /\ secrets' \in IF i = 2 /\ secrets = "none" THEN {"none", "partial", "complete"} ELSE {secrets}
  /\ \/ i = 7 /\ file = "none" /\ file' \in {"empty", "made"} /\ pending' = (file' = "made")
     \/ UNCHANGED <<file, pending>>
  /\ UNCHANGED <<artifacts, data, control, mark, visible, workMark>>

-----------------------------------------------------------------------------
(* up *)

\* The lock is taken; flag remembers that the journal said STOPPED.
UpBegin(o) ==
  /\ Takes(o, "up", "stage", journal = "STOPPED")
  /\ journal' = IF journal = "none" THEN "NEW" ELSE journal
  /\ UNCHANGED <<dynamic, step, hostVars, storeVars, saved, worker, raced, faults>>

UpStage(o) ==
  /\ At(o, "up", "stage")
  /\ LET i == call[o].n IN
     \/ /\ i > 7
        /\ SetState("PROVISIONED_PAUSED")
        /\ Ends(o)
        /\ UNCHANGED step
     \/ /\ i <= 7 /\ step[i] = "verified" /\ Probe(i)
        /\ call' = [call EXCEPT ![o].n = i + 1]
        /\ UNCHANGED <<journal, step, lock>>
     \/ /\ i <= 7 /\ step[i] = "verified" /\ ~Probe(i) /\ ~call[o].flag
        /\ Ends(o)
        /\ UNCHANGED <<journal, step>>
     \/ /\ i <= 7 /\ (step[i] = "verified" => ~Probe(i) /\ call[o].flag)
        /\ StepBegins(i)
        /\ Go(o, "apply")
        /\ UNCHANGED journal
  /\ UNCHANGED <<dynamic, hostVars, storeVars, saved, worker, raced, faults>>

UpApply(o) ==
  /\ At(o, "up", "apply")
  /\ LET i == call[o].n IN
     \/ /\ Appliable(i) /\ Apply(i)
        /\ Go(o, "probe") /\ UNCHANGED step /\ NoFault
     \/ /\ \/ ~Appliable(i) /\ UNCHANGED <<hostVars, storeVars>> /\ NoFault
           \/ Appliable(i) /\ ApplyPartly(i) /\ Fault
        /\ StepFails(i)
        /\ Ends(o)
  /\ UNCHANGED <<dynamic, journal, saved, worker, raced>>

UpProbe(o) ==
  /\ At(o, "up", "probe")
  /\ LET i == call[o].n IN
     IF Probe(i)
       THEN /\ StepVerified(i)
            /\ call' = [call EXCEPT ![o].n = i + 1, ![o].at = "stage"]
            /\ UNCHANGED lock
       ELSE StepFails(i) /\ Ends(o)
  /\ UNCHANGED <<dynamic, journal, hostVars, storeVars, saved, worker, raced, faults>>

-----------------------------------------------------------------------------
(* start and pause *)

AllVerified == \A i \in Stage : step[i] = "verified"

\* _require_paused reads the journal before start asks for the lock.
StartCheck(o) ==
  /\ call[o] = Idle
  /\ journal = "PROVISIONED_PAUSED" /\ AllVerified
  /\ call' = [call EXCEPT ![o] = [Idle EXCEPT !.cmd = "start", !.at = "wait"]]
  /\ UNCHANGED <<dynamic, journal, step, lock, hostVars, storeVars, saved, worker,
                 raced, faults>>

StartLock(o) ==
  /\ At(o, "start", "wait") /\ lock = None /\ Room
  /\ lock' = o
  /\ call' = [call EXCEPT ![o].at = "probe"]
  /\ raced' = ~(journal = "PROVISIONED_PAUSED" /\ AllVerified)
  /\ UNCHANGED <<dynamic, journal, step, hostVars, storeVars, saved, worker, faults>>

LockTimeout(o) ==
  /\ At(o, "start", "wait") /\ (lock # None \/ ~Room)
  /\ call' = [call EXCEPT ![o] = Idle]
  /\ UNCHANGED <<dynamic, journal, step, lock, hostVars, storeVars, saved, worker,
                 raced, faults>>

\* Every stage is probed anew; then the mode is changed.
StartRun(o) ==
  /\ At(o, "start", "probe")
  /\ IF (\A i \in Stage : Probe(i)) /\ ~control.fenced
       THEN SetMode("running") /\ Go(o, IF dynamic THEN "spawn" ELSE "commit")
       ELSE Ends(o) /\ UNCHANGED control /\ NotAudited
  /\ UNCHANGED <<dynamic, journal, step, hostVars, file, pending, workMark, saved,
                 worker, raced, faults>>

\* The pid record is removed and the worker it names stopped - or left running with no
\* record, when record and heartbeat do not agree.
StopWorker == worker' = "none" /\ NoFault

\* A worker the pid file names is kept when it is found healthy; else its record is
\* retired and a new one is spawned, to be recorded once its identity is known.
StartWorker(o) ==
  /\ At(o, "start", "spawn")
  /\ IF worker = "live" THEN Go(o, "commit") /\ UNCHANGED worker
                        ELSE Go(o, "record") /\ worker' = "none"
  /\ UNCHANGED <<dynamic, journal, step, hostVars, storeVars, saved, raced, faults>>

StartRecord(o) ==
  /\ At(o, "start", "record")
  /\ \/ worker' = "live" /\ Go(o, "commit") /\ NoFault
        /\ UNCHANGED <<control, mark, visible>>
     \/ /\ Fault /\ worker' \in {"none", "dead"}
        /\ Ends(o)
        /\ IF control.fenced THEN UNCHANGED control /\ NotAudited ELSE SetMode("paused")
  /\ UNCHANGED <<dynamic, journal, step, hostVars, file, pending, workMark, saved, raced>>

StartCommit(o) ==
  /\ At(o, "start", "commit")
  /\ SetState("RUNNING")
  /\ Ends(o)
  /\ UNCHANGED <<dynamic, step, hostVars, storeVars, saved, worker, raced, faults>>

\* The worker the record names is stopped, then the mode is changed: on a fenced
\* site State.mode raises after the worker is gone.
Pause(o) ==
  /\ Room /\ journal # "none" /\ Takes(o, "pause", "mode", FALSE)
  /\ StopWorker
  /\ UNCHANGED <<dynamic, journal, step, hostVars, storeVars, saved, raced>>

\* Seeded fault (ReadyMeansVerified): whatever the journal said, it says paused.
PauseModeAlways(o) ==
  /\ At(o, "pause", "mode")
  /\ IF control.fenced \/ file # "made" THEN UNCHANGED control /\ NotAudited
                                        ELSE SetMode("paused")
  /\ SetState("PROVISIONED_PAUSED")
  /\ Ends(o)
  /\ UNCHANGED <<dynamic, step, hostVars, file, pending, workMark, saved, worker,
                 raced, faults>>

PauseMode(o) ==
  /\ At(o, "pause", "mode")
  /\ IF control.fenced \/ file # "made" THEN UNCHANGED control /\ NotAudited
                                        ELSE SetMode("paused")
  /\ journal' = IF journal = "RUNNING" /\ ~control.fenced THEN "PROVISIONED_PAUSED" ELSE journal
  /\ Ends(o)
  /\ UNCHANGED <<dynamic, step, hostVars, file, pending, workMark, saved, worker,
                 raced, faults>>

-----------------------------------------------------------------------------
(* down, backup and fence *)

\* What down --volumes asks of the newest recovery set before it touches anything:
\* the live watermark is read from the database file alone, without its -wal.
Wipeable == saved > 0 /\ (visible <= saved \/ control.fenced)

\* flag is --volumes.
Down(o) ==
  /\ journal # "none"
  /\ \E volumes \in BOOLEAN :
       /\ Takes(o, "down", "stop", volumes)
       /\ volumes => Wipeable
  /\ StopWorker
  /\ UNCHANGED <<dynamic, journal, step, hostVars, storeVars, saved, raced>>

STOPPING == <<{"integration"}, {"desktops"}, {"applications", "backends"}>>

\* The projects stop one by one.  A plain stop that fails is not noticed; with
\* --volumes a failure ends the command.
DownStop(o) ==
  /\ At(o, "down", "stop")
  /\ LET n == call[o].n IN
     IF n > 3 THEN Go(o, "commit") /\ UNCHANGED units /\ NoFault
     ELSE \/ /\ units' = units \ STOPPING[n]
             /\ call' = [call EXCEPT ![o].n = n + 1]
             /\ UNCHANGED lock /\ NoFault
          \/ /\ units \cap STOPPING[n] # {} /\ UNCHANGED units /\ Fault
             /\ IF call[o].flag THEN Ends(o)
                ELSE call' = [call EXCEPT ![o].n = n + 1] /\ UNCHANGED lock
  /\ UNCHANGED <<dynamic, journal, step, artifacts, secrets, data, storeVars, saved, worker,
                 raced>>

DownCommit(o) ==
  /\ At(o, "down", "commit")
  /\ data' = IF call[o].flag THEN {} ELSE data
  /\ SetState("STOPPED")
  /\ Ends(o)
  /\ UNCHANGED <<dynamic, step, artifacts, secrets, units, storeVars, saved, worker,
                 raced, faults>>

\* Seeded fault (ImplementsEventRun): drained is enough.
QuiescentDrained == file = "made" /\ ~pending

Quiescent == file = "made" /\ control.mode = "paused" /\ ~pending

\* The set's checks, its export and its copy of the state; the rest of the set and
\* its completion marker follow in BackupDone (see Recovery).
Backup(o) ==
  /\ Room /\ journal # "none" /\ Quiescent /\ ~control.fenced
  /\ Serving
  /\ lock = None /\ call[o] = Idle
  /\ lock' = o /\ call' = [call EXCEPT ![o] = [cmd |-> "backup", at |-> "copy", n |-> mark, flag |-> FALSE]]
  /\ UNCHANGED <<dynamic, journal, step, hostVars, storeVars, saved, worker, raced, faults>>

BackupDone(o) ==
  /\ At(o, "backup", "copy")
  /\ saved' = call[o].n
  /\ Ends(o)
  /\ UNCHANGED <<dynamic, journal, step, hostVars, storeVars, worker, raced, faults>>

\* State.fence, in one transaction.
Fence(o) ==
  /\ Room /\ journal # "none" /\ Quiescent /\ ~control.fenced
  /\ Takes(o, "fence", "stop", FALSE)
  /\ control' = [control EXCEPT !.fenced = TRUE]
  /\ Audited
  /\ UNCHANGED <<dynamic, journal, step, hostVars, file, pending, workMark, saved, worker,
                 raced, faults>>

FenceStop(o) ==
  /\ At(o, "fence", "stop")
  /\ \/ units' = units \ {"integration", "desktops"} /\ NoFault
     \/ units' = units \ {"desktops"} /\ "integration" \in units /\ Fault
  /\ SetState("FENCED")
  /\ Ends(o)
  /\ UNCHANGED <<dynamic, step, artifacts, secrets, data, storeVars, saved, worker, raced>>

-----------------------------------------------------------------------------
(* kills, outages, and what else touches the host *)

\* The kernel releases the lock of a killed process.
Crash(o) ==
  /\ call[o] # Idle /\ Fault
  /\ call' = [call EXCEPT ![o] = Idle]
  /\ lock' = IF lock = o THEN None ELSE lock
  /\ IF At(o, "up", "apply") THEN ApplyPartly(call[o].n) ELSE UNCHANGED <<hostVars, storeVars>>
  /\ UNCHANGED <<dynamic, journal, step, saved, worker, raced>>

\* ridge.cli mode, on the controller's host; running asks the preflight first.
CliMode(value) ==
  /\ mark + 2 < MaxMark /\ file = "made" /\ value # control.mode
  /\ value = "running" => Preflight
  /\ SetMode(value)
  /\ UNCHANGED <<dynamic, journal, step, lock, call, hostVars, file, pending, workMark, saved,
                 worker, raced, faults>>

\* A team's answer or task is accepted, and leaves a delivery behind or not.
Work ==
  /\ mark + 2 < MaxMark /\ file = "made" /\ control.mode = "running" /\ ~control.fenced
  /\ Serving /\ "integration" \in units
  /\ Audited /\ workMark' = mark + 1
  /\ pending' \in {TRUE, pending}
  /\ UNCHANGED <<dynamic, journal, step, lock, call, hostVars, file, control, saved, worker,
                 raced, faults>>

Deliver ==
  /\ pending /\ control.provisioned /\ Serving /\ "integration" \in units
  /\ pending' = FALSE
  /\ UNCHANGED <<dynamic, journal, step, lock, call, hostVars, file, control, mark, visible,
                 workMark, saved, worker, raced, faults>>

Checkpoint ==
  /\ visible # mark /\ visible' = mark
  /\ UNCHANGED <<dynamic, journal, step, lock, call, hostVars, file, control, pending, mark,
                 workMark, saved, worker, raced, faults>>

Break ==
  /\ Fault
  /\ \/ \E u \in units : units' = units \ {u} /\ UNCHANGED <<artifacts, worker>>
     \/ artifacts /\ artifacts' = FALSE /\ UNCHANGED <<units, worker>>
     \/ worker = "live" /\ worker' = "dead" /\ UNCHANGED <<units, artifacts>>
  /\ UNCHANGED <<dynamic, journal, step, lock, call, secrets, data, storeVars, saved, raced>>

\* What the refusals ask of the operator: rebuild or reload an image, remove partial
\* secrets, restore what a verified stage of a first setup no longer finds.
Repair ==
  /\ \/ ~artifacts /\ artifacts' = TRUE /\ UNCHANGED <<secrets, units>>
     \/ secrets = "partial" /\ secrets' = "none" /\ UNCHANGED <<artifacts, units>>
     \/ /\ journal = "NEW"
        /\ \E i \in Stage : /\ step[i] = "verified" /\ ~(Starts(i) \subseteq units)
                            /\ units' = units \cup Starts(i)
        /\ UNCHANGED <<artifacts, secrets>>
  /\ UNCHANGED <<dynamic, journal, step, lock, call, data, storeVars, saved, worker,
                 raced, faults>>

UpStep(o) == UpStage(o) \/ UpApply(o) \/ UpProbe(o)
CommandStep(o) ==
  \/ UpStep(o)
  \/ StartLock(o) \/ LockTimeout(o) \/ StartRun(o) \/ StartWorker(o) \/ StartRecord(o) \/ StartCommit(o)
  \/ PauseMode(o) \/ DownStop(o) \/ DownCommit(o) \/ BackupDone(o) \/ FenceStop(o)

Next ==
  \/ \E o \in Operator :
       \/ UpBegin(o) \/ StartCheck(o) \/ Pause(o) \/ Down(o) \/ Backup(o) \/ Fence(o)
       \/ CommandStep(o) \/ Crash(o)
  \/ \E value \in {"running", "paused"} : CliMode(value)
  \/ Work \/ Deliver \/ Checkpoint \/ Break \/ Repair

Spec == Init /\ [][Next]_vars

\* A command that has begun goes on; an operator whose first setup failed repeats up
\* and repairs what the probes name.
Fairness ==
  /\ \A o \in Operator : WF_vars(CommandStep(o))
  /\ SF_vars(\E o \in Operator : UpBegin(o))
  /\ WF_vars(Repair) /\ WF_vars(Deliver)

FairSpec == Spec /\ Fairness

-----------------------------------------------------------------------------
(* Properties *)

\* A journal that says the event is paused and ready, or running, has every stage
\* verified, whatever commands failed or were killed before: a failed stage keeps the
\* event out of both states, as _require_paused's message promises ("start never
\* skips failed checks").  The exception is a start whose look at the journal,
\* before it has the lock, was overtaken by another command.
ReadyMeansVerified == journal \in {"PROVISIONED_PAUSED", "RUNNING"} => AllVerified \/ raced

\* What down's docstring and refusal promise of an unfenced site: --volumes goes
\* ahead only while the newest recovery set still holds all work accepted so far.
WipeKeepsWork ==
  [][\A o \in Operator :
       call[o].cmd # "down" /\ call'[o].cmd = "down" /\ call'[o].flag /\ ~control.fenced
         => workMark <= saved]_vars

\* The lifecycle implements the run the facilitators were promised: no command, kill
\* or outage starts an event that was not prepared, accepts work while it is paused,
\* fences one that runs, or moves a fenced one.
Phase ==
  IF file # "made" \/ ~control.provisioned THEN "absent"
  ELSE IF control.fenced THEN "fenced" ELSE control.mode

Run == INSTANCE EventRun WITH phase <- Phase, work <- workMark

ImplementsEventRun == Run!Spec

\* A first setup does not stay unfinished: the operator who repeats up after every
\* failure or kill, and repairs what it names, leaves NEW - unless a kill left a
\* store without its run row, which up adopts and can never provision, or someone
\* ran the event from the controller's command line before its setup was verified.
InSetup == journal = "NEW" /\ file # "empty" /\ control.mode # "running"
SetupConverges == InSetup ~> ~InSetup

=============================================================================
