# Operation Silent Ridge in TLA+

Operation Silent Ridge is a cooperative incident-response exercise. Teams claim
investigation tickets in IRIS, answer questions in CTFd and work on Guacamole
desktops. An integration service keeps the authoritative progress and carries it
to the two applications; a deployment tool prepares hosts, starts and stops the
event, backs it up and restores it; registration gives new teams desktops while
the event runs. This directory specifies the parts of it that have to be right
under concurrency, failure and delay, model-checks them with TLC on small
instances and proves the safety results with TLAPS for every instance.

1. The system · 2. The modules · 3. What TLC checks · 4. Fairness ·
5. Refinements · 6. What is proved · 7. Where the code and its documents differ ·
8. What is not modelled

## 1. The system

| Component | Code | State it keeps | Operations | What is hard |
|---|---|---|---|---|
| Progress store | `src/ridge/state.py` | one SQLite file: run and control row, roster, a row per team and ticket (status, generation), hints, answers, audit, outbox and its dependencies | register, provision, mode, fence, unfence, activate generation, export barrier, claim, release, recover, hint, answer, deliver | delayed and repeated forms, two teams on shared tickets, guards checked only on entry |
| Delivery workers | `State.sync_once`, `service.py`, `transport.py` | lease, retry time and attempts of each outbox row; one thread per service | lease, renew, request, acknowledge, back off | no lock spans the remote call: crashes, stalls, lost answers; one slow application and one thread |
| Application plugins | `src/integrations/` | receipts beside the application's own rows; cached standings | ridge_event, ridge_credit | the same event twice or late; a commit whose follow-up fails |
| Evidence release | `evidence_release.py` | public directory, index | publish | partial publication |
| Registration allocator and worker | `registration.py`, `LocalStack.register_once` | registrations, desktop slots; desktops, accounts, permissions, `config.json` | register, claim, activate, complete, requeue, cancel, retry; seven calls of six systems in a row | two workers, expired claims, cancellation at the wrong time, a call that fails after it took effect |
| Coherent export | `export_run.py` | output directory, export token | copy, comparison with the receipts, completion marker | cancelled or killed half-way |
| Recovery sets | `deploy/recovery.py` | set directory, destination | create, verify, restore | every part may fail or be cut off |
| Deployment lifecycle | `deploy/local.py`, `deploy/locking.py` | journal's state, services, secrets, control row, pid record | up, start, pause, down, backup, fence | a second operator, kills, outages, checks made before the lock |
| Journal | `deploy/journal.py`, `deploy/providers.py` | meta, steps, resources | create, open, migrate, record, ensure resource | creation comes before the lock |
| Provisioning | `LocalStack._stage_*`, `*_bootstrap.py`, `*_provision.py` | secret files, specifications, inventories, accounts | the stages of up | nothing is written atomically; volumes and files live apart |
| Packaging | `deploy/__main__.py`, `bundle.py`, `distribution.py`, `scripts/assemble_offline_store.py` | images, receipts, manifest, bundle | build, assemble, pack, distribute | the checkout changes meanwhile |
| Offline installation | `offline_install.py`, `distribution.py` | staging directory, destination, image tags | fetch, verify, unpack, load, rename | kills, damage, a second installer |
| Participant edge | `deploy/local.py` | certificates, proxy configuration, relays, firewall rules | apply, probe, down | `local.json` changes between commands |
| Event profile | `deploy/config.py` | profile, override, relays | validate, `up --teams`, place desktops | recorded before it is validated; validated again by every command |
| Rehearsal board | `src/app/`, `scripts/control.py`, `exercise.py`, `admin_server.py`, `bounded_http.py` | ledger, release log, directories, comments | start, pause, resume, release; post | four files without a transaction; readers beside writers |
| Others | see section 8 | | schema, storage, generators, pages | |

How they interact. The IRIS and CTFd plugins forward participants' forms to the
service over HTTP; the service calls one method of `State`, which is one
`BEGIN IMMEDIATE` transaction. The same transaction queues what the applications
must show. The service's thread leases a row, calls the sink, which publishes
evidence and posts to the plugin, and acknowledges the answer in a second
transaction. The operator's commands open the same database. Registration has
its own database, shared by the page in CTFd, the host worker and the operator,
and reaches the progress store only through `register_team`. The lifecycle
commands exclude each other by the event lock, but not the controller's own
command line, the registration worker or the services. Backup begins an export,
which holds the progress store's barrier, and copies the rest.

What makes each of them correct is what its properties say (section 3); the
hazards they answer to are listed, at the line where they bite, in PROJECT.json.

## 2. The modules

    ExerciseState          the progress store; a delivery is one step
      |- OutboxDelivery    the delivery protocol; implements ExerciseState
      |- ExerciseStateProofs, OutboxDeliveryProofs
      |- MCExerciseState, MCOutboxDelivery        instances for TLC
    SyncLoop               the service's only thread, in seconds
                           (a theorem in OutboxDeliveryProofs)
    Registration           allocator and host worker together
      |- RegistrationProofs
    EventRun               what the lifecycle promises
      |- Deployment        the lifecycle commands; implements EventRun
           |- DeploymentProofs
    Journal   - JournalProofs          Recovery - RecoveryProofs
    Packaging, Installation, Provisioning, Edge, Rehearsal, Profile
      |- PreparationProofs one section for each of the six
    MCOperations           the parts of the deployment side by side, for TLC
      |- OperationsProofs  what is proved of the parts, said of MCOperations

Definitions marked "Seeded fault" are not part of a specification. Each is the
definition below it with a plausible bug, and says which property must fail when
it takes that definition's place; this shows that the property can fail and that
the instance is large enough to notice.

**ExerciseState.** One action per method of `State`, its guard the method's early
refusals, its effects those of the whole transaction. `Answer` is the largest:
price, credit and finding queued, closure of the ticket, opening of its
follow-ups and their deliveries, the ending, in the code's order, since `enqueue`
chains a row to the last one of the same ticket and team. `outbox` maps a queued
event to its prerequisites (`delivery_dependencies`); `delivered` and `irisTask`
stand for `outbox.done` and `tickets.iris_id`; `claimForms` and `releaseForms`
are history. A participant's form carries any generation: it may have been
rendered, sent and repeated at any time. Texts are gone: an answer is right or
changes nothing. A draw of an export token never repeats.

**OutboxDelivery.** Extends ExerciseState and replaces `SyncOnce` by what really
happens. A worker leases a row, publishes evidence (`publishing`), posts
(`sending`, `sent`), holds the answer (`answered`) and acknowledges. A request
occupies a slot of the application and goes through `arrived`, `working`,
`clearing`, `answered`; it survives the death or the timeout of its sender, so
that an old and a new request for one event may be worked on together. `Expire`
is free for a row whose worker is dead and a fault (a stall) otherwise. The task
id is read by `Lease` and used by `LookUp`. The receipt's unique key is the
commit-time test in `Commit`.

**SyncLoop.** Seconds, not steps: the request to a silent application (8 s), the
rest between unsuccessful calls (1 s) and the back-off 2, 4, 8, 16, 30 s are the
code's constants. Rows belong to different chains. A clock that has run out counts
on, to one more than MaxWait.

**Registration.** The allocator's operations and the worker's calls interleaved
with no lock between them. `token` is the claim, `lapsed` the rows whose five
minutes are over, `deferred` those put off by `requeue`. The worker goes through
desktops, CTFd, IRIS, Guacamole, `config.json` and `register_team`; `StepFails` may
strike before or after any effect. The file is read, truncated and written
(`ReadConfig`, `TruncateConfig`, `WriteConfig`), and `text` says whether it is whole,
empty or torn: a worker cut off in the write leaves the file without the teams that
were in it, and later attempts fail to read it (section 7). A second worker is possible (a stale
pid record, `--once`); `overlap` remembers it.

**EventRun, Deployment.** EventRun is the promise in five actions: prepared once
and paused, work only while running, running only after paused, and a fenced run
never moves again. Deployment has each command as a process that waits for the
event lock, goes through its steps and may be killed between any two. The stages
of up are a table (what each starts, needs and probes). `raced` remembers a start
whose checks, made before it had the lock, were overtaken. `visible` is the part
of the audit that is in the file and not only in its write-ahead log.

**Journal.** Creating, opening and migrating the journal come before the lock;
the file is replaced or unlinked under a process that has it open. A provider may
create a resource and fail to say so.

**Recovery.** The backup command, its export job, a second export by hand and the
restore command, over an event that goes on. A part of a set is stood for by the
instant it was copied at.

**Provisioning.** What the stages write only once: secret files, team credentials,
specifications, inventories, accounts in the applications' volumes. A secret is
the number of the drawing it comes from; `Torn` is a file cut off in a write.

**Packaging, Installation.** A content is a number that grows with every edit; an
image, a receipt, an archive and a bundle name the contents they came from. The
packer does not see all of a content: `Layout` gives of each the files it compares
(LAYOUTS of `bundle.py`: our own code in four images, neither Dockerfile nor base), and
`PackImageSources` takes every image whose files are the tree's, also one of an earlier
content or of a polluted base (`Foreign`), which it may refuse too if the base brought
files along.

**Edge.** Certificates, rendered configuration, relays and rules, one write at a
time, and the two probes that look at them.

**Profile.** Validation and placement as operators (desktops, roster, capacity),
and the few steps that carry a profile from the operator's file to the started
services. Names are compared as wholes. The service, slot and team names and the
profiles that may be written are constants; MCOperations lists those of the run.

**Rehearsal.** Controllers under `control.lock`, the board's requests without it,
and the exercise clock computed from the ledger.

**MCOperations.** The deployment's parts share no variable that a property of
another one reads, so they are checked side by side: a behaviour belongs to one
part, named by `part`, and `v1 .. v19` stand for that part's variables in the
order its module declares them. A property of a part says `part = ... => ...`.
The operators, processes, installers, controllers, requests, components, ports and
all bounds are constants of MCOperations, given values in the .cfg; only the names
and profiles of Profile, which are sequences and records, and the seconds of
SyncLoop are written out in it. A part with proofs is taken through the module that
holds them, so that OperationsProofs can cite them for the same instance.
Since a behaviour has one part, the fairness conditions of different parts can
share a `WF_vars`: in any behaviour at most one of their disjuncts is ever enabled.
`Command(o)` is a condition for each operator.

## 3. What TLC checks

Every passing run ends with the state space exhausted.

| Run | Instance | Shows |
|---|---|---|
| `state_one` | one team; two tickets and a capstone that needs both, four questions, one with a walkthrough; lane limit 1, two claims per ticket, two export tokens, two site generations | TypeOK, PrerequisitesGate, OwnershipLedger, QuiescentSite, OneEligiblePerChain; FrozenWhileGuarded, AcceptedWorkKept |
| `state_teams` | two teams, the second registered at any time; a line of two tickets | CompleteIffAnswered, NoStrandedTicket, EndingExactlyOnce, AssessmentLast, ChainsAdvance, ClocksRun |
| `delivery_single` | one ticket, its four events; two workers, two requests in the applications, three faults | ExactlyOnceEffect, WatermarkAgrees, CreditIsVisible, EffectsInOrder, EvidenceBeforeTask; QuietApplications; implements `Spec` of ExerciseState |
| `delivery_live` | the same with one fault, under fairness | AcceptedWorkDelivered; implements `FairSpec` |
| `registration` | two places of two desktops, three registrations, two workers, a fault, two attempts | SlotsConsistent, RolesInOrder, ReadyIsServed, LatestClaimDecides |
| `operations` | ten parts; see below | WaitBounded, ExportIsOneInstant, HandoutWorks, ReadyMeansVerified, OneResource, OneSource, InstallIsWhole, EdgeAsConfigured, LedgersAgree, ProfileKept; implements EventRun |
| `operations_live` | recovery, provisioning, deployment, and registration with two registrations, under fairness | RestoreConverges, SetupEnds, EveryoneSettles |
| `doc_followup`, `loop_five`, `registration_cancel`, `deployment_wipe`, `journal_create` | one property each | a counterexample (section 7) |

The parts of `operations`:

| Part | Instance | Why it is enough |
|---|---|---|
| loop | four rows of a silent application and a healthy one, waits up to 180 s | four are the most that a back-off of 30 s absorbs at 9 s each; the fifth is `loop_five` |
| recovery | one change, two tokens, one fault | an export, one beside it or after it was cancelled, and a change in between |
| provisioning | two drawings, two losses | the old and the new credential meet in every file and volume |
| deployment | two operators, one fault, both kinds of profile, audit rows to 5 | one command overtakes another at each step, and one of them fails or is killed |
| journal | two processes, two steps, two journals, two faults | a lost acknowledgment and a kill in one step, a second process in every gap |
| packaging | two images, one fault; an edit that the packer sees or one of a Dockerfile alone | an edit of either kind before, between and after any two reads |
| installation | two installers, each with a bundle of its own, two faults | a killed attempt, a damaged bundle and another's staging directory |
| edge | two relays, two targets, one change, one fault | a relay that changes, one that does not, a kill in between |
| rehearsal | two controllers, two requests, one handler, three ledger events, two moments | a comment on each side of a clock transition |
| profile | one or two desktops with every name, or the neutral slots, on two hosts with room for one more or one fewer; the limit of ten services scaled to two | every count meets its limit from both sides |

Elsewhere the argument is the same: the guards compare a count with the lane
limit, a form's generation with the row's, a ticket's requirements with the closed
tickets, and one step to each side of every comparison is inside the instance.
Two claims give a delayed form an older, an equal and a newer generation. Two
teams are needed for what they share, and no definition relates three. Two
workers and two requests make an old and a new attempt meet; three faults allow a
stall, a lost answer and a crash of the same event. In `registration`
the third registration takes over a place that was freed beside a taken one; an
overlong claim, or a fault that tears `config.json` and so fails the second attempt
too, leads to every outcome a row can have. Operators' retries are bounded: a row is
claimed at most `MaxClaims` times, one more than the attempts of its own. What fixed contents and sizes cannot show is proved.

Deadlock is not checked: an exercise in which all is done and nobody acts, or a
model at its bounds, rightly stops. That nothing waits for ever is what the liveness
properties, NoStrandedTicket and ChainsAdvance say.

Symmetry is used where only sets of identities, tokens, workers or slots are
permuted, never in a run with a liveness property.

Some properties name an exception, in every case one the code has and a history
variable records: `raced` (start's checks precede its lock), `overlap` and
`overlapped` (two registration workers, two installers), `touched` (the checkout
changed under a packer), `late` (the board came up under a clock transition;
`--teams` was given to a runtime that has a journal). Without it the property
fails, which section 7 lists where a document promises otherwise.

## 4. Fairness

`FairSpec` of ExerciseState asks for weak fairness of each delivery and of nothing
else: no operator or participant ever has to act. `OutboxDelivery` justifies it by
weak fairness of a worker's own steps and of the applications' handlers (a live
thread goes on, a request is answered or lost), of the clocks that end leases and
back-offs, and strong fairness of leasing a row. The last needs an argument, since
`sync_once` takes the oldest row that is due. SyncLoop supplies it: with up to four
failing rows the thread comes to every other row (WaitBounded; `NoRowIsStarved` says
it of any numbers). It is also where it ends: `loop_five`. That there is a row to come
to is ChainsAdvance, proved as `ChainsNeverStick`: delivering rows that can be
delivered empties the outbox, whatever was queued.

Registration: each worker's loop goes on, with a step or with a claim, and each row's
clocks advance (end of a claim, end of a deferral); operators and registrants need not
act. Deployment: a command that has begun goes on (or is
killed); an operator whose first setup failed repeats up, and repairs what the
refusal names, strongly fair since another operator may hold the lock again and
again. Provisioning: up goes on and is repeated. Recovery: commands go on, and
restore is tried again as often as a try fails. Faults are bounded and never fair.

## 5. Refinements

OutboxDelivery implements ExerciseState with the variables it inherits: a delivery
of the abstract module is the acknowledgment of the detailed one, all else a
stutter. Safety is checked and proved, `FairSpec` is checked.

Deployment implements EventRun: `phase` is read off the store's file and control
row (absent, paused, running, fenced), `work` is the audit row of the latest
accepted work. Checked and proved. It is not by construction: stages, kills, an
adopted empty store, the controller's own command line and the two operators all
move the same rows.

## 6. What is proved

A theorem about a module is about that module's own specification, for all values
of its constants under the assumptions it names. The properties of `operations`
say `part = ... => ...`; they are theorems of MCOperations too, drawn from those of
the parts (`OperationsProofs`, below).

`ExerciseStateProofs`: TypeOK, LaneBound, PrerequisitesGate, OwnershipLedger,
CompleteIffAnswered, PaidHelpPriced, DeliveryPerAnswer, NoStrandedTicket,
EndingExactlyOnce, QuiescentSite, ClocksRun, FrozenWhileGuarded, AcceptedWorkKept,
for every roster, content, prerequisite graph and limit. LaneBound, PaidHelpPriced
and DeliveryPerAnswer are proved and not in a run of their own. Assumed of the constants
is what ExerciseState names: the ticket set is finite, every ticket has a question,
requirements are tickets, `None` is none of the values it stands beside. That the
requirements have no cycle is not needed for safety. QuiescentSite and ClocksRun
are inductive alone; the others hang together in `IInv`: the ledger and the lanes
need that an unregistered team has no rows; the ending and AcceptedWorkKept use
that every question of a complete ticket is answered; NoStrandedTicket needs that
tickets without requirements were queued at the start (`RootsQueued`).

The order of deliveries is a second part of that module: OneEligiblePerChain and
AssessmentLast. A row knows only the row it waits for, so the invariant gives every
chain a length and every row of it a number below that, without a gap (`Ranked`);
"the last row", which `enqueue` looks for, is then the one with the highest number
(`Behind`), and what is delivered of a chain is everything up to some number
(`Prefixed`). That a credit precedes its finding and the capstone's findings the
ending is a statement about numbers. So is that no chain is stuck (ChainsAdvance): of
the undelivered rows of a chain one has the least number (`Least`), and what it waits
for is delivered (`FirstIsEligible`). If it needs its ticket's task and the task does not
exist, the task's row was queued when the ticket opened (NoStrandedTicket, and
`AnswersHaveTasks` for tickets that are complete by now), and that row is the only one
of its own chain.

`OutboxDeliveryProofs`: the refinement of ExerciseState, ExactlyOnceEffect,
WatermarkAgrees, CreditIsVisible, EffectsInOrder, EvidenceBeforeTask,
QuietApplications, for any number of workers, requests and faults. The invariant
(`DInv`) says of a leased row what was true when it was leased (`Deliverable`), and
of a request what its sender had seen (`Shown`, `Tasked`, a receipt). All of it is
stable (`Grows`), so it holds of requests left behind by a crash as well; that is
the whole argument why no lock has to span the remote call.

Its last section is about SyncLoop (`NoRowIsStarved`), for any time-out T, pause P,
back-offs, rows and outages. Outages come and go and rows are queued without end, but
at most `Most` rows of the silent application, and `Backlog` of all, are pending at one
time (`LoopLoaded`, assumed of the behaviour; nothing is assumed of the rows over time).
Then no row that is due is passed over for longer than `Longest`, provided that

    (Most - 1) * (T + P) < MaxDelay - P        (LoopConditions)

With the code's 8, 1 and 30 seconds this is Most <= 4, which is where `loop_five` finds
the row that is never tried: for the code's numbers the condition is exact. It is what
to check when one of them is changed. The argument counts: while a row waits,
an older one can be delivered once, and time out once at each of the four shorter
back-offs (`Tokens`); these are used up. Between two of them each affected row can time
out only once at the largest back-off, for it is not due again before all the others have
had theirs. `LoopInv` says so of a set U, the rows put off in this way since the
last such step: their clocks are still beyond what the remaining ones can take.

`RegistrationProofs`: type correctness, SlotsConsistent, RolesInOrder,
LatestClaimDecides, ReadyIsServed for any capacity and number of workers,
registrations, attempts and faults (`CapacityAssumption`: they are positive).
`RegIInv` adds that a worker that is not idle has a registration (`Busy`) and that
the token of a row in provisioning is that of its latest claim (`Claimed`).
RolesInOrder cuts the slots into places of PerTeam each; while every team has a
whole place, the least available slots are one (`FirstSlotsArePlace`). It takes
slots to be ordered as numbers; the code orders their names, which is the same up
to slot 99. ReadyIsServed needs what the worker's stage says of its team
(`Progress`) and that the other workers are idle (`Serial`). Its clause about
`config.json` is for a whole file: a worker in the write has emptied it (`Progress` at
"filling"), and nothing restores what was lost if the write is cut off, so that the
statement without this condition is false (section 7).

`DeploymentProofs`: ReadyMeansVerified and the refinement of EventRun, for any number of
operators, faults and audit rows. `StoreInv` relates the rows of the store: an
unprovisioned one is paused, unfenced and holds undelivered work, which keeps
fence away from it. For the journal, only the holder of the lock touches the steps
(`LockHeld`), and `Own` says what the holder has established at its step.

`JournalProofs`: OneResource. `LockHeld` again, and a holder about to create has
seen that the resource is not there and nothing came since (`StillMissing`).
`RecoveryProofs`: ExportIsOneInstant. As long as the barrier bears an exporter's
own token nothing has changed since it was set, because a token is never drawn
twice (`Shielded`). JournalProofs and DeploymentProofs assume, in the theorem's
statement, that the value that stands for nobody is no process (`NoneFresh`).

`PreparationProofs` has six sections, one module each.

- Packaging (PackagesAreOneSource): a build reads the tree before it builds and
  again after. An image that is there was made in between (`Between`), so a receipt
  written over an unchanged tree names the source its image is of (`BuildInv`); what
  a packer or a distribution has collected is of the commit it began with as long
  as nothing moves under it (`PackInv`). Of an image this says only that its compared
  files are that commit's (`SameFiles`), for any `Layout`; more would be false
  (section 7).
- Installation (InstallsAreWhole, `InstallInv`): while installers do not overlap, the
  staging directory holds exactly what the one at work has unpacked (`Staged`),
  whatever a killed one had left. `InstallerAssumption`: no installer is the value
  that stands for none.
- Provisioning (HandoutAlwaysWorks): no single check of the code says that the
  credentials of one runtime directory come from one drawing; it follows from the
  order in which up writes and reads its files. `SetupInv` says it of the files
  (`OneDrawing`: each is missing, torn or of the latest drawing) and of the databases
  that drawing made (`OneVolume`), and adds what every step of up has established of
  the files (`Reached`) and of the applications (`Served`).
- Edge (EdgeIsAsConfigured): the probes look at the relays, so what remains to carry
  through is the certificate pair, which issue, copy and check write and read in
  separate steps (`PairAsChecked`), and the relays that down, half way, has already
  shut (`RelaysShut`).
- Rehearsal (LedgersAlwaysAgree): the invariant `BoardInv` is the order of writes
  inside a command (`Order`: directory, ledger, log, none more than one release ahead
  of the next), the lock (`Locking`) and the database (`Holding`), and what a comment's
  elapsed time was computed from (`Clocked`). The ledger is a sequence without a bound,
  so what the clock says of a moment after one more event needs an argument over all
  earlier ones: a counterexample would have a least position, and there is none
  (`ClockAppend`, `QuietAppend`, `TransitionAppend`, `ReleasesAppend`).
  `BoardAssumption`: no controller is a request or the value that stands for none.
- Profile (ProfileHolds): validation is idempotent (`ValidateOnce`), for explicit
  rosters, counts, made-up desktops and registration: accounts and teams filled in by
  the first pass are accepted and left alone by the second. Hence the profile the
  journal's fingerprint was taken of is the one every later command loads, and what
  runs was started by its rows (`ProfileInv`). With no crossing of names each service
  is started by the one row counted for it (`PlacedIsItem`), so on each host no more
  desktops run than `_check_capacity` counted, and the headroom is kept since the
  required memory grows with the number (`FitsFewer`). `ProfileAssumption`: profiles
  are typed, and there is a different name for every number a team or desktop may have.

`OperationsProofs`: ExportIsOneInstant, OneResource, ReadyMeansVerified, OneSource,
InstallIsWhole, HandoutWorks, EdgeAsConfigured, LedgersAgree, ProfileKept and the
refinement of EventRun, of MCOperations. For each part, its module runs in a behaviour
of that part (`<Part>Runs`) and the part is never under way in a behaviour of another
(`<Part>Apart`); the part's theorem does the rest. The refinement also needs that a
behaviour of another part only stutters in EventRun. Assumed is `OperationsAssumption`:
the parts' assumptions above, which TLC evaluates in the runs of MCOperations. For
ProfileKept the constants are those MCOperations writes out; ProfileHolds is general.

Only model-checked: all liveness (AcceptedWorkDelivered, the refinement of `FairSpec`,
EveryoneSettles, RestoreConverges, SetupEnds, and UnrelatedAdvance, which fails), since
TLAPS proves neither ENABLED nor liveness under fairness here; and of WaitBounded the
figure. The theorem's `Longest` lets every step that can be lost be lost between two full
rounds of time-outs, 990 seconds for the run's five rows; that the schedules there are
never need more than 180 is the enumeration of TLC.

## 7. Where the code and its documents differ

Each is a run that finds a counterexample, and a finding in PROJECT.json.

- `doc_followup`: docs/resilience.md:42 and others make a follow-up's delivery wait
  for the deliveries of the closure. `answer` gives it no such dependency, so a
  follow-up task may appear in IRIS before the findings that closed its
  requirement. What does hold is EffectsInOrder and AssessmentLast.
- `loop_five`: docs/resilience.md:42 has unrelated tickets advance while another
  chain fails. With five older rows of one silent application the thread is always
  busy with one of them, and a healthy row is never tried.
- `registration_cancel`: `cancel` says that a partially provisioned registration
  cannot be cancelled before cleanup, but refuses only `needs_operator`. A failed
  or expired attempt is `pending` again, is cancelled, and leaves accounts and
  permissions behind.
- `deployment_wipe`: down's docstring refuses `--volumes` unless a recovery set
  matches the live state. The live database is opened with immutable=1, past its
  write-ahead log, so that recent work is not seen.
- `journal_create`: two first runs of up create the journal at once; the handler of
  the second's failed CREATE TABLE unlinks the first one's file.

Met while modelling, and in the models, without a run of their own:

- docs/multi-host-desktops.md:214 has a worker outage leave a registration retryable.
  `config.json` is truncated and then written (local.py:2287): a worker killed, or a disk
  that fails, in between leaves a file that no later attempt can read (local.py:2278, and
  2604 in up), the teams that were ready are no longer in it, and no command writes it
  anew. In the model, `TruncateConfig` and then `Crash`: `text` stays "empty". This is why
  ReadyIsServed speaks of the file only while it is whole.
- docs/expanded-validation.md:88 has "Old image paired with new source" excluded by the
  packer's checks. They see the files under LAYOUTS alone (bundle.py:17-28): an image from
  before a committed change of its Dockerfile, or from a polluted base, is packed with the
  new commit's source, and the installer's receipt gives the image that commit's
  fingerprint (offline_install.py:241). In the model, `DockerBuild`, an `Edit` from the
  first content to the second, `Commit`, `Assemble` and the packer's steps. This is why
  OneSource compares images by `Layout`.
- docs/resilience.md:21 has all controller mutations rejected under an export
  barrier; `fence`, `unfence` and `activate_generation` do not look at it
  (state.py:322-356). The records stay frozen nevertheless (FrozenWhileGuarded).
- start looks at journal and stages before it has the lock: ReadyMeansVerified exempts
  a start that another command overtook there (`raced`) and fails without that.
- `mode running` from the controller's command line after an export's barrier is
  released, but before the backup is done, makes a set that cannot be restored.
- A kill inside `State.initialize` leaves a database without a run row, which up
  adopts and never provisions (the exception in `InSetup`).
- A restore that failed leaves files; the destination must be cleared by hand.
- `down --volumes` exempts a fenced site from the comparison.
- Concurrent installers share one staging directory: InstallIsWhole is for installers
  one after the other (`overlapped`) and fails without that.
- A kill between a release's publication and its log makes `verify` fail for good
  (`cut`).
- `up --teams N` records the override before it validates it.

## 8. What is not modelled

- **Schema and migrations** (`schema.py`, `State.migrate`): the states of earlier
  releases they start from are not in the repository. Reading them shows that
  `outbox.team` of old rows stays NULL, so that new rows of a team are not chained
  behind pending old ones.
- **Storage and pruning**: measuring and deleting files; no other state depends on
  the order.
- **Workload, schedule, load client and content generators**: planning arithmetic and
  a test client, run before the event. The load client builds its report ten
  seconds after asking its threads to end, while a request may last thirty, so an
  unanswered one is not counted; `schedule.py` speaks of a window of 240-300
  minutes and uses 330-390.
- **Narrative, pages, handouts, scenario data, printing, preflight's texts**: text
  and layout without state.
- **status, doctor, support bundles**: they read and report.
- **Remote desktop workers, rotation of certificates, passwords and access links**:
  procedures by hand over SSH; the models have the desktops' placement and the pair
  on the disk.
- **Providers' calls to Docker and the applications' HTTP**: external; Journal and
  OutboxDelivery have what the code relies on.
- **Authentication and the texts of answers.**
- **Evidence files one by one**: `Publish` of OutboxDelivery is one step, which a retry
  repeats whole. EvidenceBeforeTask says that it comes before the task, not what is
  visible between two renames.
- **Damage to a bundle after its verification**: a part spoiled between the check of the
  sums and its unpacking has no effect in Installation.
- **The rehearsal's reset.**

Within the modelled components, PROJECT.json says per component what is left out.
