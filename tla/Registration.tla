---------------------------- MODULE Registration ----------------------------
(***************************************************************************)
(* Self-service registration: the allocator that the registration page,    *)
(* the host worker and the operator share (ridge/registration.py, one      *)
(* SQLite file, every operation one transaction) and the worker that       *)
(* provisions a claimed team on the other systems, one call after another  *)
(* with no lock held (LocalStack.register_once).                           *)
(*                                                                         *)
(* The worker is meant to be alone, but an unverifiable pid record or the  *)
(* --once flag starts another one beside it; the history variable overlap  *)
(* remembers that two were at work together.                               *)
(***************************************************************************)
EXTENDS Integers, FiniteSets

CONSTANTS
  MaxTeams,     \* capacity of the event
  PerTeam,      \* desktops of a team (3 in the code)
  MaxReg,       \* bound on the registrations ever made
  MaxAttempts,  \* failed attempts after which an operator is needed (4)
  Worker,       \* worker processes
  MaxFaults     \* bound on failed steps, crashes and overlong claims together

ASSUME CapacityAssumption ==
  {MaxTeams, PerTeam, MaxReg, MaxAttempts, MaxFaults} \subseteq Nat \ {0}

VARIABLES
  status,      \* registrations.status, "none" before the row exists
  slots,       \* registrations.slots_json
  attempts,    \* registrations.attempt_count
  token,       \* registrations.worker_token, 0 while null; a claim's token is
               \* told from others by the attempt it began
  lapsed,      \* registrations whose lease_until has passed
  deferred,    \* registrations whose retry_at is to come
  slotStatus,  \* desktop_slots.status
  owner,       \* desktop_slots.registration_id, 0 while null
  worker,      \* what each worker's register_once is doing
  desktops,    \* desktop services that run
  ctfd, iris,  \* registrations with accounts there
  grants,      \* Guacamole: <<r, s>> if r's login may open the desktop of s
  config,      \* teams in the controller's config.json, none while it is not "whole"
  text,        \* what config.json is: "whole", "empty" (truncated) or "torn"
  teams,       \* teams of the progress store
  decidedBy,   \* history: the claim whose worker last decided r
  overlap,     \* history: two workers were at work together
  faults       \* faults so far

rowVars  == <<status, slots, attempts, token, lapsed, deferred, decidedBy>>
slotVars == <<slotStatus, owner>>
hostVars == <<desktops, ctfd, iris, grants, config, text, teams>>
vars == <<rowVars, slotVars, worker, hostVars, overlap, faults>>

Reg  == 1..MaxReg
Slot == 1..(MaxTeams * PerTeam)

Idle == [at |-> "idle", reg |-> 0, token |-> 0, read |-> {}]
At(w, stage) == worker[w].at = stage
Mine(w) == worker[w].reg

Fault == faults < MaxFaults /\ faults' = faults + 1

MaxClaims == MaxAttempts + 1  \* bound on the attempts that an operator's retry begins

\* A registration that counts against the capacity.
Counted == {r \in Reg : status[r] \notin {"none", "cancelled"}}
Available == {s \in Slot : slotStatus[s] = "available"}

\* Seeded fault (RolesInOrder): LIMIT without ORDER BY.
AllocationsUnordered == {a \in SUBSET Available : Cardinality(a) = PerTeam}

\* The slots a new registration may be given: the first ones available.
Allocations ==
  {a \in SUBSET Available : Cardinality(a) = PerTeam
                              /\ \A s \in a, u \in Available \ a : s < u}

\* Seeded fault (LatestClaimDecides): the token is not compared.
HoldsRow(w) == status[Mine(w)] = "provisioning"

\* The worker's claim is still the one the row records.
Holds(w) == status[Mine(w)] = "provisioning" /\ token[Mine(w)] = worker[w].token

Init ==
  /\ status = [r \in Reg |-> "none"]
  /\ slots = [r \in Reg |-> {}]
  /\ attempts = [r \in Reg |-> 0]
  /\ token = [r \in Reg |-> 0]
  /\ lapsed = {} /\ deferred = {}
  /\ slotStatus = [s \in Slot |-> "available"]
  /\ owner = [s \in Slot |-> 0]
  /\ worker = [w \in Worker |-> Idle]
  /\ desktops = {} /\ ctfd = {} /\ iris = {} /\ grants = {} /\ config = {} /\ teams = {}
  /\ text = "whole"
  /\ decidedBy = [r \in Reg |-> 0]
  /\ overlap = FALSE
  /\ faults = 0

-----------------------------------------------------------------------------
(* The page and the operator. *)

Register(r) ==
  /\ status[r] = "none"
  /\ \A q \in 1..(r - 1) : status[q] # "none"
  /\ Cardinality(Counted) < MaxTeams
  /\ \E mine \in Allocations :
       /\ slots' = [slots EXCEPT ![r] = mine]
       /\ slotStatus' = [s \in Slot |-> IF s \in mine THEN "reserved" ELSE slotStatus[s]]
       /\ owner' = [s \in Slot |-> IF s \in mine THEN r ELSE owner[s]]
  /\ status' = [status EXCEPT ![r] = "pending"]
  /\ UNCHANGED <<attempts, token, lapsed, deferred, decidedBy>>
  /\ UNCHANGED <<worker, hostVars, overlap, faults>>

\* Seeded fault (SlotsConsistent): a ready registration may be cancelled too.
MayCancelReady(r) == status[r] \in {"pending", "ready"}

MayCancel(r) == status[r] = "pending"

Cancel(r) ==
  LET freed == {s \in slots[r] : owner[s] = r /\ slotStatus[s] = "reserved"}
  IN  /\ MayCancel(r)
      /\ status' = [status EXCEPT ![r] = "cancelled"]
      /\ token' = [token EXCEPT ![r] = 0]
      /\ slotStatus' = [s \in Slot |-> IF s \in freed THEN "available" ELSE slotStatus[s]]
      /\ owner' = [s \in Slot |-> IF s \in freed THEN 0 ELSE owner[s]]
      /\ UNCHANGED <<slots, attempts, lapsed, deferred, decidedBy>>
      /\ UNCHANGED <<worker, hostVars, overlap, faults>>

Retry(r) ==
  /\ status[r] \in {"needs_operator", "pending"}
  /\ attempts[r] < MaxClaims
  /\ status' = [status EXCEPT ![r] = "pending"]
  /\ token' = [token EXCEPT ![r] = 0]
  /\ deferred' = deferred \ {r}
  /\ UNCHANGED <<slots, attempts, lapsed, decidedBy>>
  /\ UNCHANGED <<slotVars, worker, hostVars, overlap, faults>>

-----------------------------------------------------------------------------
(* The worker: claim, then one system after another, then complete.         *)

Expired == {r \in lapsed : status[r] = "provisioning"}

\* Seeded fault (EveryoneSettles): expired claims are not taken up again.
DuePending == {r \in Reg \ deferred : status[r] = "pending"}

Due == {r \in Reg \ deferred : status[r] = "pending" \/ r \in Expired}

\* claim_pending: every expired claim is withdrawn, one due row is claimed.  The
\* code takes the one with the earliest retry_at; the choice is left open here.
Claim(w, r) ==
  /\ At(w, "idle")
  /\ r \in Due
  /\ status' = [q \in Reg |-> IF q = r THEN "provisioning"
                              ELSE IF q \in Expired THEN "pending" ELSE status[q]]
  /\ attempts' = [attempts EXCEPT ![r] = @ + 1]
  /\ token' = [q \in Reg |-> IF q = r THEN attempts[r] + 1
                             ELSE IF q \in Expired THEN 0 ELSE token[q]]
  /\ lapsed' = lapsed \ (Expired \cup {r})
  /\ worker' = [worker EXCEPT ![w] =
       [at |-> "activating", reg |-> r, token |-> attempts[r] + 1, read |-> {}]]
  /\ overlap' = (overlap \/ \E x \in Worker : ~At(x, "idle"))
  /\ UNCHANGED <<slots, deferred, decidedBy, slotVars, hostVars, faults>>

Goes(w, stage) == worker' = [worker EXCEPT ![w].at = stage]

\* activate_credentials is outside the try: a refusal leaves the row claimed.
Activate(w) ==
  /\ At(w, "activating")
  /\ IF Holds(w) THEN Goes(w, "starting") ELSE worker' = [worker EXCEPT ![w] = Idle]
  /\ UNCHANGED <<rowVars, slotVars, hostVars, overlap, faults>>

\* Seeded fault (ReadyIsServed): the first group of services is not started.
StartedLater(r) == {s \in slots[r] : \E u \in slots[r] : u < s}

Started(r) == slots[r]

StartDesktops(w) ==
  /\ At(w, "starting")
  /\ desktops' = desktops \cup Started(Mine(w))
  /\ Goes(w, "ctfd")
  /\ UNCHANGED <<rowVars, slotVars, ctfd, iris, grants, config, text, teams, overlap, faults>>

\* Both applications look at the row and refuse one that is not being provisioned.
Admitted(r) == status[r] \in {"provisioning", "ready"}

RegisterCtfd(w) ==
  /\ At(w, "ctfd")
  /\ ctfd' = IF Admitted(Mine(w)) THEN ctfd \cup {Mine(w)} ELSE ctfd
  /\ Goes(w, IF Admitted(Mine(w)) THEN "iris" ELSE "failing")
  /\ UNCHANGED <<rowVars, slotVars, desktops, iris, grants, config, text, teams, overlap, faults>>

RegisterIris(w) ==
  /\ At(w, "iris")
  /\ iris' = IF Admitted(Mine(w)) THEN iris \cup {Mine(w)} ELSE iris
  /\ Goes(w, IF Admitted(Mine(w)) THEN "granting" ELSE "failing")
  /\ UNCHANGED <<rowVars, slotVars, desktops, ctfd, grants, config, text, teams, overlap, faults>>

\* The generated SQL adds permissions and removes none.
Grant(w) ==
  /\ At(w, "granting")
  /\ grants' = grants \cup ({Mine(w)} \X slots[Mine(w)])
  /\ Goes(w, "reading")
  /\ UNCHANGED <<rowVars, slotVars, desktops, ctfd, iris, config, text, teams, overlap, faults>>

\* _register_controller_team reads config.json, opens it for writing, which truncates
\* it, fills it with what was read and the team, and registers the team in the progress
\* store.  A file that does not parse fails the attempt.
ReadConfig(w) ==
  /\ At(w, "reading")
  /\ \/ text = "whole" /\ worker' = [worker EXCEPT ![w].at = "writing", ![w].read = config]
     \/ text # "whole" /\ Goes(w, "failing")
  /\ UNCHANGED <<rowVars, slotVars, hostVars, overlap, faults>>

KeepConfig(w) ==
  /\ At(w, "writing") /\ Mine(w) \in worker[w].read
  /\ worker' = [worker EXCEPT ![w].at = "joining", ![w].read = {}]
  /\ UNCHANGED <<rowVars, slotVars, hostVars, overlap, faults>>

TruncateConfig(w) ==
  /\ At(w, "writing") /\ Mine(w) \notin worker[w].read
  /\ config' = {} /\ text' = "empty"
  /\ Goes(w, "filling")
  /\ UNCHANGED <<rowVars, slotVars, desktops, ctfd, iris, grants, teams, overlap, faults>>

\* Over what another worker wrote meanwhile, the end of the longer text remains.
WriteConfig(w) ==
  /\ At(w, "filling")
  /\ text' \in IF text = "empty" THEN {"whole"} ELSE {"whole", "torn"}
  /\ config' = IF text' = "whole" THEN worker[w].read \cup {Mine(w)} ELSE {}
  /\ worker' = [worker EXCEPT ![w].at = "joining", ![w].read = {}]
  /\ UNCHANGED <<rowVars, slotVars, desktops, ctfd, iris, grants, teams, overlap, faults>>

JoinController(w) ==
  /\ At(w, "joining")
  /\ teams' = teams \cup {Mine(w)}
  /\ Goes(w, "completing")
  /\ UNCHANGED <<rowVars, slotVars, desktops, ctfd, iris, grants, config, text, overlap, faults>>

Complete(w) ==
  LET r == Mine(w)
  IN  /\ At(w, "completing")
      /\ IF Holds(w)
         THEN /\ status' = [status EXCEPT ![r] = "ready"]
              /\ token' = [token EXCEPT ![r] = 0]
              /\ lapsed' = lapsed \ {r}
              /\ decidedBy' = [decidedBy EXCEPT ![r] = worker[w].token]
              /\ slotStatus' = [s \in Slot |-> IF s \in slots[r] THEN "running" ELSE slotStatus[s]]
              /\ worker' = [worker EXCEPT ![w] = Idle]
         ELSE /\ Goes(w, "failing")
              /\ UNCHANGED <<status, token, lapsed, decidedBy, slotStatus>>
      /\ UNCHANGED <<slots, attempts, deferred, owner, hostVars, overlap, faults>>

Outcome(r) == IF attempts[r] >= MaxAttempts THEN "needs_operator" ELSE "pending"

\* requeue: of a claim that is still the row's own; any other worker just stops.
Requeue(w) ==
  LET r == Mine(w)
  IN  /\ At(w, "failing")
      /\ IF Holds(w)
         THEN /\ status' = [status EXCEPT ![r] = Outcome(r)]
              /\ deferred' = IF attempts[r] >= MaxAttempts THEN deferred ELSE deferred \cup {r}
              /\ token' = [token EXCEPT ![r] = 0]
              /\ lapsed' = lapsed \ {r}
              /\ decidedBy' = [decidedBy EXCEPT ![r] = worker[w].token]
              /\ Goes(w, "stopping")
         ELSE /\ worker' = [worker EXCEPT ![w] = Idle]
              /\ UNCHANGED <<status, deferred, token, lapsed, decidedBy>>
      /\ UNCHANGED <<slots, attempts, slotVars, hostVars, overlap, faults>>

\* Nobody looks at the outcome of the stop.
StopDesktops(w) ==
  /\ At(w, "stopping")
  /\ \E stopped \in {{}, slots[Mine(w)]} : desktops' = desktops \ stopped
  /\ worker' = [worker EXCEPT ![w] = Idle]
  /\ UNCHANGED <<rowVars, slotVars, ctfd, iris, grants, config, text, teams, overlap, faults>>

-----------------------------------------------------------------------------
(* What goes wrong, and what time does. *)

Trying == {"starting", "ctfd", "iris", "granting", "reading", "writing", "filling",
           "joining"}

\* A write that is cut off has written nothing, or a part.
CutOff(w) ==
  \/ UNCHANGED <<config, text>>
  \/ At(w, "filling") /\ config' = {} /\ text' = "torn"

\* A call fails, before or after it took effect.
StepFails(w) ==
  /\ Fault
  /\ worker[w].at \in Trying \cup {"completing"}
  /\ Goes(w, "failing") /\ CutOff(w)
  /\ UNCHANGED <<rowVars, slotVars, desktops, ctfd, iris, grants, teams, overlap>>

\* The worker process dies, or an exception escapes before the try.
Crash(w) ==
  /\ Fault
  /\ ~At(w, "idle")
  /\ worker' = [worker EXCEPT ![w] = Idle] /\ CutOff(w)
  /\ UNCHANGED <<rowVars, slotVars, desktops, ctfd, iris, grants, teams, overlap>>

\* Five minutes pass: a fault only if the claim is still being worked on.
Lapse(r) ==
  /\ status[r] = "provisioning" /\ r \notin lapsed
  /\ IF \E w \in Worker : Mine(w) = r /\ worker[w].token = token[r]
     THEN Fault ELSE UNCHANGED faults
  /\ lapsed' = lapsed \cup {r}
  /\ UNCHANGED <<status, slots, attempts, token, deferred, decidedBy>>
  /\ UNCHANGED <<slotVars, worker, hostVars, overlap>>

RetryFalls(r) ==
  /\ r \in deferred
  /\ deferred' = deferred \ {r}
  /\ UNCHANGED <<status, slots, attempts, token, lapsed, decidedBy>>
  /\ UNCHANGED <<slotVars, worker, hostVars, overlap, faults>>

-----------------------------------------------------------------------------
Step(w) ==
  \/ Activate(w) \/ StartDesktops(w) \/ RegisterCtfd(w) \/ RegisterIris(w) \/ Grant(w)
  \/ ReadConfig(w) \/ KeepConfig(w) \/ TruncateConfig(w) \/ WriteConfig(w)
  \/ JoinController(w) \/ Complete(w) \/ Requeue(w) \/ StopDesktops(w)

Next ==
  \/ \E r \in Reg : Register(r) \/ Cancel(r) \/ Retry(r) \/ Lapse(r) \/ RetryFalls(r)
  \/ \E w \in Worker : Step(w) \/ StepFails(w) \/ Crash(w) \/ \E r \in Reg : Claim(w, r)

Spec == Init /\ [][Next]_vars

\* What registration_loop goes on with, and what time brings: never both alternatives of
\* one are enabled.
Loop(w) == Step(w) \/ \E r \in Reg : Claim(w, r)
Clocks(r) == Lapse(r) \/ RetryFalls(r)

-----------------------------------------------------------------------------
\* A call of register_once.
Call ==
  [at : Trying \cup {"idle", "activating", "completing", "failing", "stopping"},
   reg : Reg \cup {0}, token : Nat, read : SUBSET Reg]

\* The type invariant.
RTypeOK ==
  /\ status \in [Reg -> {"none", "pending", "provisioning", "ready", "needs_operator",
                         "cancelled"}]
  /\ slots \in [Reg -> SUBSET Slot]
  /\ attempts \in [Reg -> Nat] /\ token \in [Reg -> Nat] /\ decidedBy \in [Reg -> Nat]
  /\ lapsed \subseteq Reg /\ deferred \subseteq Reg
  /\ slotStatus \in [Slot -> {"available", "reserved", "running"}]
  /\ owner \in [Slot -> Reg \cup {0}]
  /\ worker \in [Worker -> Call]
  /\ desktops \subseteq Slot
  /\ ctfd \subseteq Reg /\ iris \subseteq Reg /\ config \subseteq Reg /\ teams \subseteq Reg
  /\ grants \subseteq Reg \X Slot
  /\ text \in {"whole", "empty", "torn"}
  /\ overlap \in BOOLEAN
  /\ faults \in 0..MaxFaults

\* The two tables agree: a desktop is free, reserved or running according to the
\* registration that owns it, and every counted registration owns all of its own,
\* through any sequence of cancellations, expiries and retries.
SlotsConsistent ==
  /\ \A s \in Slot : slotStatus[s] = "available" <=> owner[s] = 0
  /\ \A s \in Slot, r \in Reg :
       owner[s] = r <=> r \in Counted /\ s \in slots[r]
  /\ \A s \in Slot, r \in Reg :
       owner[s] = r => (slotStatus[s] = "running" <=> status[r] = "ready")

Place(i) == (PerTeam * (i - 1) + 1)..(PerTeam * i)

\* A team's desktops are the ones whose roles the handout lists in order
\* (desktop_handout pairs them by position): allocation after cancellations
\* never mixes the roles.
RolesInOrder ==
  \A r \in Counted : \E i \in 1..MaxTeams : slots[r] = Place(i)

\* A team whose handout is ready has everything the handout lists: running
\* desktops, accounts in both applications, its Guacamole connections and its
\* place in the controller, as long as one worker was at work at a time.  The place in
\* config.json is lost with the whole file when a later team's write of it is under way
\* or was cut off, for good; nothing else a later failure does takes it away.
ReadyIsServed ==
  \A r \in Reg : status[r] = "ready" /\ ~overlap =>
    /\ slots[r] \subseteq desktops
    /\ {r} \X slots[r] \subseteq grants
    /\ r \in ctfd \cap iris \cap teams
    /\ text = "whole" => r \in config

\* The outcome of a registration is that of its latest claim: a worker whose
\* lease was taken over neither completes nor fails it (complete, requeue).
LatestClaimDecides ==
  \A r \in Reg : status[r] \in {"ready", "needs_operator"} => decidedBy[r] = attempts[r]

Unsettled(r) == status[r] \in {"pending", "provisioning"}

\* "cannot cancel a partially provisioned registration before host-side cleanup"
\* (registration.py, cancel): a cancelled registration has left nothing behind in
\* the applications, in Guacamole or with the controller.
CancelledIsUnprovisioned ==
  \A r \in Reg : status[r] = "cancelled" =>
    /\ r \notin ctfd \cup iris \cup config \cup teams
    /\ \A s \in Slot : <<r, s>> \notin grants

=============================================================================
