--------------------------- MODULE ExerciseState ---------------------------
(***************************************************************************)
(* The authoritative progress store of an exercise (ridge/state.py): one   *)
(* SQLite database on the integration host.  Every operation of class      *)
(* State is one BEGIN IMMEDIATE transaction, so every operation is one     *)
(* action here.  Participants reach claim, release, hint and answer        *)
(* through the IRIS and CTFd adapters; the operator CLI reaches the rest.  *)
(* A request may be delayed or repeated at will: the generation it carries *)
(* is any number the page that sent it may have displayed.                 *)
(*                                                                         *)
(* Deliveries to the two applications are queued in the outbox by the same *)
(* transaction that records the progress.  Here one delivery is one step,  *)
(* SyncOnce; module OutboxDelivery splits it into lease, remote request,   *)
(* receipt and acknowledgement and is shown to implement this module.      *)
(*                                                                         *)
(* A definition marked "Seeded fault" is no part of the specification: it  *)
(* is what the definition after it would be with a plausible bug, and the  *)
(* property named must fail when it takes its place.                       *)
(***************************************************************************)
EXTENDS Integers, FiniteSets

CONSTANTS
  Team,              \* team ids the run may ever hold
  InitialTeam,       \* the roster given to initialize
  Iris, Ctfd,        \* application identities a team can be mapped to
  Ticket, Question,  \* the immutable content of the run
  Requires,          \* Requires[t]: the tickets that must close before t opens
  TicketOf,          \* TicketOf[q]: the ticket question q belongs to
  Walkthrough,       \* the questions that have a paid walkthrough
  Capstone,          \* the ticket whose completion allows the ending (T20)
  LaneLimit,         \* active work lanes per team (3 in the code)
  Token,             \* export tokens; each is used by one export only
  MaxGeneration,     \* bound on the claims of one ticket by one team
  MaxSite,           \* bound on the site generation
  None

ASSUME RosterAssumption == InitialTeam \subseteq Team /\ IsFiniteSet(Ticket)
ASSUME ContentAssumption ==
  /\ Requires \in [Ticket -> SUBSET Ticket]
  /\ TicketOf \in [Question -> Ticket]
  /\ \A t \in Ticket : \E q \in Question : TicketOf[q] = t
  /\ Walkthrough \subseteq Question
  /\ Capstone \in Ticket
ASSUME BoundAssumption ==
  LaneLimit \in Nat /\ MaxGeneration \in Nat /\ MaxSite \in Nat
ASSUME NoneAssumption ==
  /\ None \notin Team \cup Ticket \cup Question \cup Token
  /\ None \notin [iris : Iris, ctfd : Ctfd]

VARIABLES
  provisioned,     \* control.provisioned: deliveries are permitted
  mode,            \* run.mode
  fenced,          \* control.fenced: superseded by another site
  siteGeneration,  \* control.site_generation
  exportToken,     \* control.export_token: the export holding the barrier
  usedTokens,      \* tokens drawn so far (uuid4: never drawn twice)
  mapping,         \* teams: the identities of a registered team, or None
  started,         \* teams whose started_at is set
  status,          \* team_tickets.status
  generation,      \* team_tickets.generation
  claimForms,      \* history: the generations on the claim forms that took effect
  releaseForms,    \* history: the same of release and recovery forms
  hints,           \* hint_usage rows
  answers,         \* answers.value, 0 where there is no row
  assessed,        \* audit: teams with a final_assessment row
  outbox,          \* delivery_dependencies of every queued event
  delivered,       \* outbox rows with done=1
  irisTask         \* tickets whose iris_id is set

controlVars  == <<provisioned, mode, fenced, siteGeneration, exportToken, usedTokens>>
teamVars     == <<mapping, started>>
laneVars     == <<status, generation, claimForms, releaseForms>>
workVars     == <<hints, answers, assessed>>
deliveryVars == <<outbox, delivered, irisTask>>
vars == <<controlVars, teamVars, laneVars, workVars, deliveryVars>>

FULL_QUESTION_POINTS == 4
ASSISTED_QUESTION_POINTS == 1

Status   == {"absent", "locked", "available", "active", "complete"}
Identity == [iris : Iris, ctfd : Ctfd]

QuestionsOf(t) == {q \in Question : TicketOf[q] = t}

-----------------------------------------------------------------------------
(* The outbox.  An event is identified by its key, so a key is queued once. *)
(* Its chain is the pair (ticket, team) that enqueue compares; ticket       *)
(* deliveries have no team.                                                 *)

TicketEvent(t) ==
  [kind |-> "ticket", ticket |-> t, team |-> None, question |-> None]
PointEvent(m, q) ==
  [kind |-> "point", ticket |-> TicketOf[q], team |-> m, question |-> q]
FindingEvent(m, q) ==
  [kind |-> "finding", ticket |-> TicketOf[q], team |-> m, question |-> q]
AssessmentEvent(m) ==
  [kind |-> "assessment", ticket |-> Capstone, team |-> m, question |-> None]

Event ==
  {TicketEvent(t) : t \in Ticket} \cup {AssessmentEvent(m) : m \in Team}
    \cup {PointEvent(m, q) : m \in Team, q \in Question}
    \cup {FindingEvent(m, q) : m \in Team, q \in Question}

SameChain(e, f) == e.ticket = f.ticket /\ e.team = f.team

\* Seeded fault (OneEligiblePerChain): the oldest row instead of the last.
PreviousOldest(box, e) == {p \in DOMAIN box : SameChain(p, e) /\ box[p] = {}}

\* Seeded fault (AssessmentLast): the chain of the ticket's own deliveries.
PreviousTeamless(box, e) ==
  {p \in DOMAIN box : p.ticket = e.ticket /\ p.team = None
                        /\ \A x \in DOMAIN box : p \notin box[x]}

\* The last row of e's chain: the one row of it no later row waits for.
Previous(box, e) ==
  {p \in DOMAIN box : SameChain(p, e) /\ \A x \in DOMAIN box : p \notin box[x]}

\* Seeded fault (ChainsAdvance): a key already present is queued again.
EnqueueAllAgain(box, events) ==
  [x \in DOMAIN box \cup events |-> IF x \in events THEN Previous(box, x) ELSE box[x]]

\* Queue events of distinct chains; a key already present is left as it is.
EnqueueAll(box, events) ==
  [x \in DOMAIN box \cup events |->
     IF x \in DOMAIN box THEN box[x] ELSE Previous(box, x)]

Enqueue(box, e) == EnqueueAll(box, {e})

\* Seeded fault (QuietApplications): only the credits of CTFd are waited for.
DrainedCredits == {e \in DOMAIN outbox : e.kind = "point"} \subseteq delivered

Drained == DOMAIN outbox \subseteq delivered

-----------------------------------------------------------------------------
(* What a transaction checks first. *)

\* Seeded fault (QuiescentSite): the fence is not looked at.
MutableWhenFenced == exportToken = None

\* Seeded fault (FrozenWhileGuarded): the export barrier is not looked at.
MutableWhileExporting == ~fenced

Mutable == exportToken = None /\ ~fenced
Running == Mutable /\ mode = "running"

Registered(m) == mapping[m] # None
ActiveLanes(m) == {t \in Ticket : status[m][t] = "active"}
Open(m, t) == status[m][t] \in {"available", "active"}

\* Seeded fault (OwnershipLedger): any earlier generation will do.
CurrentOrOlder(m, t, g) == g <= generation[m][t]

Current(m, t, g) == g = generation[m][t]

HasFreeLane(m) == Cardinality(ActiveLanes(m)) < LaneLimit

\* Seeded fault (AcceptedWorkKept): earlier answers not looked up.
AnswerableAgain(m, q) == Open(m, TicketOf[q])

Answerable(m, q) == Open(m, TicketOf[q]) /\ answers[m][q] = 0

\* Seeded fault (NoStrandedTicket): a late team gets them all.
FreshRowsUnlocked == [t \in Ticket |-> "available"]

FreshRows == [t \in Ticket |-> IF Requires[t] = {} THEN "available" ELSE "locked"]

-----------------------------------------------------------------------------
(* initialize *)

Init ==
  /\ provisioned = FALSE
  /\ mode = "paused"
  /\ fenced = FALSE
  /\ siteGeneration = 1
  /\ exportToken = None
  /\ usedTokens = {}
  /\ mapping \in [Team -> Identity \cup {None}]
  /\ \A m \in Team : Registered(m) <=> m \in InitialTeam
  /\ \A m, n \in InitialTeam :
       m # n => mapping[m].iris # mapping[n].iris /\ mapping[m].ctfd # mapping[n].ctfd
  /\ started = {}
  /\ status = [m \in Team |-> IF m \in InitialTeam THEN FreshRows
                              ELSE [t \in Ticket |-> "absent"]]
  /\ generation = [m \in Team |-> [t \in Ticket |-> 0]]
  /\ claimForms = [m \in Team |-> [t \in Ticket |-> {}]]
  /\ releaseForms = [m \in Team |-> [t \in Ticket |-> {}]]
  /\ hints = {}
  /\ answers = [m \in Team |-> [q \in Question |-> 0]]
  /\ assessed = {}
  /\ outbox = [e \in {TicketEvent(t) : t \in {u \in Ticket : Requires[u] = {}}} |-> {}]
  /\ delivered = {}
  /\ irisTask = {}

-----------------------------------------------------------------------------
(* Operator actions. *)

RegisterTeam(m, id) ==
  /\ Mutable
  /\ ~Registered(m)
  /\ \A n \in Team : Registered(n) => mapping[n].iris # id.iris /\ mapping[n].ctfd # id.ctfd
  /\ mapping' = [mapping EXCEPT ![m] = id]
  /\ started' = IF mode = "running" THEN started \cup {m} ELSE started
  /\ status' = [status EXCEPT ![m] = FreshRows]
  /\ UNCHANGED <<controlVars, generation, claimForms, releaseForms, workVars, deliveryVars>>

Provision ==
  /\ Mutable
  /\ provisioned' = TRUE
  /\ UNCHANGED <<mode, fenced, siteGeneration, exportToken, usedTokens>>
  /\ UNCHANGED <<teamVars, laneVars, workVars, deliveryVars>>

\* Seeded fault (ClocksRun): only the first start sets the clocks.
StartClocksOnce == IF started = {} THEN {m \in Team : Registered(m)} ELSE started

\* The teams whose clock runs once the exercise resumes.
StartClocks == {m \in Team : Registered(m)}

SetMode(value) ==
  /\ Mutable
  /\ value = "running" => provisioned
  /\ mode # value
  /\ mode' = value
  /\ started' = IF value = "running" THEN StartClocks ELSE started
  /\ UNCHANGED <<provisioned, fenced, siteGeneration, exportToken, usedTokens>>
  /\ UNCHANGED <<mapping, laneVars, workVars, deliveryVars>>

\* fence and unfence look at the fence alone, never at an export barrier.
Fence ==
  /\ ~fenced
  /\ mode = "paused"
  /\ Drained
  /\ fenced' = TRUE
  /\ UNCHANGED <<provisioned, mode, siteGeneration, exportToken, usedTokens>>
  /\ UNCHANGED <<teamVars, laneVars, workVars, deliveryVars>>

Unfence ==
  /\ fenced
  /\ fenced' = FALSE
  /\ UNCHANGED <<provisioned, mode, siteGeneration, exportToken, usedTokens>>
  /\ UNCHANGED <<teamVars, laneVars, workVars, deliveryVars>>

ActivateGeneration(g) ==
  /\ ~fenced
  /\ g > siteGeneration
  /\ siteGeneration' = g
  /\ UNCHANGED <<provisioned, mode, fenced, exportToken, usedTokens>>
  /\ UNCHANGED <<teamVars, laneVars, workVars, deliveryVars>>

\* Entry of export_barrier.
BeginExport(k) ==
  /\ Mutable
  /\ mode = "paused"
  /\ Drained
  /\ k \notin usedTokens
  /\ exportToken' = k
  /\ usedTokens' = usedTokens \cup {k}
  /\ UNCHANGED <<provisioned, mode, fenced, siteGeneration>>
  /\ UNCHANGED <<teamVars, laneVars, workVars, deliveryVars>>

\* The barrier is lifted by its owner (the finally clause) or by cancel_export
\* with the exact token; after a crash of the exporter only the latter remains.
EndExport(k) ==
  /\ exportToken = k
  /\ exportToken' = None
  /\ UNCHANGED <<provisioned, mode, fenced, siteGeneration, usedTokens>>
  /\ UNCHANGED <<teamVars, laneVars, workVars, deliveryVars>>

-----------------------------------------------------------------------------
(* Participant actions.  g is the generation the request carries. *)

Claim(m, t, g) ==
  /\ Running
  /\ Registered(m)
  /\ HasFreeLane(m)
  /\ status[m][t] = "available"
  /\ t \in irisTask
  /\ Current(m, t, g)
  /\ g < MaxGeneration
  /\ status' = [status EXCEPT ![m][t] = "active"]
  /\ generation' = [generation EXCEPT ![m][t] = @ + 1]
  /\ claimForms' = [claimForms EXCEPT ![m][t] = @ \cup {g}]
  /\ UNCHANGED <<controlVars, teamVars, releaseForms, workVars, deliveryVars>>

\* A release by the team itself needs a running exercise; an operator recovery
\* (recovery_actor and reason given) does not.
Release(m, t, g, recovery) ==
  /\ Mutable
  /\ recovery \/ Running
  /\ status[m][t] = "active"
  /\ Current(m, t, g)
  /\ status' = [status EXCEPT ![m][t] = "available"]
  /\ releaseForms' = [releaseForms EXCEPT ![m][t] = @ \cup {g}]
  /\ UNCHANGED <<controlVars, teamVars, generation, claimForms, workVars, deliveryVars>>

UnlockHint(m, q) ==
  /\ Running
  /\ Answerable(m, q)
  /\ q \in Walkthrough
  /\ hints' = hints \cup {<<m, q>>}
  /\ UNCHANGED <<controlVars, teamVars, laneVars, answers, assessed, deliveryVars>>

\* Seeded fault (PrerequisitesGate): one completed requirement is enough.
CloseTicketAny(m, t) ==
  [u \in Ticket |->
     IF u = t THEN "complete"
     ELSE IF status[m][u] = "locked" /\ t \in Requires[u] THEN "available" ELSE status[m][u]]

\* Seeded fault (TypeOK): a status the table does not admit.
CloseTicketClosed(m, t) == [status[m] EXCEPT ![t] = "closed"]

\* The statuses of team m once its ticket t has closed: t is complete and the
\* locked tickets whose requirements are now all complete become available.
CloseTicket(m, t) ==
  LET completed == {u \in Ticket : status[m][u] = "complete"} \cup {t}
  IN  [u \in Ticket |->
         IF u = t THEN "complete"
         ELSE IF status[m][u] = "locked" /\ Requires[u] \subseteq completed
              THEN "available" ELSE status[m][u]]

\* Seeded fault (CompleteIffAnswered): the answers of all teams are counted.
ClosesForAll(m, q) ==
  \A p \in QuestionsOf(TicketOf[q]) : p = q \/ \E n \in Team : answers[n][p] # 0

\* The answer to q leaves no question of its ticket open.
Closes(m, q) ==
  \A p \in QuestionsOf(TicketOf[q]) : p = q \/ answers[m][p] # 0

\* The deliveries of the tickets that open for m when its statuses become rows.
LeadEvents(m, rows) ==
  {TicketEvent(u) : u \in {v \in Ticket : status[m][v] = "locked" /\ rows[v] = "available"}}

\* Seeded fault (EndingExactlyOnce): the audit marker of any team counts.
EndingDueOnce(m, rows) == assessed = {} /\ \A t \in Ticket : rows[t] = "complete"

\* _ensure_final_assessment: rows are the team's statuses at that point.
EndingDue(m, rows) == m \notin assessed /\ \A t \in Ticket : rows[t] = "complete"

\* A correct answer.  A wrong one changes nothing and is left out.
Answer(m, q) ==
  LET value  == IF <<m, q>> \in hints THEN ASSISTED_QUESTION_POINTS
                ELSE FULL_QUESTION_POINTS
      queued == Enqueue(Enqueue(outbox, PointEvent(m, q)), FindingEvent(m, q))
      rows   == IF Closes(m, q) THEN CloseTicket(m, TicketOf[q]) ELSE status[m]
      opened == EnqueueAll(queued, LeadEvents(m, rows))
  IN  /\ Running
      /\ Answerable(m, q)
      /\ answers' = [answers EXCEPT ![m][q] = value]
      /\ status' = [status EXCEPT ![m] = rows]
      /\ IF Closes(m, q) /\ EndingDue(m, rows)
         THEN /\ assessed' = assessed \cup {m}
              /\ outbox' = Enqueue(opened, AssessmentEvent(m))
         ELSE /\ assessed' = assessed
              /\ outbox' = opened
      /\ UNCHANGED <<controlVars, teamVars, generation, claimForms, releaseForms, hints,
                     delivered, irisTask>>

-----------------------------------------------------------------------------
(* sync_once seen from the database: an event whose prerequisites are all   *)
(* done is done.  IRIS accepts a comment only on an existing task, whose id *)
(* the delivery carries, so a finding succeeds only once iris_id is set.    *)

\* Seeded fault (EffectsInOrder): prerequisites are not looked at.
EligibleOutOfOrder(e) == e \in DOMAIN outbox \ delivered

Eligible(e) ==
  /\ e \in DOMAIN outbox \ delivered
  /\ outbox[e] \subseteq delivered

\* Seeded fault (AcceptedWorkDelivered): every IRIS delivery waits for the task.
NeedsTaskAlways(e) == e.kind # "point"

NeedsTask(e) == e.kind \in {"finding", "assessment"}

SyncOnce(e) ==
  /\ provisioned
  /\ exportToken = None
  /\ Eligible(e)
  /\ NeedsTask(e) => e.ticket \in irisTask
  /\ delivered' = delivered \cup {e}
  /\ irisTask' = IF e.kind = "ticket" THEN irisTask \cup {e.ticket} ELSE irisTask
  /\ UNCHANGED <<controlVars, teamVars, laneVars, workVars, outbox>>

-----------------------------------------------------------------------------
Operator ==
  \/ \E m \in Team, id \in Identity : RegisterTeam(m, id)
  \/ Provision
  \/ \E value \in {"running", "paused"} : SetMode(value)
  \/ Fence
  \/ Unfence
  \/ \E g \in 1..MaxSite : ActivateGeneration(g)
  \/ \E k \in Token : BeginExport(k) \/ EndExport(k)
  \/ \E m \in Team, t \in Ticket, g \in 0..MaxGeneration : Release(m, t, g, TRUE)

Participant ==
  \E m \in Team :
    \/ \E t \in Ticket, g \in 0..MaxGeneration :
         Claim(m, t, g) \/ Release(m, t, g, FALSE)
    \/ \E q \in Question : UnlockHint(m, q) \/ Answer(m, q)

Next == Operator \/ Participant \/ \E e \in Event : SyncOnce(e)

Spec == Init /\ [][Next]_vars

\* The integration service retries every failed delivery for ever, so a
\* delivery that stays possible is made.  Nothing else is promised to happen.
FairSpec == Spec /\ \A e \in Event : WF_vars(SyncOnce(e))

-----------------------------------------------------------------------------
TypeOK ==
  /\ provisioned \in BOOLEAN /\ fenced \in BOOLEAN
  /\ mode \in {"running", "paused"}
  /\ siteGeneration \in Nat
  /\ exportToken \in Token \cup {None}
  /\ usedTokens \subseteq Token
  /\ mapping \in [Team -> Identity \cup {None}]
  /\ started \subseteq Team
  /\ status \in [Team -> [Ticket -> Status]]
  /\ generation \in [Team -> [Ticket -> Nat]]
  /\ claimForms \in [Team -> [Ticket -> SUBSET Nat]]
  /\ releaseForms \in [Team -> [Ticket -> SUBSET Nat]]
  /\ hints \subseteq Team \X Question
  /\ answers \in [Team -> [Question ->
                {0, ASSISTED_QUESTION_POINTS, FULL_QUESTION_POINTS}]]
  /\ assessed \subseteq Team
  /\ DOMAIN outbox \subseteq Event
  /\ outbox \in [DOMAIN outbox -> SUBSET Event]
  /\ delivered \subseteq Event
  /\ irisTask \subseteq Ticket

Completed(m) == {t \in Ticket : status[m][t] = "complete"}
Answered(m, q) == answers[m][q] # 0

\* A team never holds more work lanes than the limit, whatever mixture of
\* claims, relinquishments, recoveries and closures led there (claim).
LaneBound == \A m \in Team : Cardinality(ActiveLanes(m)) <= LaneLimit

\* A ticket of a registered team is locked exactly while one of its
\* requirements is open: no closure forgets to open a follow-up and none opens
\* one early, for teams that joined a running event too (answer, register_team).
PrerequisitesGate ==
  \A m \in Team, t \in Ticket :
    IF Registered(m)
    THEN (status[m][t] = "locked") <=> ~(Requires[t] \subseteq Completed(m))
    ELSE status[m][t] = "absent"

\* A ticket is complete exactly when every question of it has been credited to
\* that team, so that no team closes a ticket on another team's answers.
CompleteIffAnswered ==
  \A m \in Team, t \in Ticket :
    (status[m][t] = "complete") <=> \A q \in QuestionsOf(t) : Answered(m, q)

Ledger(m, t) ==
  LET g == generation[m][t]
  IN  /\ claimForms[m][t] = 0..(g - 1)
      /\ status[m][t] = "active" => g > 0 /\ releaseForms[m][t] = 1..(g - 1)
      /\ status[m][t] = "complete" => releaseForms[m][t] \in {1..g, 1..(g - 1)}
      /\ status[m][t] \notin {"active", "complete"} => releaseForms[m][t] = 1..g

\* Every claim that took effect was made from a page that showed the ticket as
\* it then was, and every release or recovery named the ownership it ended: the
\* n-th claim carried n-1, the n-th release n, so that a form repeated, delayed
\* or overtaken by a recovery has no effect (claim, release; docs/resilience.md:52).
OwnershipLedger == \A m \in Team, t \in Ticket : Ledger(m, t)

\* An answer is worth the assisted price exactly if that team bought the
\* walkthrough, and a walkthrough is never bought once the answer is in
\* (unlock_hint, answer): the order of the two requests cannot change a price.
PaidHelpPriced ==
  \A m \in Team, q \in Question :
    Answered(m, q) =>
      (answers[m][q] = ASSISTED_QUESTION_POINTS <=> <<m, q>> \in hints)

\* The queue holds the credit and the finding of every accepted answer and of
\* no other (answer, enqueue).
DeliveryPerAnswer ==
  \A m \in Team, q \in Question :
    /\ Answered(m, q) <=> PointEvent(m, q) \in DOMAIN outbox
    /\ Answered(m, q) <=> FindingEvent(m, q) \in DOMAIN outbox

\* A ticket some team may claim has its IRIS task queued or created, so a claim
\* refused with "still being prepared" can succeed later; an active ticket has it.
NoStrandedTicket ==
  \A m \in Team, t \in Ticket :
    /\ Open(m, t) => TicketEvent(t) \in DOMAIN outbox
    /\ status[m][t] = "active" => t \in irisTask
    /\ TicketEvent(t) \in delivered <=> t \in irisTask

\* While the exercise runs the clock of every registered team runs, of those
\* registered before, during or between two pauses alike (mode, register_team).
ClocksRun == mode = "running" => started = {m \in Team : Registered(m)}

\* The ending is published for exactly the teams that completed every ticket,
\* audit marker and queued event together (_ensure_final_assessment).
EndingExactlyOnce ==
  \A m \in Team :
    /\ m \in assessed <=> Completed(m) = Ticket
    /\ m \in assessed <=> AssessmentEvent(m) \in DOMAIN outbox

\* A fenced site and a site under an export barrier are paused and drained, for
\* as long as that lasts: both are checked only at the entry (fence,
\* export_barrier), and unfence and cancel_export run in any order after it.
QuiescentSite ==
  fenced \/ exportToken # None => mode = "paused" /\ Drained

\* Two rows that a worker may lease are never of the same chain: previous
\* finds one row, and the rows of a chain form a line (enqueue).
OneEligiblePerChain ==
  \A e, f \in DOMAIN outbox :
    Eligible(e) /\ Eligible(f) /\ SameChain(e, f) => e = f

\* Some row of every chain with work left can be delivered now, unless the chain only
\* waits for its ticket's task, which can: no row waits for itself, in a circle, for a
\* task nobody queued or for another ticket (enqueue, sync_once; docs/resilience.md:42).
MayDeliver(e) == Eligible(e) /\ (NeedsTask(e) => e.ticket \in irisTask)
ChainsAdvance ==
  \A e \in DOMAIN outbox \ delivered : \E f \in DOMAIN outbox :
    MayDeliver(f) /\ (SameChain(f, e) \/ f = TicketEvent(e.ticket))

\* A team's findings reach IRIS after the credit they belong to reached CTFd,
\* and its ending after every finding of the capstone (delivery_dependencies).
AssessmentLast ==
  \A m \in Team, q \in Question :
    /\ FindingEvent(m, q) \in delivered => PointEvent(m, q) \in delivered
    /\ AssessmentEvent(m) \in delivered /\ TicketOf[q] = Capstone
         => FindingEvent(m, q) \in delivered

\* While the site is fenced or exporting no step changes the records of the
\* exercise, deliveries included: an export or a recovery set taken then is
\* the record that stays (mutable, sync_once).
FrozenWhileGuarded ==
  [][fenced \/ exportToken # None =>
       UNCHANGED <<provisioned, mode, teamVars, laneVars, workVars, deliveryVars>>]_vars

\* No step takes accepted work back: an answer keeps its value, a closed ticket
\* stays closed, a queued event keeps its place and a delivered one its mark.
AcceptedWorkKept ==
  [][/\ \A m \in Team, q \in Question : Answered(m, q) => answers'[m][q] = answers[m][q]
     /\ \A m \in Team : Completed(m) \subseteq Completed(m)'
     /\ \A e \in DOMAIN outbox : e \in DOMAIN outbox' /\ outbox'[e] = outbox[e]
     /\ delivered \subseteq delivered']_vars

\* Every queued event of a provisioned run is delivered in the end, whatever
\* operators and participants do meanwhile (sync_once, service.sync).
AcceptedWorkDelivered ==
  \A e \in Event : (provisioned /\ e \in DOMAIN outbox) ~> (e \in delivered)

-----------------------------------------------------------------------------
(* What docs/resilience.md says of the same code. *)

\* "follow-ups depend on prerequisite closure delivery": a follow-up ticket is
\* delivered after the deliveries of some team that closed its requirements.
FollowUpAfterClosure ==
  \A t \in Ticket : TicketEvent(t) \in delivered =>
    \/ Requires[t] = {}
    \/ \E m \in Team : \A q \in Question :
         TicketOf[q] \in Requires[t] => FindingEvent(m, q) \in delivered

=============================================================================
