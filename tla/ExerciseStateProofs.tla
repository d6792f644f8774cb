------------------------ MODULE ExerciseStateProofs ------------------------
(* Theorems about the progress store, for every roster and every content. *)
EXTENDS ExerciseState, FiniteSetTheorems, WellFoundedInduction, TLAPS

-----------------------------------------------------------------------------
(* The outbox. *)

\* Every constructor yields an event, for the teams and questions it is given.
LEMMA EventTypes ==
  /\ \A t \in Ticket : TicketEvent(t) \in Event
  /\ \A m \in Team : AssessmentEvent(m) \in Event
  /\ \A m \in Team, q \in Question : PointEvent(m, q) \in Event /\ FindingEvent(m, q) \in Event
  BY DEF Event

\* Queueing keeps what is there and adds the given events.
LEMMA EnqueueAllDomain ==
  ASSUME NEW box, NEW events
  PROVE  /\ DOMAIN EnqueueAll(box, events) = DOMAIN box \cup events
         /\ \A e \in DOMAIN box : EnqueueAll(box, events)[e] = box[e]
  BY DEF EnqueueAll

\* The outbox stays well typed when events are queued.
LEMMA EnqueueAllType ==
  ASSUME NEW box, NEW events,
         DOMAIN box \subseteq Event, box \in [DOMAIN box -> SUBSET Event], events \subseteq Event
  PROVE  /\ DOMAIN EnqueueAll(box, events) \subseteq Event
         /\ EnqueueAll(box, events) \in [DOMAIN EnqueueAll(box, events) -> SUBSET Event]
<1>1. DOMAIN EnqueueAll(box, events) = DOMAIN box \cup events
  BY EnqueueAllDomain
<1>2. \A e : Previous(box, e) \subseteq Event
  BY DEF Previous
<1>3. EnqueueAll(box, events) \in [DOMAIN box \cup events -> SUBSET Event]
  BY <1>2 DEF EnqueueAll
<1> QED BY <1>1, <1>3

-----------------------------------------------------------------------------
(* Type correctness. *)

\* The rows of a team after a closure are statuses.
LEMMA CloseTicketType ==
  ASSUME TypeOK, NEW m \in Team, NEW t \in Ticket
  PROVE  CloseTicket(m, t) \in [Ticket -> Status]
  BY DEF CloseTicket, TypeOK, Status

LEMMA InitTypeOK == Init => TypeOK
<1> SUFFICES ASSUME Init PROVE TypeOK
  OBVIOUS
<1>1. status \in [Team -> [Ticket -> Status]]
  BY DEF Init, FreshRows, Status
<1>2. outbox \in [DOMAIN outbox -> SUBSET Event] /\ DOMAIN outbox \subseteq Event
  BY EventTypes DEF Init
<1>3. answers \in [Team -> [Question -> {0, ASSISTED_QUESTION_POINTS, FULL_QUESTION_POINTS}]]
  BY DEF Init
<1> QED BY <1>1, <1>2, <1>3 DEF Init, TypeOK

LEMMA OperatorTypeOK == TypeOK /\ Operator => TypeOK'
<1> SUFFICES ASSUME TypeOK, Operator PROVE TypeOK'
  OBVIOUS
<1> USE DEF TypeOK, controlVars, teamVars, laneVars, workVars, deliveryVars
<1>1. ASSUME NEW m \in Team, NEW id \in Identity, RegisterTeam(m, id) PROVE TypeOK'
  <2>1. FreshRows \in [Ticket -> Status]
    BY DEF FreshRows, Status
  <2> QED BY <1>1, <2>1 DEF RegisterTeam
<1>2. CASE Provision
  BY <1>2 DEF Provision
<1>3. ASSUME NEW value \in {"running", "paused"}, SetMode(value) PROVE TypeOK'
  BY <1>3 DEF SetMode, StartClocks
<1>4. CASE Fence
  BY <1>4 DEF Fence
<1>5. CASE Unfence
  BY <1>5 DEF Unfence
<1>6. ASSUME NEW g \in 1..MaxSite, ActivateGeneration(g) PROVE TypeOK'
  BY <1>6, BoundAssumption DEF ActivateGeneration
<1>7. ASSUME NEW k \in Token, BeginExport(k) PROVE TypeOK'
  BY <1>7 DEF BeginExport
<1>8. ASSUME NEW k \in Token, EndExport(k) PROVE TypeOK'
  BY <1>8 DEF EndExport
<1>9. ASSUME NEW m \in Team, NEW t \in Ticket, NEW g \in 0..MaxGeneration, NEW r \in BOOLEAN,
             Release(m, t, g, r)
      PROVE  TypeOK'
  BY <1>9, BoundAssumption DEF Release, Status
<1> QED
  BY <1>1, <1>2, <1>3, <1>4, <1>5, <1>6, <1>7, <1>8, <1>9 DEF Operator

LEMMA ParticipantTypeOK == TypeOK /\ Participant => TypeOK'
<1> SUFFICES ASSUME TypeOK, Participant PROVE TypeOK'
  OBVIOUS
<1> USE DEF controlVars, teamVars, laneVars, workVars, deliveryVars
<1>1. ASSUME NEW m \in Team, NEW t \in Ticket, NEW g \in 0..MaxGeneration, Claim(m, t, g)
      PROVE  TypeOK'
  BY <1>1, BoundAssumption DEF Claim, TypeOK, Status
<1>2. ASSUME NEW m \in Team, NEW t \in Ticket, NEW g \in 0..MaxGeneration,
             Release(m, t, g, FALSE)
      PROVE  TypeOK'
  BY <1>2, BoundAssumption DEF Release, TypeOK, Status
<1>3. ASSUME NEW m \in Team, NEW q \in Question, UnlockHint(m, q) PROVE TypeOK'
  BY <1>3 DEF UnlockHint, TypeOK
<1>4. ASSUME NEW m \in Team, NEW q \in Question, Answer(m, q) PROVE TypeOK'
  <2> DEFINE rows   == IF Closes(m, q) THEN CloseTicket(m, TicketOf[q]) ELSE status[m]
             queued == Enqueue(Enqueue(outbox, PointEvent(m, q)), FindingEvent(m, q))
             opened == EnqueueAll(queued, LeadEvents(m, rows))
  <2>1. rows \in [Ticket -> Status]
    BY CloseTicketType, ContentAssumption DEF TypeOK
  <2>2. DOMAIN queued \subseteq Event /\ queued \in [DOMAIN queued -> SUBSET Event]
    BY EventTypes, EnqueueAllType DEF Enqueue, TypeOK
  <2>3. LeadEvents(m, rows) \subseteq Event
    BY EventTypes DEF LeadEvents
  <2>4. DOMAIN opened \subseteq Event /\ opened \in [DOMAIN opened -> SUBSET Event]
    BY <2>2, <2>3, EnqueueAllType
  <2>5. DOMAIN outbox' \subseteq Event /\ outbox' \in [DOMAIN outbox' -> SUBSET Event]
    <3>1. \/ outbox' = opened
          \/ outbox' = Enqueue(opened, AssessmentEvent(m))
      BY <1>4 DEF Answer
    <3> DEFINE ended == EnqueueAll(opened, {AssessmentEvent(m)})
    <3>2. {AssessmentEvent(m)} \subseteq Event
      BY EventTypes
    <3>3. DOMAIN ended \subseteq Event /\ ended \in [DOMAIN ended -> SUBSET Event]
      <4> HIDE DEF opened
      <4> QED BY <3>2, <2>4, EnqueueAllType
    <3>4. outbox' = opened \/ outbox' = ended
      BY <3>1 DEF Enqueue
    <3> HIDE DEF opened, ended
    <3> QED BY <3>3, <3>4, <2>4
  <2>6. status' = [status EXCEPT ![m] = rows]
    BY <1>4 DEF Answer
  <2>7. status' \in [Team -> [Ticket -> Status]]
    BY <2>1, <2>6 DEF TypeOK
  <2>8. answers' \in [Team -> [Question -> {0, ASSISTED_QUESTION_POINTS, FULL_QUESTION_POINTS}]]
    BY <1>4 DEF Answer, TypeOK
  <2>9. assessed' \subseteq Team
    BY <1>4 DEF Answer, TypeOK
  <2> QED BY <1>4, <2>5, <2>7, <2>8, <2>9 DEF Answer, TypeOK
<1> QED
  BY <1>1, <1>2, <1>3, <1>4 DEF Participant

LEMMA NextTypeOK == TypeOK /\ [Next]_vars => TypeOK'
<1> SUFFICES ASSUME TypeOK, [Next]_vars PROVE TypeOK'
  OBVIOUS
<1>1. ASSUME NEW e \in Event, SyncOnce(e) PROVE TypeOK'
  <2>1. e.kind = "ticket" => e.ticket \in Ticket
    BY DEF Event, TicketEvent, AssessmentEvent, PointEvent, FindingEvent
  <2> QED
    BY <1>1, <2>1 DEF SyncOnce, TypeOK, controlVars, teamVars, laneVars, workVars
<1>2. CASE UNCHANGED vars
  BY <1>2 DEF vars, TypeOK, controlVars, teamVars, laneVars, workVars, deliveryVars
<1> QED
  BY <1>1, <1>2, OperatorTypeOK, ParticipantTypeOK DEF Next

\* Every reachable state of the progress store is well typed.
THEOREM TypeCorrect == Spec => []TypeOK
<1>1. Init => TypeOK
  BY InitTypeOK
<1>2. TypeOK /\ [Next]_vars => TypeOK'
  BY NextTypeOK
<1> QED BY <1>1, <1>2, PTL DEF Spec

-----------------------------------------------------------------------------
(* The fence and the export barrier.  QuiescentSite is inductive as it      *)
(* stands: every transaction but fence, unfence, the activation, the export *)
(* and the delivery passes mutable, and a delivery needs a row that is left. *)

\* Participants never touch the control row or the roster.
LEMMA ParticipantFrame == Participant => Mutable /\ UNCHANGED <<controlVars, teamVars>>
<1> SUFFICES ASSUME Participant PROVE Mutable /\ UNCHANGED <<controlVars, teamVars>>
  OBVIOUS
<1>1. ASSUME NEW m \in Team, NEW t \in Ticket, NEW g \in 0..MaxGeneration,
             Claim(m, t, g) \/ Release(m, t, g, FALSE)
      PROVE  Mutable /\ UNCHANGED <<controlVars, teamVars>>
  BY <1>1 DEF Claim, Release, Running
<1>2. ASSUME NEW m \in Team, NEW q \in Question, UnlockHint(m, q)
      PROVE  Mutable /\ UNCHANGED <<controlVars, teamVars>>
  BY <1>2 DEF UnlockHint, Running
<1>3. ASSUME NEW m \in Team, NEW q \in Question, Answer(m, q)
      PROVE  Mutable /\ UNCHANGED <<controlVars, teamVars>>
  BY <1>3 DEF Answer, Running
<1> QED BY <1>1, <1>2, <1>3 DEF Participant

\* A guarded site takes no step that mutable guards.
LEMMA GuardedStep ==
  ASSUME QuiescentSite, fenced \/ exportToken # None, Next
  PROVE  UNCHANGED <<provisioned, mode, teamVars, laneVars, workVars, deliveryVars>>
<1>1. ~Mutable
  BY DEF Mutable
<1>2. \A e \in Event : ~SyncOnce(e)
  BY DEF QuiescentSite, Drained, SyncOnce, Eligible
<1>3. ~Participant
  BY <1>1, ParticipantFrame
<1>4. CASE Operator
  BY <1>1, <1>4 DEF Operator, RegisterTeam, Provision, SetMode, Fence, Unfence,
     ActivateGeneration, BeginExport, EndExport, Release, teamVars, laneVars, workVars, deliveryVars
<1> QED BY <1>2, <1>3, <1>4 DEF Next

LEMMA QuiescentStep == QuiescentSite /\ [Next]_vars => QuiescentSite'
<1> SUFFICES ASSUME QuiescentSite, [Next]_vars PROVE QuiescentSite'
  OBVIOUS
<1>1. CASE UNCHANGED vars
  BY <1>1 DEF vars, controlVars, deliveryVars, QuiescentSite, Drained
<1>2. CASE Next /\ (fenced \/ exportToken # None)
  <2>1. mode = "paused" /\ Drained
    BY <1>2 DEF QuiescentSite
  <2>2. mode' = mode /\ Drained' = Drained
    BY <1>2, GuardedStep DEF deliveryVars, Drained
  <2> QED BY <2>1, <2>2 DEF QuiescentSite
<1>3. CASE Next /\ ~fenced /\ exportToken = None
  <2> SUFFICES ASSUME fenced' \/ exportToken' # None
               PROVE  (mode = "paused" /\ Drained)'
    BY DEF QuiescentSite
  <2>1. ~\E e \in Event : SyncOnce(e)
    BY <1>3 DEF SyncOnce, controlVars
  <2>2. ~Participant
    BY <1>3, ParticipantFrame DEF controlVars
  <2>3. Fence \/ \E k \in Token : BeginExport(k)
    BY <1>3, <2>1, <2>2 DEF Next, Operator, RegisterTeam, Provision, SetMode, Unfence,
       ActivateGeneration, Release, EndExport, controlVars
  <2> QED
    BY <2>3, <1>3 DEF Fence, BeginExport, EndExport, deliveryVars, Drained
<1> QED BY <1>1, <1>2, <1>3

\* A fenced or exporting site is paused and drained, whatever the order in which
\* fences, exports, their cancellation and late requests arrive.
THEOREM Quiescence == Spec => []QuiescentSite
<1>1. Init => QuiescentSite
  BY DEF Init, QuiescentSite
<1> QED BY <1>1, QuiescentStep, PTL DEF Spec

\* No step changes the records of a fenced or exporting site.
THEOREM GuardedRecordsFrozen == Spec => FrozenWhileGuarded
<1>1. QuiescentSite /\ [Next]_vars =>
        [fenced \/ exportToken # None =>
           UNCHANGED <<provisioned, mode, teamVars, laneVars, workVars, deliveryVars>>]_vars
  BY GuardedStep
<1> QED BY <1>1, Quiescence, PTL DEF Spec, FrozenWhileGuarded

-----------------------------------------------------------------------------
(* The five operations that touch the exercise's records; every other step  *)
(* leaves the roster, the lanes, the work and the queue as they are.        *)

LEMMA RecordSteps ==
  ASSUME [Next]_vars
  PROVE  \/ \E m \in Team, id \in Identity : RegisterTeam(m, id)
         \/ \E m \in Team, t \in Ticket, g \in 0..MaxGeneration, r \in BOOLEAN : Release(m, t, g, r)
         \/ \E m \in Team, t \in Ticket, g \in 0..MaxGeneration : Claim(m, t, g)
         \/ \E m \in Team, q \in Question : UnlockHint(m, q)
         \/ \E m \in Team, q \in Question : Answer(m, q)
         \/ UNCHANGED <<mapping, laneVars, workVars, outbox>>
<1>1. CASE UNCHANGED vars
  BY <1>1 DEF vars, teamVars, deliveryVars
<1>2. CASE Operator
  BY <1>2 DEF Operator, Provision, SetMode, Fence, Unfence, ActivateGeneration,
     BeginExport, EndExport, teamVars, deliveryVars
<1>3. CASE Participant
  BY <1>3 DEF Participant
<1>4. CASE \E e \in Event : SyncOnce(e)
  BY <1>4 DEF SyncOnce, teamVars
<1> QED BY <1>1, <1>2, <1>3, <1>4 DEF Next

\* What an answer does to the statuses of its team: only its own ticket closes,
\* and only locked tickets change besides.
LEMMA AnswerRows ==
  ASSUME TypeOK, NEW m \in Team, NEW q \in Question, Answer(m, q)
  PROVE  /\ \A n \in Team, t \in Ticket : n # m => status'[n][t] = status[n][t]
         /\ ~Closes(m, q) => status' = status
         /\ Closes(m, q) =>
              /\ status'[m][TicketOf[q]] = "complete"
              /\ \A t \in Ticket \ {TicketOf[q]} :
                   \/ status'[m][t] = status[m][t]
                   \/ status[m][t] = "locked" /\ status'[m][t] = "available"
  BY ContentAssumption DEF Answer, CloseTicket, TypeOK

-----------------------------------------------------------------------------
(* A team that is not registered has no rows. *)

Unregistered == \A m \in Team, t \in Ticket : ~Registered(m) => status[m][t] = "absent"

LEMMA UnregisteredStep == TypeOK /\ Unregistered /\ [Next]_vars => Unregistered'
<1> SUFFICES ASSUME TypeOK, Unregistered, [Next]_vars, NEW n \in Team, NEW u \in Ticket,
                    ~Registered(n)'
             PROVE  status'[n][u] = "absent"
  BY DEF Unregistered
<1> USE DEF Unregistered, Registered
<1>1. ASSUME NEW m \in Team, NEW id \in Identity, RegisterTeam(m, id)
      PROVE  status'[n][u] = "absent"
  BY <1>1, NoneAssumption DEF RegisterTeam, Identity, TypeOK
<1>2. ASSUME NEW m \in Team, NEW t \in Ticket, NEW g \in 0..MaxGeneration, NEW r \in BOOLEAN,
             Release(m, t, g, r)
      PROVE  status'[n][u] = "absent"
  BY <1>2 DEF Release, teamVars, TypeOK
<1>3. ASSUME NEW m \in Team, NEW t \in Ticket, NEW g \in 0..MaxGeneration, Claim(m, t, g)
      PROVE  status'[n][u] = "absent"
  BY <1>3 DEF Claim, teamVars, TypeOK
<1>4. ASSUME NEW m \in Team, NEW q \in Question, UnlockHint(m, q)
      PROVE  status'[n][u] = "absent"
  BY <1>4 DEF UnlockHint, teamVars, laneVars
<1>5. ASSUME NEW m \in Team, NEW q \in Question, Answer(m, q)
      PROVE  status'[n][u] = "absent"
  <2>1. UNCHANGED mapping /\ Open(m, TicketOf[q])
    BY <1>5 DEF Answer, Answerable, teamVars
  <2>2. status[n][u] = "absent" /\ n # m
    BY <2>1, ContentAssumption DEF Open
  <2> QED BY <1>5, <2>2, AnswerRows
<1>6. CASE UNCHANGED <<mapping, laneVars, workVars, outbox>>
  BY <1>6 DEF laneVars
<1> QED BY <1>1, <1>2, <1>3, <1>4, <1>5, <1>6, RecordSteps

-----------------------------------------------------------------------------
(* The ledger of claims and releases. *)

LEMMA LedgerStep == TypeOK /\ Unregistered /\ OwnershipLedger /\ [Next]_vars => OwnershipLedger'
<1> SUFFICES ASSUME TypeOK, Unregistered, [Next]_vars, NEW n \in Team, NEW u \in Ticket,
                    Ledger(n, u)
             PROVE  Ledger(n, u)'
  BY DEF OwnershipLedger
<1>0. ASSUME UNCHANGED <<status[n][u], generation[n][u], claimForms[n][u], releaseForms[n][u]>>
      PROVE  Ledger(n, u)'
  BY <1>0 DEF Ledger
<1>1. ASSUME NEW m \in Team, NEW id \in Identity, RegisterTeam(m, id) PROVE Ledger(n, u)'
  <2>1. UNCHANGED <<generation, claimForms, releaseForms>>
    BY <1>1 DEF RegisterTeam
  <2>2. CASE n = m
    <3>1. status[n][u] = "absent" /\ status'[n][u] \in {"available", "locked"}
      BY <1>1, <2>2 DEF RegisterTeam, FreshRows, Unregistered, TypeOK
    <3> QED BY <2>1, <3>1 DEF Ledger
  <2>3. CASE n # m
    BY <1>0, <1>1, <2>1, <2>3 DEF RegisterTeam, TypeOK
  <2> QED BY <2>2, <2>3
<1>2. ASSUME NEW m \in Team, NEW t \in Ticket, NEW g \in 0..MaxGeneration, NEW r \in BOOLEAN,
             Release(m, t, g, r)
      PROVE  Ledger(n, u)'
  <2>1. CASE n = m /\ u = t
    <3>1. /\ status[n][u] = "active" /\ status'[n][u] = "available"
          /\ generation'[n][u] = generation[n][u] /\ claimForms'[n][u] = claimForms[n][u]
          /\ releaseForms'[n][u] = releaseForms[n][u] \cup {generation[n][u]}
          /\ generation[n][u] \in Nat
      BY <1>2, <2>1 DEF Release, Current, TypeOK
    <3> QED BY <3>1 DEF Ledger
  <2>2. CASE n # m \/ u # t
    BY <1>0, <1>2, <2>2 DEF Release, TypeOK
  <2> QED BY <2>1, <2>2
<1>3. ASSUME NEW m \in Team, NEW t \in Ticket, NEW g \in 0..MaxGeneration, Claim(m, t, g)
      PROVE  Ledger(n, u)'
  <2>1. CASE n = m /\ u = t
    <3>1. /\ status[n][u] = "available" /\ status'[n][u] = "active"
          /\ generation'[n][u] = generation[n][u] + 1
          /\ claimForms'[n][u] = claimForms[n][u] \cup {generation[n][u]}
          /\ releaseForms'[n][u] = releaseForms[n][u]
          /\ generation[n][u] \in Nat
      BY <1>3, <2>1 DEF Claim, Current, TypeOK
    <3> QED BY <3>1 DEF Ledger
  <2>2. CASE n # m \/ u # t
    BY <1>0, <1>3, <2>2 DEF Claim, TypeOK
  <2> QED BY <2>1, <2>2
<1>4. ASSUME NEW m \in Team, NEW q \in Question, UnlockHint(m, q) PROVE Ledger(n, u)'
  BY <1>0, <1>4 DEF UnlockHint, laneVars
<1>5. ASSUME NEW m \in Team, NEW q \in Question, Answer(m, q) PROVE Ledger(n, u)'
  <2>1. UNCHANGED <<generation, claimForms, releaseForms>> /\ Open(m, TicketOf[q])
    BY <1>5 DEF Answer, Answerable
  <2>2. \/ status'[n][u] = status[n][u]
        \/ status[n][u] \in {"available", "active"} /\ status'[n][u] = "complete"
        \/ status[n][u] = "locked" /\ status'[n][u] = "available"
    BY <1>5, <2>1, AnswerRows DEF Open
  <2> QED BY <2>1, <2>2 DEF Ledger
<1>6. CASE UNCHANGED <<mapping, laneVars, workVars, outbox>>
  BY <1>0, <1>6 DEF laneVars
<1> QED BY <1>1, <1>2, <1>3, <1>4, <1>5, <1>6, RecordSteps

-----------------------------------------------------------------------------
(* Answers, their price and the tickets they close. *)

\* An answer enters one value and no other, where there was none.
LEMMA AnswerWork ==
  ASSUME TypeOK, NEW m \in Team, NEW q \in Question, Answer(m, q)
  PROVE  /\ ~Answered(m, q)
         /\ answers'[m][q] = IF <<m, q>> \in hints THEN ASSISTED_QUESTION_POINTS
                             ELSE FULL_QUESTION_POINTS
         /\ answers'[m][q] # 0
         /\ \A n \in Team, p \in Question :
              n # m \/ p # q => answers'[n][p] = answers[n][p]
         /\ hints' = hints
  BY DEF Answer, Answerable, Answered, TypeOK, ASSISTED_QUESTION_POINTS, FULL_QUESTION_POINTS

LEMMA PriceStep == TypeOK /\ PaidHelpPriced /\ [Next]_vars => PaidHelpPriced'
<1> SUFFICES ASSUME TypeOK, PaidHelpPriced, [Next]_vars, NEW n \in Team, NEW p \in Question,
                    Answered(n, p)'
             PROVE  answers'[n][p] = ASSISTED_QUESTION_POINTS <=> <<n, p>> \in hints'
  BY DEF PaidHelpPriced
<1> USE DEF PaidHelpPriced, Answered
<1>1. ASSUME UNCHANGED <<hints, answers>>
      PROVE  answers'[n][p] = ASSISTED_QUESTION_POINTS <=> <<n, p>> \in hints'
  BY <1>1
<1>2. ASSUME NEW m \in Team, NEW q \in Question, UnlockHint(m, q)
      PROVE  answers'[n][p] = ASSISTED_QUESTION_POINTS <=> <<n, p>> \in hints'
  <2>1. hints' = hints \cup {<<m, q>>} /\ answers' = answers /\ answers[m][q] = 0
    BY <1>2 DEF UnlockHint, Answerable
  <2> QED BY <2>1
<1>3. ASSUME NEW m \in Team, NEW q \in Question, Answer(m, q)
      PROVE  answers'[n][p] = ASSISTED_QUESTION_POINTS <=> <<n, p>> \in hints'
  <2>1. CASE n = m /\ p = q
    <3>1. /\ hints' = hints
          /\ answers'[n][p] = IF <<n, p>> \in hints THEN ASSISTED_QUESTION_POINTS
                              ELSE FULL_QUESTION_POINTS
      BY <1>3, <2>1, AnswerWork
    <3> QED BY <3>1 DEF ASSISTED_QUESTION_POINTS, FULL_QUESTION_POINTS
  <2>2. CASE n # m \/ p # q
    <3>1. hints' = hints
      BY <1>3, AnswerWork
    <3>2. \A k \in Team, x \in Question : k # m \/ x # q => answers'[k][x] = answers[k][x]
      BY <1>3, AnswerWork
    <3> QED BY <2>2, <3>1, <3>2
  <2> QED BY <2>1, <2>2
<1> QED
  BY <1>1, <1>2, <1>3, RecordSteps DEF RegisterTeam, Release, Claim, workVars

LEMMA CompletionStep ==
  TypeOK /\ Unregistered /\ CompleteIffAnswered /\ [Next]_vars => CompleteIffAnswered'
<1> DEFINE Closed(n, u) == (status[n][u] = "complete") <=> \A q \in QuestionsOf(u) : Answered(n, q)
<1> SUFFICES ASSUME TypeOK, Unregistered, [Next]_vars, NEW n \in Team, NEW u \in Ticket,
                    Closed(n, u)
             PROVE  Closed(n, u)'
  BY DEF CompleteIffAnswered
<1>0. ASSUME answers' = answers, status'[n][u] = "complete" <=> status[n][u] = "complete"
      PROVE  Closed(n, u)'
  BY <1>0 DEF Answered, QuestionsOf
<1>1. ASSUME NEW m \in Team, NEW id \in Identity, RegisterTeam(m, id) PROVE Closed(n, u)'
  BY <1>0, <1>1 DEF RegisterTeam, FreshRows, Unregistered, TypeOK, workVars
<1>2. ASSUME NEW m \in Team, NEW t \in Ticket, NEW g \in 0..MaxGeneration, NEW r \in BOOLEAN,
             Release(m, t, g, r)
      PROVE  Closed(n, u)'
  BY <1>0, <1>2 DEF Release, TypeOK, workVars
<1>3. ASSUME NEW m \in Team, NEW t \in Ticket, NEW g \in 0..MaxGeneration, Claim(m, t, g)
      PROVE  Closed(n, u)'
  BY <1>0, <1>3 DEF Claim, TypeOK, workVars
<1>4. ASSUME NEW m \in Team, NEW q \in Question, UnlockHint(m, q) PROVE Closed(n, u)'
  BY <1>0, <1>4 DEF UnlockHint, laneVars
<1>5. ASSUME NEW m \in Team, NEW q \in Question, Answer(m, q) PROVE Closed(n, u)'
  <2>1. Open(m, TicketOf[q])
    BY <1>5 DEF Answer, Answerable
  <2>4. answers'[m][q] # 0
    BY <1>5, AnswerWork
  <2>5. \A k \in Team, x \in Question : k # m \/ x # q => answers'[k][x] = answers[k][x]
    BY <1>5, AnswerWork
  <2>2. CASE n = m /\ u = TicketOf[q]
    <3>1. status[n][u] # "complete"
      BY <2>1, <2>2 DEF Open
    <3>2. Closes(m, q) <=> \A p \in QuestionsOf(u) : answers'[n][p] # 0
      BY <2>2, <2>4, <2>5 DEF Closes, QuestionsOf
    <3>3. status'[n][u] = "complete" <=> Closes(m, q)
      BY <1>5, <2>2, <3>1, AnswerRows
    <3> QED BY <3>2, <3>3 DEF Answered, QuestionsOf
  <2>3. CASE n # m \/ u # TicketOf[q]
    <3>1. status'[n][u] = "complete" <=> status[n][u] = "complete"
      BY <1>5, <2>3, AnswerRows
    <3>2. \A p \in QuestionsOf(u) : answers'[n][p] = answers[n][p]
      BY <2>3, <2>5 DEF QuestionsOf
    <3> QED BY <3>1, <3>2 DEF Answered, QuestionsOf
  <2> QED BY <2>2, <2>3
<1>6. CASE UNCHANGED <<mapping, laneVars, workVars, outbox>>
  BY <1>0, <1>6 DEF laneVars, workVars
<1> QED BY <1>1, <1>2, <1>3, <1>4, <1>5, <1>6, RecordSteps

-----------------------------------------------------------------------------
(* Prerequisites. *)

\* A closure opens exactly the locked tickets whose requirements are now met.
LEMMA ClosureOpens ==
  ASSUME TypeOK, NEW m \in Team, NEW q \in Question, Answer(m, q), Closes(m, q)
  PROVE  /\ Completed(m)' = Completed(m) \cup {TicketOf[q]}
         /\ \A t \in Ticket \ {TicketOf[q]} :
              status'[m][t] = IF status[m][t] = "locked" /\ Requires[t] \subseteq Completed(m)'
                              THEN "available" ELSE status[m][t]
<1>1. status'[m] = CloseTicket(m, TicketOf[q])
  BY DEF Answer, TypeOK
<1>2. TicketOf[q] \in Ticket
  BY ContentAssumption
<1>3. Completed(m)' = Completed(m) \cup {TicketOf[q]}
  BY <1>1, <1>2 DEF CloseTicket, Completed
<1>4. \A t \in Ticket \ {TicketOf[q]} :
        status'[m][t] = IF status[m][t] = "locked" /\ Requires[t] \subseteq Completed(m)'
                        THEN "available" ELSE status[m][t]
  BY <1>1, <1>3 DEF CloseTicket, Completed
<1> QED BY <1>3, <1>4

LEMMA PrerequisitesStep == TypeOK /\ PrerequisitesGate /\ [Next]_vars => PrerequisitesGate'
<1> DEFINE Gate(n, u) ==
             Registered(n) => (status[n][u] = "locked" <=> ~(Requires[u] \subseteq Completed(n)))
<1>0. PrerequisitesGate <=> Unregistered /\ \A n \in Team, u \in Ticket : Gate(n, u)
  BY DEF PrerequisitesGate, Unregistered
<1>00. PrerequisitesGate' <=> Unregistered' /\ \A n \in Team, u \in Ticket : Gate(n, u)'
  BY DEF PrerequisitesGate, Unregistered
<1> SUFFICES ASSUME TypeOK, Unregistered, [Next]_vars, NEW n \in Team, NEW u \in Ticket,
                    Gate(n, u)
             PROVE  Gate(n, u)'
  BY <1>0, <1>00, UnregisteredStep
<1>9. ASSUME UNCHANGED mapping,
             \A t \in Ticket : /\ status'[n][t] = "complete" <=> status[n][t] = "complete"
                               /\ status'[n][t] = "locked" <=> status[n][t] = "locked"
      PROVE  Gate(n, u)'
  BY <1>9 DEF Registered, Completed
<1>1. ASSUME NEW m \in Team, NEW id \in Identity, RegisterTeam(m, id) PROVE Gate(n, u)'
  <2>1. CASE n = m
    <3>1. status'[n] = FreshRows
      BY <1>1, <2>1 DEF RegisterTeam, TypeOK
    <3>2. Completed(n)' = {}
      BY <3>1 DEF Completed, FreshRows
    <3>3. status'[n][u] = "locked" <=> Requires[u] # {}
      BY <3>1 DEF FreshRows
    <3> QED BY <3>2, <3>3
  <2>2. CASE n # m
    <3>1. status'[n] = status[n] /\ mapping'[n] = mapping[n]
      BY <1>1, <2>2 DEF RegisterTeam, TypeOK
    <3> QED BY <3>1 DEF Registered, Completed
  <2> QED BY <2>1, <2>2
<1>2. ASSUME NEW m \in Team, NEW t \in Ticket, NEW g \in 0..MaxGeneration, NEW r \in BOOLEAN,
             Release(m, t, g, r)
      PROVE  Gate(n, u)'
  <2>1. UNCHANGED mapping
    BY <1>2 DEF Release, teamVars
  <2> QED BY <1>2, <1>9, <2>1 DEF Release, TypeOK
<1>3. ASSUME NEW m \in Team, NEW t \in Ticket, NEW g \in 0..MaxGeneration, Claim(m, t, g)
      PROVE  Gate(n, u)'
  <2>1. UNCHANGED mapping
    BY <1>3 DEF Claim, teamVars
  <2> QED BY <1>3, <1>9, <2>1 DEF Claim, TypeOK
<1>4. ASSUME NEW m \in Team, NEW q \in Question, UnlockHint(m, q) PROVE Gate(n, u)'
  BY <1>4, <1>9 DEF UnlockHint, laneVars, teamVars
<1>5. ASSUME NEW m \in Team, NEW q \in Question, Answer(m, q) PROVE Gate(n, u)'
  <2>1. UNCHANGED mapping /\ Open(m, TicketOf[q])
    BY <1>5 DEF Answer, Answerable, teamVars
  <2>2. CASE n # m \/ ~Closes(m, q)
    <3>1. \A t \in Ticket : status'[n][t] = status[n][t]
      BY <1>5, <2>2, AnswerRows
    <3> QED BY <1>9, <2>1, <3>1
  <2>3. CASE n = m /\ Closes(m, q) /\ u = TicketOf[q]
    <3>1. status'[n][u] = "complete" /\ status[n][u] # "locked"
      BY <1>5, <2>1, <2>3, AnswerRows DEF Open
    <3>2. Registered(n)' => Requires[u] \subseteq Completed(n)
      BY <2>1, <3>1 DEF Registered
    <3>3. Completed(n) \subseteq Completed(n)'
      BY <1>5, <2>3, ClosureOpens
    <3> QED BY <3>1, <3>2, <3>3
  <2>4. CASE n = m /\ Closes(m, q) /\ u # TicketOf[q]
    <3>1. status'[n][u] = IF status[n][u] = "locked" /\ Requires[u] \subseteq Completed(n)'
                          THEN "available" ELSE status[n][u]
      BY <1>5, <2>4, ClosureOpens
    <3>2. Completed(n) \subseteq Completed(n)'
      BY <1>5, <2>4, ClosureOpens
    <3> QED BY <2>1, <3>1, <3>2 DEF Registered
  <2> QED BY <2>2, <2>3, <2>4
<1>6. CASE UNCHANGED <<mapping, laneVars, workVars, outbox>>
  BY <1>6, <1>9 DEF laneVars
<1> QED BY <1>1, <1>2, <1>3, <1>4, <1>5, <1>6, RecordSteps

-----------------------------------------------------------------------------
(* The work lanes. *)

LEMMA LanesFinite ==
  \A m : IsFiniteSet(ActiveLanes(m)) /\ Cardinality(ActiveLanes(m)) \in Nat
  BY RosterAssumption, FS_Subset, FS_CardinalityType DEF ActiveLanes

\* Only a claim lengthens the list of a team's lanes, by one, and if one is free.
LEMMA LanesStep ==
  ASSUME TypeOK, Unregistered, [Next]_vars, NEW n \in Team
  PROVE  \/ ActiveLanes(n)' \subseteq ActiveLanes(n)
         \/ HasFreeLane(n) /\ \E t \in Ticket : ActiveLanes(n)' = ActiveLanes(n) \cup {t}
<1> DEFINE Goal == \/ ActiveLanes(n)' \subseteq ActiveLanes(n)
                   \/ HasFreeLane(n) /\ \E t \in Ticket :
                                          ActiveLanes(n)' = ActiveLanes(n) \cup {t}
<1>1. ASSUME NEW m \in Team, NEW id \in Identity, RegisterTeam(m, id) PROVE Goal
  BY <1>1 DEF RegisterTeam, FreshRows, ActiveLanes, TypeOK
<1>2. ASSUME NEW m \in Team, NEW t \in Ticket, NEW g \in 0..MaxGeneration, NEW r \in BOOLEAN,
             Release(m, t, g, r)
      PROVE  Goal
  BY <1>2 DEF Release, ActiveLanes, TypeOK
<1>3. ASSUME NEW m \in Team, NEW t \in Ticket, NEW g \in 0..MaxGeneration, Claim(m, t, g)
      PROVE  Goal
  <2>1. CASE n = m
    <3>1. ActiveLanes(n)' = ActiveLanes(n) \cup {t}
      BY <1>3, <2>1 DEF Claim, ActiveLanes, TypeOK
    <3> QED BY <1>3, <2>1, <3>1 DEF Claim
  <2>2. CASE n # m
    BY <1>3, <2>2 DEF Claim, ActiveLanes, TypeOK
  <2> QED BY <2>1, <2>2
<1>4. ASSUME NEW m \in Team, NEW q \in Question, UnlockHint(m, q) PROVE Goal
  BY <1>4 DEF UnlockHint, laneVars, ActiveLanes
<1>5. ASSUME NEW m \in Team, NEW q \in Question, Answer(m, q) PROVE Goal
  BY <1>5, AnswerRows DEF ActiveLanes
<1>6. CASE UNCHANGED <<mapping, laneVars, workVars, outbox>>
  BY <1>6 DEF laneVars, ActiveLanes
<1> QED BY <1>1, <1>2, <1>3, <1>4, <1>5, <1>6, RecordSteps

LEMMA LaneBoundStep == TypeOK /\ Unregistered /\ LaneBound /\ [Next]_vars => LaneBound'
<1> SUFFICES ASSUME TypeOK, Unregistered, LaneBound, [Next]_vars, NEW n \in Team
             PROVE  Cardinality(ActiveLanes(n)') <= LaneLimit
  BY DEF LaneBound, ActiveLanes
<1>1. Cardinality(ActiveLanes(n)) <= LaneLimit /\ LaneLimit \in Nat
  BY BoundAssumption DEF LaneBound
<1>2. CASE ActiveLanes(n)' \subseteq ActiveLanes(n)
  <2>1. /\ Cardinality(ActiveLanes(n)') <= Cardinality(ActiveLanes(n))
        /\ IsFiniteSet(ActiveLanes(n)')
    BY <1>2, LanesFinite, FS_Subset
  <2>2. Cardinality(ActiveLanes(n)') \in Nat
    BY <2>1, FS_CardinalityType
  <2> QED BY <1>1, <2>1, <2>2, LanesFinite
<1>3. ASSUME HasFreeLane(n), NEW t \in Ticket, ActiveLanes(n)' = ActiveLanes(n) \cup {t}
      PROVE  Cardinality(ActiveLanes(n)') <= LaneLimit
  <2>1. Cardinality(ActiveLanes(n)') \in {Cardinality(ActiveLanes(n)), Cardinality(ActiveLanes(n)) + 1}
    BY <1>3, LanesFinite, FS_AddElement
  <2> QED BY <1>1, <1>3, <2>1, LanesFinite DEF HasFreeLane
<1> QED BY <1>2, <1>3, LanesStep

-----------------------------------------------------------------------------
(* The queue. *)

\* What an answer queues.
LEMMA AnswerQueue ==
  ASSUME NEW m \in Team, NEW q \in Question, Answer(m, q)
  PROVE  LET rows == IF Closes(m, q) THEN CloseTicket(m, TicketOf[q]) ELSE status[m]
         IN  /\ DOMAIN outbox' = DOMAIN outbox
                  \cup {PointEvent(m, q), FindingEvent(m, q)} \cup LeadEvents(m, rows)
                  \cup (IF Closes(m, q) /\ EndingDue(m, rows) THEN {AssessmentEvent(m)} ELSE {})
             /\ \A e \in DOMAIN outbox : outbox'[e] = outbox[e]
<1> DEFINE rows   == IF Closes(m, q) THEN CloseTicket(m, TicketOf[q]) ELSE status[m]
           first  == EnqueueAll(outbox, {PointEvent(m, q)})
           second == EnqueueAll(first, {FindingEvent(m, q)})
           opened == EnqueueAll(second, LeadEvents(m, rows))
           ended  == EnqueueAll(opened, {AssessmentEvent(m)})
<1>1. outbox' = IF Closes(m, q) /\ EndingDue(m, rows) THEN ended ELSE opened
  BY DEF Answer, Enqueue
<1>2. DOMAIN first = DOMAIN outbox \cup {PointEvent(m, q)} /\ \A e \in DOMAIN outbox : first[e] = outbox[e]
  BY EnqueueAllDomain
<1>3. DOMAIN second = DOMAIN first \cup {FindingEvent(m, q)} /\ \A e \in DOMAIN first : second[e] = first[e]
  BY EnqueueAllDomain
<1>4. DOMAIN opened = DOMAIN second \cup LeadEvents(m, rows) /\ \A e \in DOMAIN second : opened[e] = second[e]
  BY EnqueueAllDomain
<1>5. DOMAIN ended = DOMAIN opened \cup {AssessmentEvent(m)} /\ \A e \in DOMAIN opened : ended[e] = opened[e]
  BY EnqueueAllDomain
<1> HIDE DEF first, second, opened, ended
<1> QED BY <1>1, <1>2, <1>3, <1>4, <1>5

\* Events of different kinds, teams or questions are different rows.
LEMMA EventsDiffer ==
  /\ \A m, n \in Team, p, q \in Question :
       /\ PointEvent(m, p) = PointEvent(n, q) <=> m = n /\ p = q
       /\ FindingEvent(m, p) = FindingEvent(n, q) <=> m = n /\ p = q
       /\ PointEvent(m, p) # FindingEvent(n, q)
  /\ \A m, n \in Team : AssessmentEvent(m) = AssessmentEvent(n) <=> m = n
  /\ \A t, u \in Ticket : TicketEvent(t) = TicketEvent(u) <=> t = u
  /\ \A m, n \in Team, q \in Question, t \in Ticket :
       /\ PointEvent(m, q) \notin {TicketEvent(t), AssessmentEvent(n)}
       /\ FindingEvent(m, q) \notin {TicketEvent(t), AssessmentEvent(n)}
       /\ TicketEvent(t) # AssessmentEvent(n)
<1> USE DEF PointEvent, FindingEvent, AssessmentEvent, TicketEvent
<1>1. \A m, n \in Team, p, q \in Question :
        /\ PointEvent(m, p) = PointEvent(n, q) <=> m = n /\ p = q
        /\ FindingEvent(m, p) = FindingEvent(n, q) <=> m = n /\ p = q
        /\ PointEvent(m, p) # FindingEvent(n, q)
  OBVIOUS
<1>2. \A m, n \in Team : AssessmentEvent(m) = AssessmentEvent(n) <=> m = n
  OBVIOUS
<1>3. \A t, u \in Ticket : TicketEvent(t) = TicketEvent(u) <=> t = u
  OBVIOUS
<1>4. \A m, n \in Team, q \in Question, t \in Ticket :
        /\ PointEvent(m, q) \notin {TicketEvent(t), AssessmentEvent(n)}
        /\ FindingEvent(m, q) \notin {TicketEvent(t), AssessmentEvent(n)}
        /\ TicketEvent(t) # AssessmentEvent(n)
  OBVIOUS
<1> QED BY <1>1, <1>2, <1>3, <1>4

\* The queue and the answers change together or not at all.
LEMMA QueueSteps ==
  ASSUME [Next]_vars
  PROVE  \/ UNCHANGED <<answers, assessed, outbox>>
         \/ \E m \in Team, q \in Question : Answer(m, q)
  BY RecordSteps DEF RegisterTeam, Release, Claim, UnlockHint, workVars, deliveryVars

LEMMA DeliveryPerAnswerStep ==
  TypeOK /\ DeliveryPerAnswer /\ [Next]_vars => DeliveryPerAnswer'
<1> SUFFICES ASSUME TypeOK, DeliveryPerAnswer, [Next]_vars, NEW n \in Team, NEW p \in Question
             PROVE  /\ Answered(n, p)' <=> PointEvent(n, p) \in DOMAIN outbox'
                    /\ Answered(n, p)' <=> FindingEvent(n, p) \in DOMAIN outbox'
  BY DEF DeliveryPerAnswer, PointEvent, FindingEvent
<1>1. /\ Answered(n, p) <=> PointEvent(n, p) \in DOMAIN outbox
      /\ Answered(n, p) <=> FindingEvent(n, p) \in DOMAIN outbox
  BY DEF DeliveryPerAnswer
<1>2. CASE UNCHANGED <<answers, assessed, outbox>>
  BY <1>1, <1>2 DEF Answered
<1>3. ASSUME NEW m \in Team, NEW q \in Question, Answer(m, q)
      PROVE  /\ Answered(n, p)' <=> PointEvent(n, p) \in DOMAIN outbox'
             /\ Answered(n, p)' <=> FindingEvent(n, p) \in DOMAIN outbox'
  <2> DEFINE rows == IF Closes(m, q) THEN CloseTicket(m, TicketOf[q]) ELSE status[m]
             more == LeadEvents(m, rows)
                       \cup (IF Closes(m, q) /\ EndingDue(m, rows) THEN {AssessmentEvent(m)} ELSE {})
  <2>1. DOMAIN outbox' = DOMAIN outbox \cup {PointEvent(m, q), FindingEvent(m, q)} \cup more
    BY <1>3, AnswerQueue
  <2>2. PointEvent(n, p) \notin more /\ FindingEvent(n, p) \notin more
    <3>1. PointEvent(n, p) \notin LeadEvents(m, rows) /\ FindingEvent(n, p) \notin LeadEvents(m, rows)
      <4> HIDE DEF rows
      <4> QED BY EventsDiffer DEF LeadEvents
    <3>2. PointEvent(n, p) # AssessmentEvent(m) /\ FindingEvent(n, p) # AssessmentEvent(m)
      BY EventsDiffer, ContentAssumption
    <3> QED BY <3>1, <3>2
  <2> HIDE DEF more
  <2>3. Answered(n, p)' <=> Answered(n, p) \/ (n = m /\ p = q)
    <3>1. answers'[m][q] # 0
      BY <1>3, AnswerWork
    <3>2. \A k \in Team, x \in Question : k # m \/ x # q => answers'[k][x] = answers[k][x]
      BY <1>3, AnswerWork
    <3> QED BY <3>1, <3>2 DEF Answered
  <2>4. PointEvent(n, p) \in DOMAIN outbox' <=> PointEvent(n, p) \in DOMAIN outbox \/ (n = m /\ p = q)
    BY <2>1, <2>2, EventsDiffer
  <2>5. FindingEvent(n, p) \in DOMAIN outbox' <=> FindingEvent(n, p) \in DOMAIN outbox \/ (n = m /\ p = q)
    BY <2>1, <2>2, EventsDiffer
  <2> QED BY <1>1, <2>3, <2>4, <2>5
<1> QED BY <1>2, <1>3, QueueSteps

-----------------------------------------------------------------------------
(* The ending. *)

LEMMA EndingStep ==
  TypeOK /\ Unregistered /\ EndingExactlyOnce /\ [Next]_vars => EndingExactlyOnce'
<1> DEFINE Ended(n) == /\ n \in assessed <=> Completed(n) = Ticket
                       /\ n \in assessed <=> AssessmentEvent(n) \in DOMAIN outbox
<1> SUFFICES ASSUME TypeOK, Unregistered, [Next]_vars, NEW n \in Team, Ended(n)
             PROVE  Ended(n)'
  BY DEF EndingExactlyOnce
<1>0. ASSUME assessed' = assessed, outbox' = outbox, Completed(n)' = Completed(n)
      PROVE  Ended(n)'
  BY <1>0 DEF AssessmentEvent
<1>1. ASSUME NEW m \in Team, NEW id \in Identity, RegisterTeam(m, id) PROVE Ended(n)'
  <2>1. Completed(n)' = Completed(n)
    BY <1>1 DEF RegisterTeam, FreshRows, Unregistered, Completed, TypeOK
  <2> QED BY <1>0, <1>1, <2>1 DEF RegisterTeam, workVars, deliveryVars
<1>2. ASSUME NEW m \in Team, NEW t \in Ticket, NEW g \in 0..MaxGeneration, NEW r \in BOOLEAN,
             Release(m, t, g, r)
      PROVE  Ended(n)'
  <2>1. Completed(n)' = Completed(n)
    BY <1>2 DEF Release, Completed, TypeOK
  <2> QED BY <1>0, <1>2, <2>1 DEF Release, workVars, deliveryVars
<1>3. ASSUME NEW m \in Team, NEW t \in Ticket, NEW g \in 0..MaxGeneration, Claim(m, t, g)
      PROVE  Ended(n)'
  <2>1. Completed(n)' = Completed(n)
    BY <1>3 DEF Claim, Completed, TypeOK
  <2> QED BY <1>0, <1>3, <2>1 DEF Claim, workVars, deliveryVars
<1>4. ASSUME NEW m \in Team, NEW q \in Question, UnlockHint(m, q) PROVE Ended(n)'
  BY <1>0, <1>4 DEF UnlockHint, laneVars, deliveryVars, Completed
<1>5. ASSUME NEW m \in Team, NEW q \in Question, Answer(m, q) PROVE Ended(n)'
  <2> DEFINE rows == IF Closes(m, q) THEN CloseTicket(m, TicketOf[q]) ELSE status[m]
             due  == Closes(m, q) /\ EndingDue(m, rows)
  <2>1. assessed' = IF due THEN assessed \cup {m} ELSE assessed
    BY <1>5 DEF Answer
  <2>2. AssessmentEvent(n) \in DOMAIN outbox' <=>
          AssessmentEvent(n) \in DOMAIN outbox \/ (n = m /\ due)
    <3>1. DOMAIN outbox' = DOMAIN outbox \cup {PointEvent(m, q), FindingEvent(m, q)}
                             \cup LeadEvents(m, rows) \cup (IF due THEN {AssessmentEvent(m)} ELSE {})
      BY <1>5, AnswerQueue
    <3> HIDE DEF rows, due
    <3>2. AssessmentEvent(n) \notin LeadEvents(m, rows)
      BY EventsDiffer DEF LeadEvents
    <3>3. /\ AssessmentEvent(n) \notin {PointEvent(m, q), FindingEvent(m, q)}
          /\ AssessmentEvent(n) = AssessmentEvent(m) <=> n = m
      BY EventsDiffer, ContentAssumption
    <3> QED BY <3>1, <3>2, <3>3
  <2>3. n \in assessed' <=> AssessmentEvent(n)' \in DOMAIN outbox'
    BY <2>1, <2>2 DEF AssessmentEvent
  <2>4. n \in assessed' <=> Completed(n)' = Ticket
    <3>1. CASE n # m
      <4>1. Completed(n)' = Completed(n)
        BY <1>5, <3>1, AnswerRows DEF Completed
      <4> QED BY <2>1, <3>1, <4>1
    <3>2. CASE n = m /\ ~Closes(m, q)
      <4>1. Completed(n)' = Completed(n)
        BY <1>5, <3>2, AnswerRows DEF Completed
      <4> QED BY <2>1, <3>2, <4>1
    <3>3. CASE n = m /\ Closes(m, q)
      <4>1. status'[m] = rows
        BY <1>5 DEF Answer, TypeOK
      <4>2. TicketOf[q] \in Ticket /\ TicketOf[q] \notin Completed(m)
        BY <1>5, ContentAssumption DEF Answer, Answerable, Open, Completed
      <4>3. m \notin assessed
        BY <3>3, <4>2 DEF Completed
      <4>4. Completed(m)' = Ticket <=> \A t \in Ticket : rows[t] = "complete"
        BY <4>1 DEF Completed
      <4> QED BY <2>1, <3>3, <4>3, <4>4 DEF EndingDue
    <3> QED BY <3>1, <3>2, <3>3
  <2> QED BY <2>3, <2>4
<1>6. CASE UNCHANGED <<mapping, laneVars, workVars, outbox>>
  BY <1>0, <1>6 DEF laneVars, workVars, Completed
<1> QED BY <1>1, <1>2, <1>3, <1>4, <1>5, <1>6, RecordSteps

-----------------------------------------------------------------------------
(* The tasks of open tickets.  Not inductive alone: a team that joins late   *)
(* finds tickets open whose delivery initialize has queued.                  *)

RootsQueued == \A t \in Ticket : Requires[t] = {} => TicketEvent(t) \in DOMAIN outbox

LEMMA QueueGrows == [Next]_vars => \A e \in DOMAIN outbox : e \in DOMAIN outbox' /\ outbox'[e] = outbox[e]
<1> SUFFICES ASSUME [Next]_vars
             PROVE  \A e \in DOMAIN outbox : e \in DOMAIN outbox' /\ outbox'[e] = outbox[e]
  OBVIOUS
<1>1. ASSUME NEW m \in Team, NEW q \in Question, Answer(m, q)
      PROVE  \A e \in DOMAIN outbox : e \in DOMAIN outbox' /\ outbox'[e] = outbox[e]
  BY <1>1, AnswerQueue
<1> QED BY <1>1, QueueSteps

\* Only a delivery marks rows, one at a time, and enters the task of a ticket.
LEMMA DeliverySteps ==
  ASSUME [Next]_vars
  PROVE  \/ UNCHANGED <<delivered, irisTask>>
         \/ \E e \in Event : SyncOnce(e) /\ UNCHANGED <<laneVars, outbox>>
<1>1. CASE UNCHANGED vars
  BY <1>1 DEF vars, deliveryVars
<1>2. CASE Operator
  BY <1>2 DEF Operator, RegisterTeam, Provision, SetMode, Fence, Unfence, ActivateGeneration,
     BeginExport, EndExport, Release, deliveryVars
<1>3. ASSUME NEW m \in Team, NEW q \in Question, Answer(m, q)
      PROVE  UNCHANGED <<delivered, irisTask>>
  BY <1>3 DEF Answer
<1>4. CASE Participant
  BY <1>3, <1>4 DEF Participant, Claim, Release, UnlockHint, deliveryVars
<1>5. ASSUME NEW e \in Event, SyncOnce(e) PROVE UNCHANGED <<laneVars, outbox>>
  BY <1>5 DEF SyncOnce
<1> QED BY <1>1, <1>2, <1>4, <1>5 DEF Next

LEMMA TasksStep ==
  TypeOK /\ RootsQueued /\ NoStrandedTicket /\ [Next]_vars => RootsQueued' /\ NoStrandedTicket'
<1> SUFFICES ASSUME TypeOK, RootsQueued, NoStrandedTicket, [Next]_vars
             PROVE  RootsQueued' /\ NoStrandedTicket'
  OBVIOUS
<1>1. RootsQueued'
  BY QueueGrows DEF RootsQueued, TicketEvent
<1> DEFINE Prepared(n, u) == /\ Open(n, u) => TicketEvent(u) \in DOMAIN outbox
                             /\ status[n][u] = "active" => u \in irisTask
                             /\ TicketEvent(u) \in delivered <=> u \in irisTask
<1> SUFFICES ASSUME NEW n \in Team, NEW u \in Ticket, Prepared(n, u)
             PROVE  Prepared(n, u)'
  BY <1>1 DEF NoStrandedTicket
<1>2. TicketEvent(u)' = TicketEvent(u)
  BY DEF TicketEvent
<1>3. TicketEvent(u) \in DOMAIN outbox => TicketEvent(u) \in DOMAIN outbox'
  BY QueueGrows
<1>4. ASSUME NEW e \in Event, SyncOnce(e) PROVE Prepared(n, u)'
  <2>1. status' = status
    BY <1>4 DEF SyncOnce, laneVars
  <2>2. delivered' = delivered \cup {e} /\ irisTask \subseteq irisTask'
    BY <1>4 DEF SyncOnce
  <2>3. u \in irisTask' <=> u \in irisTask \/ e = TicketEvent(u)
    <3>1. e.kind = "ticket" /\ e.ticket = u <=> e = TicketEvent(u)
      BY DEF Event, TicketEvent, AssessmentEvent, PointEvent, FindingEvent
    <3>2. irisTask' = IF e.kind = "ticket" THEN irisTask \cup {e.ticket} ELSE irisTask
      BY <1>4 DEF SyncOnce
    <3> QED BY <3>1, <3>2
  <2> QED BY <1>2, <1>3, <2>1, <2>2, <2>3 DEF Open
<1>5. ASSUME UNCHANGED <<delivered, irisTask>>,
             status'[n][u] = status[n][u] \/ status'[n][u] \notin {"available", "active"}
      PROVE  Prepared(n, u)'
  BY <1>2, <1>3, <1>5 DEF Open
<1>6. ASSUME NEW m \in Team, NEW id \in Identity, RegisterTeam(m, id) PROVE Prepared(n, u)'
  <2>1. UNCHANGED <<delivered, irisTask>>
    BY <1>6 DEF RegisterTeam, deliveryVars
  <2>2. CASE n = m
    <3>1. status'[n][u] = IF Requires[u] = {} THEN "available" ELSE "locked"
      BY <1>6, <2>2 DEF RegisterTeam, FreshRows, TypeOK
    <3> QED BY <1>1, <1>2, <2>1, <3>1 DEF Open, RootsQueued
  <2>3. CASE n # m
    <3>1. status'[n][u] = status[n][u]
      BY <1>6, <2>3 DEF RegisterTeam, TypeOK
    <3> QED BY <1>5, <2>1, <3>1
  <2> QED BY <2>2, <2>3
<1>7. ASSUME NEW m \in Team, NEW t \in Ticket, NEW g \in 0..MaxGeneration, NEW r \in BOOLEAN,
             Release(m, t, g, r)
      PROVE  Prepared(n, u)'
  <2>1. UNCHANGED <<delivered, irisTask>>
    BY <1>7 DEF Release, deliveryVars
  <2>2. \/ status'[n][u] = status[n][u]
        \/ status[n][u] = "active" /\ status'[n][u] = "available"
    BY <1>7 DEF Release, TypeOK
  <2> QED BY <1>2, <1>3, <2>1, <2>2 DEF Open
<1>8. ASSUME NEW m \in Team, NEW t \in Ticket, NEW g \in 0..MaxGeneration, Claim(m, t, g)
      PROVE  Prepared(n, u)'
  <2>1. UNCHANGED <<delivered, irisTask>>
    BY <1>8 DEF Claim, deliveryVars
  <2>2. \/ status'[n][u] = status[n][u]
        \/ status[n][u] = "available" /\ status'[n][u] = "active" /\ u \in irisTask
    BY <1>8 DEF Claim, TypeOK
  <2> QED BY <1>2, <1>3, <2>1, <2>2 DEF Open
<1>9. ASSUME NEW m \in Team, NEW q \in Question, UnlockHint(m, q) PROVE Prepared(n, u)'
  BY <1>5, <1>9 DEF UnlockHint, laneVars, deliveryVars
<1>10. ASSUME NEW m \in Team, NEW q \in Question, Answer(m, q) PROVE Prepared(n, u)'
  <2>1. UNCHANGED <<delivered, irisTask>>
    BY <1>10 DEF Answer
  <2>2. CASE status'[n][u] = status[n][u] \/ status'[n][u] = "complete"
    BY <1>5, <2>1, <2>2
  <2>3. CASE n = m /\ Closes(m, q) /\ status[n][u] = "locked" /\ status'[n][u] = "available"
    <3> DEFINE rows == CloseTicket(m, TicketOf[q])
    <3>1. status'[m] = rows
      BY <1>10, <2>3 DEF Answer, TypeOK
    <3>2. TicketEvent(u) \in LeadEvents(m, rows)
      BY <2>3, <3>1 DEF LeadEvents
    <3>3. LeadEvents(m, rows) \subseteq DOMAIN outbox'
      <4> HIDE DEF rows
      <4>1. (IF Closes(m, q) THEN CloseTicket(m, TicketOf[q]) ELSE status[m]) = rows
        BY <2>3 DEF rows
      <4> QED BY <1>10, <4>1, AnswerQueue
    <3> QED BY <1>2, <2>1, <2>3, <3>2, <3>3
  <2>4. \/ status'[n][u] = status[n][u] \/ status'[n][u] = "complete"
        \/ n = m /\ Closes(m, q) /\ status[n][u] = "locked" /\ status'[n][u] = "available"
    BY <1>10, AnswerRows
  <2> QED BY <2>2, <2>3, <2>4
<1>11. CASE UNCHANGED <<delivered, irisTask>> /\ UNCHANGED <<mapping, laneVars, workVars, outbox>>
  BY <1>5, <1>11 DEF laneVars
<1> QED
  BY <1>4, <1>6, <1>7, <1>8, <1>9, <1>10, <1>11, RecordSteps, DeliverySteps

-----------------------------------------------------------------------------
(* The inductive invariant.  Each part but the types is one of the          *)
(* properties the model checker runs on small instances; the steps above    *)
(* use the types, the gate (for the rows of teams that have not joined) and *)
(* the queued roots, which no property states.                              *)

IInv ==
  /\ TypeOK
  /\ PrerequisitesGate /\ OwnershipLedger /\ LaneBound
  /\ CompleteIffAnswered /\ PaidHelpPriced
  /\ DeliveryPerAnswer /\ EndingExactlyOnce
  /\ RootsQueued /\ NoStrandedTicket

LEMMA GateUnregistered == PrerequisitesGate => Unregistered
  BY DEF PrerequisitesGate, Unregistered

LEMMA InitIInv == Init => IInv
<1> SUFFICES ASSUME Init PROVE IInv
  OBVIOUS
<1>1. TypeOK
  BY InitTypeOK
<1>2. \A m \in Team, t \in Ticket :
        status[m][t] = IF ~Registered(m) THEN "absent"
                       ELSE IF Requires[t] = {} THEN "available" ELSE "locked"
  BY DEF Init, FreshRows
<1>3. /\ \A m \in Team, q \in Question : ~Answered(m, q)
      /\ \A m \in Team : Completed(m) = {} /\ ActiveLanes(m) = {}
  BY <1>2 DEF Init, Answered, Completed, ActiveLanes
<1>4. \A t \in Ticket : Requires[t] = {} <=> TicketEvent(t) \in DOMAIN outbox
  <2>1. DOMAIN outbox = {TicketEvent(u) : u \in {v \in Ticket : Requires[v] = {}}}
    BY DEF Init
  <2> QED BY <2>1, EventsDiffer
<1>5. PrerequisitesGate
  BY <1>2, <1>3 DEF PrerequisitesGate
<1>6. OwnershipLedger
  <2>1. 0..(0 - 1) = {} /\ 1..0 = {}
    OBVIOUS
  <2> QED BY <1>2, <2>1 DEF Init, OwnershipLedger, Ledger
<1>7. LaneBound
  BY <1>3, FS_EmptySet, BoundAssumption DEF LaneBound
<1>8. CompleteIffAnswered
  BY <1>2, <1>3, ContentAssumption DEF CompleteIffAnswered, QuestionsOf
<1>9. PaidHelpPriced
  BY <1>3 DEF PaidHelpPriced
<1>10. DeliveryPerAnswer /\ EndingExactlyOnce
  <2>1. DOMAIN outbox \subseteq {TicketEvent(u) : u \in Ticket}
    BY DEF Init
  <2>2. /\ \A m \in Team, q \in Question : /\ PointEvent(m, q) \notin DOMAIN outbox
                                           /\ FindingEvent(m, q) \notin DOMAIN outbox
        /\ \A m \in Team : AssessmentEvent(m) \notin DOMAIN outbox
    <3>1. \A m \in Team, q \in Question, t \in Ticket :
            /\ PointEvent(m, q) # TicketEvent(t)
            /\ FindingEvent(m, q) # TicketEvent(t)
            /\ TicketEvent(t) # AssessmentEvent(m)
      BY EventsDiffer
    <3>2. \E q \in Question : TRUE
      BY ContentAssumption
    <3> QED BY <2>1, <3>1, <3>2
  <2>3. Ticket # {} /\ assessed = {}
    BY ContentAssumption DEF Init
  <2> QED BY <1>3, <2>2, <2>3 DEF DeliveryPerAnswer, EndingExactlyOnce
<1>11. RootsQueued
  BY <1>4 DEF RootsQueued
<1>12. NoStrandedTicket
  BY <1>2, <1>4 DEF Init, NoStrandedTicket, Open
<1> QED BY <1>1, <1>5, <1>6, <1>7, <1>8, <1>9, <1>10, <1>11, <1>12 DEF IInv

LEMMA NextIInv == IInv /\ [Next]_vars => IInv'
  BY NextTypeOK, PrerequisitesStep, LedgerStep, LaneBoundStep, CompletionStep, PriceStep,
     DeliveryPerAnswerStep, EndingStep, TasksStep, GateUnregistered
  DEF IInv

\* The invariant holds of every reachable state of the progress store.
THEOREM Invariance == Spec => []IInv
<1> QED BY InitIInv, NextIInv, PTL DEF Spec

\* No team ever holds more work lanes than the limit, for every limit.
THEOREM LanesBounded == Spec => []LaneBound
<1>1. IInv => LaneBound
  BY DEF IInv
<1> QED BY <1>1, Invariance, PTL

\* A ticket of a registered team is locked exactly while a requirement is open.
THEOREM PrerequisitesKept == Spec => []PrerequisitesGate
<1>1. IInv => PrerequisitesGate
  BY DEF IInv
<1> QED BY <1>1, Invariance, PTL

\* No claim or release form takes effect twice or on a later ownership.
THEOREM FormsTakeEffectOnce == Spec => []OwnershipLedger
<1>1. IInv => OwnershipLedger
  BY DEF IInv
<1> QED BY <1>1, Invariance, PTL

\* A ticket is complete for exactly the teams that answered all its questions.
THEOREM ClosureIsEarned == Spec => []CompleteIffAnswered
<1>1. IInv => CompleteIffAnswered
  BY DEF IInv
<1> QED BY <1>1, Invariance, PTL

\* An answer has the assisted price exactly if its team bought the walkthrough.
THEOREM PricesFixed == Spec => []PaidHelpPriced
<1>1. IInv => PaidHelpPriced
  BY DEF IInv
<1> QED BY <1>1, Invariance, PTL

\* The queue holds the credit and the finding of exactly the accepted answers.
THEOREM AnswersQueued == Spec => []DeliveryPerAnswer
<1>1. IInv => DeliveryPerAnswer
  BY DEF IInv
<1> QED BY <1>1, Invariance, PTL

\* The ending is published for exactly the teams that completed every ticket.
THEOREM EndingEarned == Spec => []EndingExactlyOnce
<1>1. IInv => EndingExactlyOnce
  BY DEF IInv
<1> QED BY <1>1, Invariance, PTL

\* Every ticket that is open to a team has its task queued or created.
THEOREM TasksPrepared == Spec => []NoStrandedTicket
<1>1. IInv => NoStrandedTicket
  BY DEF IInv
<1> QED BY <1>1, Invariance, PTL

-----------------------------------------------------------------------------
(* What is accepted stays accepted. *)

LEMMA KeptStep ==
  ASSUME IInv, [Next]_vars
  PROVE  /\ \A m \in Team, q \in Question : Answered(m, q) => answers'[m][q] = answers[m][q]
         /\ \A m \in Team : Completed(m) \subseteq Completed(m)'
         /\ \A e \in DOMAIN outbox : e \in DOMAIN outbox' /\ outbox'[e] = outbox[e]
         /\ delivered \subseteq delivered'
<1>1. ASSUME NEW m \in Team, NEW q \in Question, Answered(m, q)
      PROVE  answers'[m][q] = answers[m][q]
  <2>1. ASSUME NEW n \in Team, NEW p \in Question, Answer(n, p)
        PROVE  answers'[m][q] = answers[m][q]
    <3>1. \A k \in Team, x \in Question : k # n \/ x # p => answers'[k][x] = answers[k][x]
      BY <2>1, AnswerWork DEF IInv
    <3>2. ~Answered(n, p)
      BY <2>1, AnswerWork DEF IInv
    <3> QED BY <1>1, <3>1, <3>2
  <2> QED BY <2>1, QueueSteps
<1>2. ASSUME NEW m \in Team, NEW t \in Ticket, status[m][t] = "complete"
      PROVE  status'[m][t] = "complete"
  <2>1. \A q \in QuestionsOf(t) : Answered(m, q)
    BY <1>2 DEF IInv, CompleteIffAnswered
  <2>2. \A q \in QuestionsOf(t) : Answered(m, q)'
    BY <1>1, <2>1 DEF Answered, QuestionsOf
  <2>3. CompleteIffAnswered'
    BY NextIInv DEF IInv
  <2> QED BY <2>2, <2>3 DEF CompleteIffAnswered, QuestionsOf
<1>3. delivered \subseteq delivered'
  BY DeliverySteps DEF SyncOnce
<1> QED BY <1>1, <1>2, <1>3, QueueGrows DEF Completed

\* No step takes back an answer, a closed ticket, a queued event or a delivery.
THEOREM AcceptedStays == Spec => AcceptedWorkKept
<1>1. IInv /\ [Next]_vars =>
        [/\ \A m \in Team, q \in Question : Answered(m, q) => answers'[m][q] = answers[m][q]
         /\ \A m \in Team : Completed(m) \subseteq Completed(m)'
         /\ \A e \in DOMAIN outbox : e \in DOMAIN outbox' /\ outbox'[e] = outbox[e]
         /\ delivered \subseteq delivered']_vars
  BY KeptStep
<1> QED BY <1>1, Invariance, PTL DEF Spec, AcceptedWorkKept

-----------------------------------------------------------------------------
(* The clocks.  Only register_team and mode touch them. *)

LEMMA ClocksStep == TypeOK /\ ClocksRun /\ [Next]_vars => ClocksRun'
<1> SUFFICES ASSUME TypeOK, ClocksRun, [Next]_vars PROVE ClocksRun'
  OBVIOUS
<1> USE DEF ClocksRun, Registered, controlVars, teamVars
<1>1. ASSUME NEW m \in Team, NEW id \in Identity, RegisterTeam(m, id) PROVE ClocksRun'
  <2>1. {n \in Team : mapping'[n] # None} = {n \in Team : mapping[n] # None} \cup {m}
    BY <1>1, NoneAssumption DEF RegisterTeam, Identity, TypeOK
  <2> QED BY <1>1, <2>1 DEF RegisterTeam
<1>2. ASSUME NEW value \in {"running", "paused"}, SetMode(value) PROVE ClocksRun'
  BY <1>2 DEF SetMode, StartClocks
<1>3. CASE UNCHANGED <<mode, teamVars>>
  BY <1>3
<1>4. CASE UNCHANGED vars
  BY <1>4 DEF vars
<1>5. Participant => UNCHANGED <<mode, teamVars>>
  BY ParticipantFrame
<1>6. (\E e \in Event : SyncOnce(e)) => UNCHANGED <<mode, teamVars>>
  BY DEF SyncOnce
<1>7. CASE Operator
  BY <1>1, <1>2, <1>3, <1>7 DEF Operator, Provision, Fence, Unfence, ActivateGeneration,
     BeginExport, EndExport, Release
<1> QED BY <1>3, <1>4, <1>5, <1>6, <1>7 DEF Next

\* While the exercise runs the clock of every registered team runs, and no other.
THEOREM ClocksKept == Spec => []ClocksRun
<1>1. Init => ClocksRun
  BY DEF Init, ClocksRun
<1> QED BY <1>1, ClocksStep, TypeCorrect, PTL DEF Spec

-----------------------------------------------------------------------------
(***************************************************************************)
(* The order of the outbox (State.enqueue and sync_once): the rows of a    *)
(* chain form one line, and are delivered from its beginning.              *)
(*                                                                         *)
(* A row only knows the row it waits for.  The invariant numbers the rows  *)
(* of every chain without a gap (Ranked), so that "the last row", which    *)
(* previous looks for, is the one with the highest number, and what is     *)
(* delivered of a chain is everything up to some number (Prefixed).        *)
(***************************************************************************)

Chain == Ticket \X (Team \cup {None})
ChainOf(e) == <<e.ticket, e.team>>

Ranked(box, rank, len) ==
  /\ DOMAIN box \subseteq Event
  /\ rank \in [DOMAIN box -> Nat] /\ len \in [Chain -> Nat]
  /\ \A e \in DOMAIN box : rank[e] < len[ChainOf(e)]
  /\ \A e, f \in DOMAIN box : SameChain(e, f) /\ rank[e] = rank[f] => e = f
  /\ \A c \in Chain, r \in Nat : r < len[c] => \E e \in DOMAIN box : ChainOf(e) = c /\ rank[e] = r
  /\ \A e \in DOMAIN box : box[e] = {p \in DOMAIN box : SameChain(p, e) /\ rank[p] + 1 = rank[e]}

\* A finding comes after its credit, an ending after the findings of the capstone.
Behind(box, rank) ==
  \A m \in Team, q \in Question :
    /\ {PointEvent(m, q), FindingEvent(m, q)} \subseteq DOMAIN box
         => rank[PointEvent(m, q)] < rank[FindingEvent(m, q)]
    /\ TicketOf[q] = Capstone /\ {FindingEvent(m, q), AssessmentEvent(m)} \subseteq DOMAIN box
         => rank[FindingEvent(m, q)] < rank[AssessmentEvent(m)]

Prefixed(box, done, rank) ==
  /\ done \subseteq DOMAIN box
  /\ \A e \in done, f \in DOMAIN box : SameChain(e, f) /\ rank[f] <= rank[e] => f \in done

\* What is new in box2 is later in its chain than what was in box.
Beyond(box, rank, box2, rank2) ==
  /\ DOMAIN box \subseteq DOMAIN box2
  /\ \A e \in DOMAIN box : rank2[e] = rank[e]
  /\ \A e \in DOMAIN box, x \in DOMAIN box2 \ DOMAIN box : SameChain(e, x) => rank2[e] < rank2[x]

Lined ==
  \E rank, len : Ranked(outbox, rank, len) /\ Behind(outbox, rank) /\ Prefixed(outbox, delivered, rank)

LEMMA EventChain ==
  /\ \A e \in Event : ChainOf(e) \in Chain
  /\ \A e, f : SameChain(e, f) <=> ChainOf(e) = ChainOf(f)
<1>1. ASSUME NEW e \in Event
      PROVE  e.ticket \in Ticket /\ e.team \in Team \cup {None}
  BY ContentAssumption DEF Event, TicketEvent, AssessmentEvent, PointEvent, FindingEvent
<1> QED BY <1>1 DEF Chain, ChainOf, SameChain

\* The last row of a chain is the one with the highest number.
LEMMA LastRow ==
  ASSUME NEW box, NEW rank, NEW len, Ranked(box, rank, len), NEW x \in Event
  PROVE  Previous(box, x) = {p \in DOMAIN box : SameChain(p, x) /\ rank[p] + 1 = len[ChainOf(x)]}
<1>1. ASSUME NEW p \in DOMAIN box, SameChain(p, x), rank[p] + 1 = len[ChainOf(x)], NEW y \in DOMAIN box
      PROVE  p \notin box[y]
  <2> SUFFICES ASSUME p \in box[y]
               PROVE  FALSE
    OBVIOUS
  <2>1. SameChain(p, y) /\ rank[p] + 1 = rank[y]
    BY DEF Ranked
  <2>2. rank[y] < len[ChainOf(y)] /\ ChainOf(y) = ChainOf(x)
    BY <1>1, <2>1, EventChain DEF Ranked
  <2>3. rank[y] \in Nat /\ len[ChainOf(x)] \in Nat
    BY EventChain DEF Ranked
  <2> QED BY <1>1, <2>1, <2>2, <2>3
<1>2. ASSUME NEW p \in DOMAIN box, SameChain(p, x), \A y \in DOMAIN box : p \notin box[y]
      PROVE  rank[p] + 1 = len[ChainOf(x)]
  <2>1. ChainOf(p) = ChainOf(x) /\ rank[p] \in Nat /\ len[ChainOf(x)] \in Nat /\ ChainOf(x) \in Chain
    BY <1>2, EventChain DEF Ranked
  <2>2. rank[p] < len[ChainOf(x)]
    BY <2>1 DEF Ranked
  <2>3. CASE rank[p] + 1 < len[ChainOf(x)]
    <3>1. PICK y \in DOMAIN box : ChainOf(y) = ChainOf(x) /\ rank[y] = rank[p] + 1
      BY <2>1, <2>3 DEF Ranked
    <3>2. p \in box[y]
      BY <2>1, <3>1, EventChain DEF Ranked
    <3> QED BY <1>2, <3>2
  <2> QED BY <2>1, <2>2, <2>3
<1> QED BY <1>1, <1>2 DEF Previous

\* Queueing events of distinct chains prolongs their lines by one.
LEMMA EnqueueRanked ==
  ASSUME NEW box, NEW rank, NEW len, Ranked(box, rank, len),
         NEW events \in SUBSET Event, \A x, y \in events : SameChain(x, y) => x = y
  PROVE  \E rank2, len2 : /\ Ranked(EnqueueAll(box, events), rank2, len2)
                          /\ Beyond(box, rank, EnqueueAll(box, events), rank2)
<1> DEFINE new   == events \ DOMAIN box
           box2  == EnqueueAll(box, events)
           rank2 == [x \in DOMAIN box \cup events |-> IF x \in DOMAIN box THEN rank[x] ELSE len[ChainOf(x)]]
           len2  == [c \in Chain |-> IF \E x \in new : ChainOf(x) = c THEN len[c] + 1 ELSE len[c]]
<1>1. DOMAIN box2 = DOMAIN box \cup new /\ \A e \in DOMAIN box : box2[e] = box[e]
  BY EnqueueAllDomain
<1>2. \A x \in new : box2[x] = Previous(box, x)
  BY DEF EnqueueAll
<1>3. /\ \A e \in DOMAIN box : rank2[e] = rank[e] /\ rank[e] \in Nat /\ rank[e] < len[ChainOf(e)]
      /\ \A x \in new : rank2[x] = len[ChainOf(x)]
      /\ \A c \in Chain : len[c] \in Nat
      /\ \A c \in Chain : (\E x \in new : ChainOf(x) = c) => len2[c] = len[c] + 1
      /\ \A c \in Chain : ~(\E x \in new : ChainOf(x) = c) => len2[c] = len[c]
  BY EventChain DEF Ranked
<1>4. DOMAIN box2 \subseteq Event /\ rank2 \in [DOMAIN box2 -> Nat] /\ len2 \in [Chain -> Nat]
  <2>1. DOMAIN box2 \subseteq Event /\ DOMAIN box2 = DOMAIN box \cup events
    BY <1>1 DEF Ranked
  <2>2. \A x \in DOMAIN box \cup events : rank2[x] \in Nat
    BY <1>3, EventChain
  <2>3. \A c \in Chain : len2[c] \in Nat
    BY <1>3
  <2> QED BY <2>1, <2>2, <2>3
<1> HIDE DEF box2, rank2, len2
<1>5. \A e \in DOMAIN box2 : rank2[e] < len2[ChainOf(e)]
  BY <1>1, <1>3, <1>4, EventChain
<1>6. \A e, f \in DOMAIN box2 : SameChain(e, f) /\ rank2[e] = rank2[f] => e = f
  BY <1>1, <1>3, EventChain DEF Ranked
<1>7. ASSUME NEW c \in Chain, NEW r \in Nat, r < len2[c]
      PROVE  \E e \in DOMAIN box2 : ChainOf(e) = c /\ rank2[e] = r
  <2>1. CASE r < len[c]
    <3>1. PICK e \in DOMAIN box : ChainOf(e) = c /\ rank[e] = r
      BY <2>1 DEF Ranked
    <3> QED BY <1>1, <1>3, <3>1
  <2>2. CASE ~(r < len[c])
    <3>1. PICK x \in new : ChainOf(x) = c
      BY <1>3, <1>7, <2>2
    <3>2. r = len[c]
      BY <1>3, <1>7, <2>2, <3>1
    <3> QED BY <1>1, <1>3, <3>1, <3>2
  <2> QED BY <2>1, <2>2
<1>8. ASSUME NEW e \in DOMAIN box2
      PROVE  box2[e] = {p \in DOMAIN box2 : SameChain(p, e) /\ rank2[p] + 1 = rank2[e]}
  <2>1. CASE e \in DOMAIN box
    <3>1. box[e] = {p \in DOMAIN box : SameChain(p, e) /\ rank[p] + 1 = rank[e]}
      BY <2>1 DEF Ranked
    <3>2. \A p \in new : SameChain(p, e) => rank2[p] + 1 # rank2[e]
      BY <1>3, <2>1, EventChain
    <3> QED BY <1>1, <1>3, <2>1, <3>1, <3>2
  <2>2. CASE e \in new
    <3>1. box2[e] = {p \in DOMAIN box : SameChain(p, e) /\ rank[p] + 1 = len[ChainOf(e)]}
      BY <1>2, <2>2, LastRow
    <3>2. \A p \in new : SameChain(p, e) => rank2[p] + 1 # rank2[e]
      BY <1>3, <2>2, EventChain
    <3> QED BY <1>1, <1>3, <2>2, <3>1, <3>2
  <2> QED BY <1>1, <2>1, <2>2
<1>9. Ranked(box2, rank2, len2)
  BY <1>4, <1>5, <1>6, <1>7, <1>8 DEF Ranked
<1>10. \A e \in DOMAIN box, x \in new : SameChain(e, x) => rank2[e] < rank2[x]
  BY <1>3, EventChain
<1>11. Beyond(box, rank, box2, rank2)
  BY <1>1, <1>3, <1>10 DEF Beyond
<1> QED BY <1>9, <1>11 DEF box2

LEMMA BeyondTransitive ==
  ASSUME NEW b1, NEW r1, NEW b2, NEW r2, NEW b3, NEW r3, NEW l1, NEW l2, NEW l3,
         Ranked(b1, r1, l1), Ranked(b2, r2, l2), Ranked(b3, r3, l3),
         Beyond(b1, r1, b2, r2), Beyond(b2, r2, b3, r3)
  PROVE  Beyond(b1, r1, b3, r3)
<1>1. ASSUME NEW e \in DOMAIN b1, NEW x \in DOMAIN b3 \ DOMAIN b1, SameChain(e, x)
      PROVE  r3[e] < r3[x]
  <2>1. CASE x \in DOMAIN b2
    BY <1>1, <2>1 DEF Beyond
  <2>2. CASE x \notin DOMAIN b2
    BY <1>1, <2>2 DEF Beyond
  <2> QED BY <2>1, <2>2
<1> QED BY <1>1 DEF Beyond

-----------------------------------------------------------------------------
(* An answer queues its credit, then its finding, then the tickets it opens *)
(* and last, if it is the final one, the ending.                            *)

LEMMA AnswerRanked ==
  ASSUME NEW m \in Team, NEW q \in Question, Answer(m, q),
         PointEvent(m, q) \notin DOMAIN outbox, FindingEvent(m, q) \notin DOMAIN outbox,
         NEW rank, NEW len, Ranked(outbox, rank, len)
  PROVE  \E rank2, len2 :
           /\ Ranked(outbox', rank2, len2)
           /\ Beyond(outbox, rank, outbox', rank2)
           /\ rank2[PointEvent(m, q)] < rank2[FindingEvent(m, q)]
           /\ TicketOf[q] = Capstone /\ AssessmentEvent(m) \in DOMAIN outbox' \ DOMAIN outbox
                => rank2[FindingEvent(m, q)] < rank2[AssessmentEvent(m)]
<1> DEFINE P      == PointEvent(m, q)
           F      == FindingEvent(m, q)
           A      == AssessmentEvent(m)
           rows   == IF Closes(m, q) THEN CloseTicket(m, TicketOf[q]) ELSE status[m]
           leads  == LeadEvents(m, rows)
           first  == EnqueueAll(outbox, {P})
           second == EnqueueAll(first, {F})
           opened == EnqueueAll(second, leads)
           ended  == EnqueueAll(opened, {A})
<1>1. outbox' = IF Closes(m, q) /\ EndingDue(m, rows) THEN ended ELSE opened
  BY DEF Answer, Enqueue
<1>2. P \in Event /\ F \in Event /\ A \in Event /\ P # F /\ A # P /\ A # F
  BY EventTypes, EventsDiffer, ContentAssumption
<1>3. leads \in SUBSET Event /\ A \notin leads /\ P \notin leads /\ F \notin leads
  <2>1. \A x \in leads : \E t \in Ticket : x = TicketEvent(t)
    BY DEF LeadEvents
  <2> HIDE DEF leads
  <2> QED BY <2>1, EventTypes, EventsDiffer
<1>4. \A x, y \in leads : SameChain(x, y) => x = y
  BY DEF LeadEvents, TicketEvent, SameChain
<1>5. /\ SameChain(P, F)
      /\ TicketOf[q] = Capstone => SameChain(F, A)
  BY DEF SameChain, PointEvent, FindingEvent, AssessmentEvent
<1>6. /\ DOMAIN first = DOMAIN outbox \cup {P} /\ DOMAIN second = DOMAIN first \cup {F}
      /\ DOMAIN opened = DOMAIN second \cup leads /\ DOMAIN ended = DOMAIN opened \cup {A}
  BY EnqueueAllDomain
<1> HIDE DEF P, F, A, leads
<1>7. PICK r1, l1 : Ranked(first, r1, l1) /\ Beyond(outbox, rank, first, r1)
  <2>1. {P} \in SUBSET Event /\ \A x, y \in {P} : SameChain(x, y) => x = y
    BY <1>2
  <2> HIDE DEF rows, second, opened, ended
  <2> QED BY <2>1, EnqueueRanked
<1> HIDE DEF first
<1>8. PICK r2, l2 : Ranked(second, r2, l2) /\ Beyond(first, r1, second, r2)
  <2>1. {F} \in SUBSET Event /\ \A x, y \in {F} : SameChain(x, y) => x = y
    BY <1>2
  <2> HIDE DEF rows, opened, ended
  <2> QED BY <1>7, <2>1, EnqueueRanked
<1> HIDE DEF second
<1>9. PICK r3, l3 : Ranked(opened, r3, l3) /\ Beyond(second, r2, opened, r3)
  <2> HIDE DEF rows, ended
  <2> QED BY <1>3, <1>4, <1>8, EnqueueRanked
<1> HIDE DEF opened
<1>10. PICK r4, l4 : Ranked(ended, r4, l4) /\ Beyond(opened, r3, ended, r4)
  <2>1. {A} \in SUBSET Event /\ \A x, y \in {A} : SameChain(x, y) => x = y
    BY <1>2
  <2> HIDE DEF rows
  <2> QED BY <1>9, <2>1, EnqueueRanked
<1> HIDE DEF ended
<1>11. /\ Beyond(outbox, rank, opened, r3) /\ Beyond(first, r1, opened, r3)
       /\ Beyond(outbox, rank, ended, r4) /\ Beyond(first, r1, ended, r4)
  <2>1. Beyond(first, r1, opened, r3)
    BY <1>7, <1>8, <1>9, BeyondTransitive
  <2>2. Beyond(first, r1, ended, r4)
    BY <2>1, <1>7, <1>9, <1>10, BeyondTransitive
  <2>3. Beyond(outbox, rank, opened, r3)
    BY <2>1, <1>7, <1>9, BeyondTransitive
  <2>4. Beyond(outbox, rank, ended, r4)
    BY <2>2, <1>7, <1>10, BeyondTransitive
  <2> QED BY <2>1, <2>2, <2>3, <2>4
<1>12. P \in DOMAIN first /\ F \notin DOMAIN first /\ F \in DOMAIN opened /\ F \in DOMAIN ended
  BY <1>2, <1>6 DEF F
<1>13. r3[P] < r3[F] /\ r4[P] < r4[F]
  BY <1>5, <1>11, <1>12 DEF Beyond
<1>14. A \notin DOMAIN outbox => A \notin DOMAIN opened /\ A \in DOMAIN ended
  BY <1>2, <1>3, <1>6
<1>15. TicketOf[q] = Capstone /\ A \notin DOMAIN outbox => r4[F] < r4[A]
  BY <1>5, <1>10, <1>12, <1>14 DEF Beyond
<1>16. CASE outbox' = ended
  BY <1>10, <1>11, <1>13, <1>15, <1>16 DEF P, F, A
<1>17. CASE outbox' = opened
  BY <1>9, <1>11, <1>13, <1>14, <1>17 DEF P, F, A
<1> QED BY <1>1, <1>16, <1>17

LEMMA AnswerLined ==
  ASSUME IInv, Lined, NEW m \in Team, NEW q \in Question, Answer(m, q), delivered' = delivered
  PROVE  Lined'
<1>1. PICK rank, len : Ranked(outbox, rank, len) /\ Behind(outbox, rank) /\ Prefixed(outbox, delivered, rank)
  BY DEF Lined
<1>2. PointEvent(m, q) \notin DOMAIN outbox /\ FindingEvent(m, q) \notin DOMAIN outbox
  BY AnswerWork DEF IInv, DeliveryPerAnswer
<1>3. PICK rank2, len2 :
        /\ Ranked(outbox', rank2, len2)
        /\ Beyond(outbox, rank, outbox', rank2)
        /\ rank2[PointEvent(m, q)] < rank2[FindingEvent(m, q)]
        /\ TicketOf[q] = Capstone /\ AssessmentEvent(m) \in DOMAIN outbox' \ DOMAIN outbox
             => rank2[FindingEvent(m, q)] < rank2[AssessmentEvent(m)]
  BY <1>1, <1>2, AnswerRanked
<1>4. \A n \in Team, p \in Question :
        /\ FindingEvent(n, p) \in DOMAIN outbox' \ DOMAIN outbox => n = m /\ p = q
        /\ PointEvent(n, p) \in DOMAIN outbox' \ DOMAIN outbox => n = m /\ p = q
        /\ PointEvent(n, p) \in DOMAIN outbox <=> FindingEvent(n, p) \in DOMAIN outbox
  <2>1. \A n \in Team, p \in Question : n # m \/ p # q => answers'[n][p] = answers[n][p]
    BY AnswerWork DEF IInv
  <2>2. \A n \in Team, p \in Question :
          /\ Answered(n, p) <=> PointEvent(n, p) \in DOMAIN outbox
          /\ Answered(n, p) <=> FindingEvent(n, p) \in DOMAIN outbox
    BY DEF IInv, DeliveryPerAnswer
  <2>3. DeliveryPerAnswer'
    <3>1. [Next]_vars
      BY DEF Next, Participant
    <3> QED BY <3>1, DeliveryPerAnswerStep DEF IInv
  <2>4. \A n \in Team, p \in Question :
          /\ answers'[n][p] # 0 <=> PointEvent(n, p) \in DOMAIN outbox'
          /\ answers'[n][p] # 0 <=> FindingEvent(n, p) \in DOMAIN outbox'
    BY <2>3 DEF DeliveryPerAnswer, Answered, PointEvent, FindingEvent
  <2>5. \A n \in Team, p \in Question : n # m \/ p # q => (answers'[n][p] # 0 <=> Answered(n, p))
    BY <2>1 DEF Answered
  <2> QED BY <2>2, <2>4, <2>5
<1>5. \A n \in Team, p \in Question :
        TicketOf[p] = Capstone /\ AssessmentEvent(n) \in DOMAIN outbox => FindingEvent(n, p) \in DOMAIN outbox
  BY ContentAssumption DEF IInv, EndingExactlyOnce, CompleteIffAnswered, DeliveryPerAnswer, Completed, QuestionsOf
<1>6. Behind(outbox', rank2)
  <2> SUFFICES ASSUME NEW n \in Team, NEW p \in Question
               PROVE  /\ {PointEvent(n, p), FindingEvent(n, p)} \subseteq DOMAIN outbox'
                           => rank2[PointEvent(n, p)] < rank2[FindingEvent(n, p)]
                      /\ TicketOf[p] = Capstone /\ {FindingEvent(n, p), AssessmentEvent(n)} \subseteq DOMAIN outbox'
                           => rank2[FindingEvent(n, p)] < rank2[AssessmentEvent(n)]
    BY DEF Behind
  <2> DEFINE P == PointEvent(n, p)
             F == FindingEvent(n, p)
             A == AssessmentEvent(n)
  <2>1. ASSUME {P, F} \subseteq DOMAIN outbox'
        PROVE  rank2[P] < rank2[F]
    <3>1. CASE n = m /\ p = q
      BY <1>3, <3>1
    <3>2. CASE ~(n = m /\ p = q)
      <4>1. P \in DOMAIN outbox /\ F \in DOMAIN outbox
        BY <1>4, <2>1, <3>2
      <4>2. rank[P] < rank[F] /\ rank2[P] = rank[P] /\ rank2[F] = rank[F]
        BY <1>1, <1>3, <4>1 DEF Behind, Beyond
      <4> QED BY <4>2
    <3> QED BY <3>1, <3>2
  <2>2. ASSUME TicketOf[p] = Capstone, {F, A} \subseteq DOMAIN outbox'
        PROVE  rank2[F] < rank2[A]
    <3>1. CASE A \in DOMAIN outbox
      <4>1. F \in DOMAIN outbox
        BY <1>5, <2>2, <3>1
      <4>2. rank[F] < rank[A] /\ rank2[F] = rank[F] /\ rank2[A] = rank[A]
        BY <1>1, <1>3, <2>2, <3>1, <4>1 DEF Behind, Beyond
      <4> QED BY <4>2
    <3>2. CASE A \notin DOMAIN outbox /\ F \in DOMAIN outbox
      <4>1. SameChain(F, A)
        BY <2>2 DEF SameChain, FindingEvent, AssessmentEvent
      <4>2. A \in DOMAIN outbox' \ DOMAIN outbox
        BY <2>2, <3>2
      <4> HIDE DEF F, A
      <4> QED BY <1>3, <3>2, <4>1, <4>2 DEF Beyond
    <3>3. CASE A \notin DOMAIN outbox /\ F \notin DOMAIN outbox
      <4>1. n = m /\ p = q
        BY <1>4, <2>2, <3>3
      <4> QED BY <1>3, <2>2, <3>3, <4>1
    <3> QED BY <3>1, <3>2, <3>3
  <2> QED BY <2>1, <2>2
<1>7. Prefixed(outbox', delivered, rank2)
  <2>1. delivered \subseteq DOMAIN outbox'
    BY <1>1, <1>3 DEF Prefixed, Beyond
  <2>2. ASSUME NEW e \in delivered, NEW f \in DOMAIN outbox', SameChain(e, f), rank2[f] <= rank2[e]
        PROVE  f \in delivered
    <3>1. e \in DOMAIN outbox /\ rank2[e] \in Nat /\ rank2[f] \in Nat
      BY <1>1, <1>3, <2>1, <2>2 DEF Prefixed, Ranked
    <3>2. f \in DOMAIN outbox
      <4>1. f \notin DOMAIN outbox => rank2[e] < rank2[f]
        BY <1>3, <2>2, <3>1 DEF Beyond
      <4> QED BY <2>2, <3>1, <4>1
    <3>3. rank[f] <= rank[e]
      BY <1>3, <2>2, <3>1, <3>2 DEF Beyond
    <3> QED BY <1>1, <2>2, <3>2, <3>3 DEF Prefixed
  <2> QED BY <2>1, <2>2 DEF Prefixed
<1>8. Ranked(outbox, rank2, len2)'
  BY <1>3 DEF Ranked, SameChain, ChainOf
<1>9. Behind(outbox, rank2)'
  BY <1>6 DEF Behind, PointEvent, FindingEvent, AssessmentEvent
<1>10. Prefixed(outbox, delivered, rank2)'
  BY <1>7 DEF Prefixed, SameChain
<1> QED BY <1>8, <1>9, <1>10 DEF Lined

-----------------------------------------------------------------------------
(* A delivery takes the next row of the line. *)

LEMMA SyncLined ==
  ASSUME Lined, NEW e \in Event, SyncOnce(e), outbox' = outbox
  PROVE  Lined'
<1>1. PICK rank, len : Ranked(outbox, rank, len) /\ Behind(outbox, rank) /\ Prefixed(outbox, delivered, rank)
  BY DEF Lined
<1>2. e \in DOMAIN outbox /\ outbox[e] \subseteq delivered /\ delivered' = delivered \cup {e}
  BY DEF SyncOnce, Eligible
<1>3. ASSUME NEW f \in DOMAIN outbox, SameChain(e, f), rank[f] <= rank[e]
      PROVE  f \in delivered'
  <2>1. rank[e] \in Nat /\ rank[f] \in Nat /\ ChainOf(e) \in Chain /\ ChainOf(f) = ChainOf(e)
    BY <1>1, <1>2, <1>3, EventChain DEF Ranked
  <2>2. CASE rank[f] = rank[e]
    BY <1>1, <1>2, <1>3, <2>2 DEF Ranked
  <2>3. CASE rank[f] < rank[e]
    <3>1. rank[e] - 1 \in Nat /\ rank[e] - 1 < len[ChainOf(e)]
      <4>1. len[ChainOf(e)] \in Nat /\ rank[e] < len[ChainOf(e)]
        BY <1>1, <1>2, <2>1 DEF Ranked
      <4> QED BY <2>1, <2>3, <4>1
    <3>2. PICK g \in DOMAIN outbox : ChainOf(g) = ChainOf(e) /\ rank[g] = rank[e] - 1
      BY <1>1, <2>1, <3>1 DEF Ranked
    <3>3. SameChain(g, e) /\ SameChain(g, f) /\ rank[g] + 1 = rank[e] /\ rank[f] <= rank[g]
      BY <2>1, <2>3, <3>2, EventChain
    <3>4. g \in delivered
      BY <1>1, <1>2, <3>3 DEF Ranked
    <3> QED BY <1>1, <1>2, <3>3, <3>4 DEF Prefixed
  <2> QED BY <1>3, <2>1, <2>2, <2>3
<1>4. Prefixed(outbox, delivered', rank)
  <2>1. delivered' \subseteq DOMAIN outbox
    BY <1>1, <1>2 DEF Prefixed
  <2>2. ASSUME NEW d \in delivered', NEW f \in DOMAIN outbox, SameChain(d, f), rank[f] <= rank[d]
        PROVE  f \in delivered'
    <3>1. CASE d = e
      BY <1>3, <2>2, <3>1
    <3>2. CASE d \in delivered
      BY <1>1, <1>2, <2>2, <3>2 DEF Prefixed
    <3> QED BY <1>2, <2>2, <3>1, <3>2
  <2> QED BY <2>1, <2>2 DEF Prefixed
<1>5. Ranked(outbox, rank, len)' /\ Behind(outbox, rank)'
  BY <1>1 DEF Ranked, Behind, SameChain, ChainOf, PointEvent, FindingEvent, AssessmentEvent
<1>6. Prefixed(outbox, delivered, rank)'
  BY <1>4 DEF Prefixed, SameChain
<1> QED BY <1>5, <1>6 DEF Lined

LEMMA InitLined == Init => Lined
<1> SUFFICES ASSUME Init PROVE Lined
  OBVIOUS
<1> DEFINE roots == {u \in Ticket : Requires[u] = {}}
           rank  == [e \in DOMAIN outbox |-> 0]
           len   == [c \in Chain |-> IF \E e \in DOMAIN outbox : ChainOf(e) = c THEN 1 ELSE 0]
<1>1. /\ DOMAIN outbox = {TicketEvent(u) : u \in roots} /\ DOMAIN outbox \subseteq Event
      /\ \A e \in DOMAIN outbox : outbox[e] = {}
  BY EventTypes DEF Init
<1>2. \A e, f \in DOMAIN outbox : SameChain(e, f) => e = f
  BY <1>1 DEF SameChain, TicketEvent
<1>3. Ranked(outbox, rank, len)
  <2>1. rank \in [DOMAIN outbox -> Nat] /\ len \in [Chain -> Nat]
    OBVIOUS
  <2>2. \A e \in DOMAIN outbox : rank[e] < len[ChainOf(e)]
    BY <1>1, EventChain
  <2>3. \A c \in Chain, r \in Nat : r < len[c] => \E e \in DOMAIN outbox : ChainOf(e) = c /\ rank[e] = r
    OBVIOUS
  <2>4. \A e \in DOMAIN outbox : outbox[e] = {p \in DOMAIN outbox : SameChain(p, e) /\ rank[p] + 1 = rank[e]}
    BY <1>1
  <2> HIDE DEF rank, len
  <2> QED BY <1>1, <1>2, <2>1, <2>2, <2>3, <2>4 DEF Ranked
<1>4. Behind(outbox, rank)
  BY <1>1, EventsDiffer DEF Behind
<1>5. Prefixed(outbox, delivered, rank)
  BY DEF Init, Prefixed
<1> HIDE DEF rank, len
<1> QED BY <1>3, <1>4, <1>5 DEF Lined

LEMMA LinedStep == IInv /\ Lined /\ [Next]_vars => Lined'
<1> SUFFICES ASSUME IInv, Lined, [Next]_vars PROVE Lined'
  OBVIOUS
<1>1. CASE UNCHANGED <<outbox, delivered>>
  BY <1>1 DEF Lined, Ranked, Behind, Prefixed, SameChain, ChainOf, PointEvent, FindingEvent, AssessmentEvent
<1>2. ASSUME NEW e \in Event, SyncOnce(e), outbox' = outbox PROVE Lined'
  BY <1>2, SyncLined
<1>3. ASSUME NEW m \in Team, NEW q \in Question, Answer(m, q) PROVE Lined'
  <2>1. delivered' = delivered
    BY <1>3 DEF Answer
  <2> QED BY <1>3, <2>1, AnswerLined
<1> QED BY <1>1, <1>2, <1>3, QueueSteps, DeliverySteps

LEMMA AlwaysLined == Spec => [](IInv /\ Lined)
<1> QED BY InitIInv, NextIInv, InitLined, LinedStep, PTL DEF Spec

\* Two rows that a worker may lease are never of the same chain.
THEOREM LinesAreServedInTurn == Spec => []OneEligiblePerChain
<1>1. ASSUME Lined, NEW e \in DOMAIN outbox, NEW f \in DOMAIN outbox,
             Eligible(e), Eligible(f), SameChain(e, f)
      PROVE  e = f
  <2>1. PICK rank, len : Ranked(outbox, rank, len) /\ Behind(outbox, rank) /\ Prefixed(outbox, delivered, rank)
    BY <1>1 DEF Lined
  <2>2. ASSUME NEW x \in DOMAIN outbox, NEW y \in DOMAIN outbox, SameChain(x, y),
               x \notin delivered, outbox[y] \subseteq delivered
        PROVE  ~(rank[x] < rank[y])
    <3> SUFFICES ASSUME rank[x] < rank[y]
                 PROVE  FALSE
      OBVIOUS
    <3>1. rank[x] \in Nat /\ rank[y] \in Nat /\ ChainOf(y) \in Chain /\ ChainOf(x) = ChainOf(y)
      BY <2>1, <2>2, EventChain DEF Ranked
    <3>2. rank[y] - 1 \in Nat /\ rank[y] - 1 < len[ChainOf(y)]
      <4>1. len[ChainOf(y)] \in Nat /\ rank[y] < len[ChainOf(y)]
        BY <2>1, <3>1 DEF Ranked
      <4> QED BY <3>1, <4>1
    <3>3. PICK g \in DOMAIN outbox : ChainOf(g) = ChainOf(y) /\ rank[g] = rank[y] - 1
      BY <2>1, <3>1, <3>2 DEF Ranked
    <3>4. SameChain(g, y) /\ SameChain(g, x) /\ rank[g] + 1 = rank[y] /\ rank[x] <= rank[g]
      BY <3>1, <3>3, EventChain
    <3>5. g \in delivered
      BY <2>1, <2>2, <3>4 DEF Ranked
    <3> QED BY <2>1, <2>2, <3>4, <3>5 DEF Prefixed
  <2>3. rank[e] \in Nat /\ rank[f] \in Nat /\ SameChain(f, e)
    BY <1>1, <2>1 DEF Ranked, SameChain
  <2>4. rank[e] = rank[f]
    BY <1>1, <2>2, <2>3 DEF Eligible
  <2> QED BY <1>1, <2>1, <2>4 DEF Ranked
<1>2. Lined => OneEligiblePerChain
  BY <1>1 DEF OneEligiblePerChain
<1> QED BY <1>2, AlwaysLined, PTL

\* A team's ending is delivered after every finding of the capstone, and a
\* finding after its credit.
THEOREM EndingsComeLast == Spec => []AssessmentLast
<1>1. ASSUME IInv, Lined, NEW m \in Team, NEW q \in Question
      PROVE  /\ FindingEvent(m, q) \in delivered => PointEvent(m, q) \in delivered
             /\ AssessmentEvent(m) \in delivered /\ TicketOf[q] = Capstone
                  => FindingEvent(m, q) \in delivered
  <2>1. PICK rank, len : Ranked(outbox, rank, len) /\ Behind(outbox, rank) /\ Prefixed(outbox, delivered, rank)
    BY <1>1 DEF Lined
  <2> DEFINE P == PointEvent(m, q)
             F == FindingEvent(m, q)
             A == AssessmentEvent(m)
  <2>2. SameChain(F, P) /\ (TicketOf[q] = Capstone => SameChain(A, F))
    BY DEF SameChain, PointEvent, FindingEvent, AssessmentEvent
  <2>3. F \in DOMAIN outbox => P \in DOMAIN outbox
    BY <1>1 DEF IInv, DeliveryPerAnswer
  <2>4. A \in DOMAIN outbox /\ TicketOf[q] = Capstone => F \in DOMAIN outbox
    BY <1>1, ContentAssumption
    DEF IInv, EndingExactlyOnce, CompleteIffAnswered, DeliveryPerAnswer, Completed, QuestionsOf
  <2>5. /\ F \in DOMAIN outbox => rank[P] < rank[F]
        /\ A \in DOMAIN outbox /\ TicketOf[q] = Capstone => rank[F] < rank[A]
    BY <2>1, <2>3, <2>4 DEF Behind
  <2>6. \A x \in DOMAIN outbox : rank[x] \in Nat
    BY <2>1 DEF Ranked
  <2>7. delivered \subseteq DOMAIN outbox
    BY <2>1 DEF Prefixed
  <2> HIDE DEF P, F, A
  <2>8. F \in delivered => P \in delivered
    BY <2>1, <2>2, <2>3, <2>5, <2>6, <2>7 DEF Prefixed
  <2>9. A \in delivered /\ TicketOf[q] = Capstone => F \in delivered
    BY <2>1, <2>2, <2>4, <2>5, <2>6, <2>7 DEF Prefixed
  <2> QED BY <2>8, <2>9 DEF P, F, A
<1>2. IInv /\ Lined => AssessmentLast
  BY <1>1 DEF AssessmentLast
<1> QED BY <1>2, AlwaysLined, PTL

-----------------------------------------------------------------------------
(* No chain is stuck.  The first row of a chain that is not delivered waits  *)
(* for nothing in its chain (Ranked); the task it may need was queued when   *)
(* its ticket opened, and is the only row of the ticket's own chain.         *)

AnswersHaveTasks ==
  \A m \in Team, q \in Question : Answered(m, q) => TicketEvent(TicketOf[q]) \in DOMAIN outbox

LEMMA AnswersHaveTasksStep ==
  TypeOK /\ NoStrandedTicket /\ AnswersHaveTasks /\ [Next]_vars => AnswersHaveTasks'
<1> SUFFICES ASSUME TypeOK, NoStrandedTicket, AnswersHaveTasks, [Next]_vars,
                    NEW n \in Team, NEW p \in Question, Answered(n, p)'
             PROVE  TicketEvent(TicketOf[p]) \in DOMAIN outbox'
  BY DEF AnswersHaveTasks, TicketEvent
<1>1. TicketEvent(TicketOf[p]) \in DOMAIN outbox => TicketEvent(TicketOf[p]) \in DOMAIN outbox'
  BY QueueGrows
<1>2. CASE Answered(n, p)
  BY <1>1, <1>2 DEF AnswersHaveTasks
<1>3. ASSUME NEW m \in Team, NEW q \in Question, Answer(m, q), ~Answered(n, p)
      PROVE  TicketEvent(TicketOf[p]) \in DOMAIN outbox
  <2>1. n = m /\ p = q
    <3>1. \A k \in Team, x \in Question : k # m \/ x # q => answers'[k][x] = answers[k][x]
      BY <1>3, AnswerWork
    <3> QED BY <1>3, <3>1 DEF Answered
  <2>2. Open(n, TicketOf[p]) /\ TicketOf[p] \in Ticket
    BY <1>3, <2>1, ContentAssumption DEF Answer, Answerable
  <2> QED BY <2>2 DEF NoStrandedTicket
<1>4. CASE UNCHANGED <<answers, assessed, outbox>>
  BY <1>2, <1>4 DEF Answered
<1> QED BY <1>1, <1>2, <1>3, <1>4, QueueSteps

LEMMA WellOrdered ==
  \E R : /\ IsWellFoundedOn(R, Nat)
         /\ \A x, y \in Nat : y < x => <<y, x>> \in R
<1>1. IsWellFoundedOn(OpToRel(<, Nat), Nat)
  BY NatLessThanWellFounded
<1>2. \A y \in Nat, x \in Nat : y < x => <<y, x>> \in OpToRel(<, Nat)
  BY DEF OpToRel
<1> QED BY <1>1, <1>2

\* A set of numbers has a least element.
LEMMA Least ==
  ASSUME NEW S \in SUBSET Nat, S # {}
  PROVE  \E x \in S : \A y \in S : x <= y
<1>1. PICK R : /\ IsWellFoundedOn(R, Nat)
               /\ \A x, y \in Nat : y < x => <<y, x>> \in R
  BY WellOrdered
<1>2. S \subseteq Nat
  OBVIOUS
<1>3. \E x \in S : \A y \in S : ~ (<<y, x>> \in R)
  BY <1>1, <1>2, WFMin, Zenon
<1>4. PICK x \in S : \A y \in S : ~ (<<y, x>> \in R)
  BY <1>3
<1>5. ASSUME NEW y \in S PROVE x <= y
  <2>1. ~ (y < x)
    BY <1>1, <1>2, <1>4
  <2>2. x \in Nat /\ y \in Nat
    BY <1>2
  <2> QED BY <2>1, <2>2
<1> QED BY <1>5

\* The first row of a chain that is not delivered may be leased.
LEMMA FirstIsEligible ==
  ASSUME Lined, NEW e \in DOMAIN outbox \ delivered
  PROVE  \E f \in DOMAIN outbox : Eligible(f) /\ SameChain(f, e)
<1>1. PICK rank, len : Ranked(outbox, rank, len) /\ Behind(outbox, rank) /\ Prefixed(outbox, delivered, rank)
  BY DEF Lined
<1> DEFINE left == {f \in DOMAIN outbox \ delivered : SameChain(f, e)}
           S == {n \in Nat : \E f \in left : rank[f] = n}
<1>2. \A f \in DOMAIN outbox : rank[f] \in Nat
  BY <1>1 DEF Ranked
<1>3. rank[e] \in S /\ S \in SUBSET Nat
  BY <1>2 DEF SameChain
<1>4. PICK n \in S : \A i \in S : n <= i
  <2> HIDE DEF S
  <2> QED BY <1>3, Least
<1>5. PICK f \in left : rank[f] = n
  OBVIOUS
<1>6. ASSUME NEW p \in outbox[f] PROVE p \in delivered
  <2>1. p \in DOMAIN outbox /\ SameChain(p, f) /\ rank[p] + 1 = rank[f]
    BY <1>1, <1>5 DEF Ranked
  <2>2. p \notin left
    BY <1>2, <1>4, <1>5, <2>1
  <2>3. SameChain(p, e)
    BY <1>5, <2>1 DEF SameChain
  <2> QED BY <2>1, <2>2, <2>3
<1> QED BY <1>5, <1>6 DEF Eligible

\* A row that needs the task of its ticket was queued with or after it.
LEMMA TaskWasQueued ==
  ASSUME IInv, AnswersHaveTasks, NEW f \in DOMAIN outbox, NeedsTask(f)
  PROVE  f.ticket \in Ticket /\ TicketEvent(f.ticket) \in DOMAIN outbox
<1>1. \/ \E m \in Team, q \in Question : f = FindingEvent(m, q)
      \/ \E m \in Team : f = AssessmentEvent(m)
  <2>1. f \in Event
    BY DEF IInv, TypeOK
  <2>2. \A t \in Ticket : ~NeedsTask(TicketEvent(t))
    BY DEF NeedsTask, TicketEvent
  <2>3. \A m \in Team, q \in Question : ~NeedsTask(PointEvent(m, q))
    BY DEF NeedsTask, PointEvent
  <2> QED BY <2>1, <2>2, <2>3 DEF Event
<1>2. ASSUME NEW m \in Team, NEW q \in Question, f = FindingEvent(m, q)
      PROVE  f.ticket \in Ticket /\ TicketEvent(f.ticket) \in DOMAIN outbox
  <2>1. f.ticket = TicketOf[q]
    BY <1>2 DEF FindingEvent
  <2> QED BY <1>2, <2>1, ContentAssumption DEF AnswersHaveTasks, IInv, DeliveryPerAnswer
<1>3. ASSUME NEW m \in Team, f = AssessmentEvent(m)
      PROVE  f.ticket \in Ticket /\ TicketEvent(f.ticket) \in DOMAIN outbox
  <2>1. f.ticket = Capstone
    BY <1>3 DEF AssessmentEvent
  <2>2. PICK q \in Question : TicketOf[q] = Capstone
    BY ContentAssumption
  <2>3. Completed(m) = Ticket
    BY <1>3 DEF IInv, EndingExactlyOnce
  <2>4. Answered(m, q)
    BY <2>2, <2>3, ContentAssumption DEF IInv, CompleteIffAnswered, Completed, QuestionsOf
  <2> QED BY <2>1, <2>2, <2>4, ContentAssumption DEF AnswersHaveTasks
<1> QED BY <1>1, <1>2, <1>3

\* Whatever was queued, in whatever order by whatever teams, every chain with work left
\* has a row that can be delivered, or waits only for its ticket's task, which can be.
THEOREM ChainsNeverStick == Spec => []ChainsAdvance
<1>1. ASSUME IInv, Lined, AnswersHaveTasks, NEW e \in DOMAIN outbox \ delivered
      PROVE  \E f \in DOMAIN outbox :
               MayDeliver(f) /\ (SameChain(f, e) \/ f = TicketEvent(e.ticket))
  <2>1. PICK f \in DOMAIN outbox : Eligible(f) /\ SameChain(f, e)
    BY <1>1, FirstIsEligible
  <2>2. CASE NeedsTask(f) => f.ticket \in irisTask
    BY <2>1, <2>2 DEF MayDeliver
  <2>3. CASE NeedsTask(f) /\ f.ticket \notin irisTask
    <3> DEFINE t == f.ticket
    <3>1. t \in Ticket /\ TicketEvent(t) \in DOMAIN outbox
      BY <1>1, <2>3, TaskWasQueued
    <3>2. TicketEvent(t) \notin delivered
      <4>1. \E m \in Team : TRUE
        BY <1>1, <2>3 DEF IInv, TypeOK, Event, NeedsTask, TicketEvent
      <4> QED BY <1>1, <2>3, <3>1, <4>1 DEF IInv, NoStrandedTicket
    <3>3. PICK g \in DOMAIN outbox : Eligible(g) /\ SameChain(g, TicketEvent(t))
      BY <1>1, <3>1, <3>2, FirstIsEligible
    <3>4. g = TicketEvent(t)
      <4>1. g \in Event /\ g.team = None /\ g.ticket = t
        BY <1>1, <3>3 DEF IInv, TypeOK, SameChain, TicketEvent
      <4> QED BY <4>1, NoneAssumption DEF Event, TicketEvent, PointEvent, FindingEvent, AssessmentEvent
    <3>5. ~NeedsTask(g)
      BY <3>4 DEF NeedsTask, TicketEvent
    <3>6. t = e.ticket
      BY <2>1 DEF SameChain
    <3> QED BY <3>3, <3>4, <3>5, <3>6 DEF MayDeliver
  <2> QED BY <2>2, <2>3
<1>2. IInv /\ Lined /\ AnswersHaveTasks => ChainsAdvance
  BY <1>1 DEF ChainsAdvance
<1>3. Init => AnswersHaveTasks
  BY DEF Init, AnswersHaveTasks, Answered
<1>4. IInv /\ AnswersHaveTasks /\ [Next]_vars => AnswersHaveTasks'
  BY AnswersHaveTasksStep DEF IInv
<1> QED BY <1>2, <1>3, <1>4, AlwaysLined, PTL DEF Spec
=============================================================================
