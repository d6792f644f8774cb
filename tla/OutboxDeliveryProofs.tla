------------------------ MODULE OutboxDeliveryProofs ------------------------
(***************************************************************************)
(* Theorems about the delivery of the outbox (State.sync_once, the sink    *)
(* and the handlers of the applications), for any number of workers,       *)
(* requests and faults: it implements the progress store, whose delivery   *)
(* is one step, and every event has its effect once, in order.             *)
(*                                                                         *)
(* What is known of a row when it is leased (Deliverable) and what is      *)
(* learnt on the way (Shown, Tasked, a receipt) is never undone (Grows),   *)
(* so it also holds of requests that were left behind by a crash, a lost   *)
(* answer or an expired lease, and are worked on much later.               *)
(*                                                                         *)
(* The last section is about the thread that makes the deliveries: how     *)
(* long a row that is due may have to wait for it (SyncLoop).              *)
(***************************************************************************)
EXTENDS OutboxDelivery, ExerciseStateProofs

Stage == {"idle", "publishing", "sending", "sent", "answered"}

Call ==
  [at : Stage, row : Event \cup {None}, task : BOOLEAN, slot : Slot \cup {None}, id : Nat]

DTypes ==
  /\ lease \in [Event -> Worker \cup {None}]
  /\ worker \in [Worker -> Call]
  /\ request \in [Slot -> Request \cup {None}]
  /\ effects \in [Event -> Nat]
  /\ receipts \in [Event -> {0, 1}]
  /\ remote \in [Event -> Nat]

\* The row could be leased at some time, and can be ever since.
Deliverable(e) == e \in Event /\ provisioned /\ e \in DOMAIN outbox /\ outbox[e] \subseteq delivered

\* Its evidence is public; the task it is written on exists.
Shown(e) == e.kind = "ticket" => e.ticket \in published
Tasked(e) == NeedsTask(e) => e.ticket \in irisTask

CallSound(w) ==
  LET c == worker[w] IN
  /\ c.at # "idle" => Deliverable(c.row) /\ (c.task = TRUE => c.row.ticket \in irisTask)
  /\ c.at = "publishing" => c.row.kind = "ticket"
  /\ c.at \in {"sending", "sent", "answered"} => Shown(c.row)
  /\ c.at = "answered" => Tasked(c.row) /\ receipts[c.row] = 1 /\ c.id = 1 /\ c.row \notin stale

RequestSound(s) ==
  LET r == request[s] IN
  r # None =>
    /\ Deliverable(r.row) /\ Shown(r.row) /\ (r.task = TRUE => r.row.ticket \in irisTask)
    /\ r.at \in {"working", "clearing", "answered"} => Tasked(r.row)
    /\ r.at \in {"clearing", "answered"} => receipts[r.row] = 1 /\ r.id = 1
    /\ r.at = "answered" => r.row \notin stale

\* A worker that waits for an answer waits at a slot of its own that holds its row.
Linked(w) ==
  LET c == worker[w] IN
  IF c.at = "sent"
    THEN c.slot \in Slot /\ request[c.slot] # None /\ request[c.slot].row = c.row
    ELSE c.slot = None

Unshared ==
  \A v, w \in Worker : worker[v].slot = worker[w].slot => v = w \/ worker[v].slot = None

EventSound(e) ==
  /\ effects[e] = receipts[e]
  /\ lease[e] # None => e \notin delivered /\ Deliverable(e)
  /\ receipts[e] = 1 => Deliverable(e) /\ Shown(e) /\ Tasked(e)
  /\ e \in delivered => receipts[e] = 1 /\ e \notin stale
  /\ remote[e] = IF e \in delivered THEN receipts[e] ELSE 0
  /\ e \in stale => e.kind = "point" /\ receipts[e] = 1

DInv ==
  /\ IInv /\ QuiescentSite /\ DTypes
  /\ \A w \in Worker : CallSound(w) /\ Linked(w)
  /\ Unshared
  /\ \A s \in Slot : RequestSound(s)
  /\ \A e \in Event : EventSound(e)

LEMMA InitDInv == DInit => DInv
<1> SUFFICES ASSUME DInit
             PROVE  DInv
  OBVIOUS
<1>1. IInv /\ QuiescentSite
  BY InitIInv DEF DInit, Init, QuiescentSite
<1>2. Idle \in Call /\ Idle.at = "idle" /\ Idle.slot = None
  BY DEF Idle, Call, Stage
<1>3. DTypes
  BY <1>2 DEF DInit, DTypes
<1>4. \A w \in Worker : worker[w] = Idle
  BY DEF DInit
<1>5. \A w \in Worker : CallSound(w) /\ Linked(w)
  BY <1>2, <1>4 DEF CallSound, Linked
<1>6. Unshared
  BY <1>2, <1>4 DEF Unshared
<1>7. \A s \in Slot : RequestSound(s)
  BY DEF DInit, RequestSound
<1>8. \A e \in Event : EventSound(e)
  BY DEF DInit, Init, EventSound
<1> QED BY <1>1, <1>3, <1>5, <1>6, <1>7, <1>8 DEF DInv

-----------------------------------------------------------------------------
(* What no step takes back. *)

Grows ==
  /\ \A e \in DOMAIN outbox : e \in DOMAIN outbox' /\ outbox'[e] = outbox[e]
  /\ delivered \subseteq delivered' /\ irisTask \subseteq irisTask' /\ published \subseteq published'
  /\ provisioned => provisioned'
  /\ \A e \in Event : receipts[e] = 1 => receipts'[e] = 1 /\ (e \notin stale => e \notin stale')

LEMMA CallKept ==
  ASSUME DInv, Grows, NEW w \in Worker, worker'[w] = worker[w]
  PROVE  CallSound(w)'
<1>1. CallSound(w)
  BY DEF DInv
<1> QED BY <1>1 DEF CallSound, Grows, Deliverable, Shown, Tasked, NeedsTask

LEMMA RequestKept ==
  ASSUME DInv, Grows, NEW s \in Slot, request'[s] = request[s]
  PROVE  RequestSound(s)'
<1>1. RequestSound(s)
  BY DEF DInv
<1> QED BY <1>1 DEF RequestSound, Grows, Deliverable, Shown, Tasked, NeedsTask

LEMMA EventKept ==
  ASSUME DInv, Grows, NEW e \in Event, lease'[e] \in {lease[e], None},
         effects'[e] = effects[e], receipts'[e] = receipts[e], remote'[e] = remote[e],
         e \in delivered' <=> e \in delivered, e \in stale' => e \in stale
  PROVE  EventSound(e)'
<1>1. EventSound(e)
  BY DEF DInv
<1> QED BY <1>1 DEF EventSound, Grows, Deliverable, Shown, Tasked, NeedsTask

\* The store's own invariant is kept by every step that is a step of the store.
LEMMA StoreKept ==
  ASSUME DInv, [Next]_vars
  PROVE  IInv' /\ QuiescentSite'
BY NextIInv, QuiescentStep DEF DInv

\* A step that leaves the store alone and adds to published, receipts and effects only.
LEMMA StoreUnchanged ==
  ASSUME DInv, UNCHANGED vars, published \subseteq published',
         \A e \in Event : receipts[e] = 1 => receipts'[e] = 1 /\ (e \notin stale => e \notin stale')
  PROVE  Grows /\ IInv' /\ QuiescentSite'
<1>1. Grows
  BY DEF Grows, vars, controlVars, deliveryVars
<1> QED BY <1>1, StoreKept

-----------------------------------------------------------------------------
(* Steps of participants and operators. *)

LEMMA StoreStepKeeps ==
  ASSUME DInv, Operator \/ Participant, UNCHANGED <<syncVars, appVars, remote>>
  PROVE  DInv'
<1>1. UNCHANGED <<delivered, irisTask>> /\ (provisioned => provisioned')
  <2>1. ASSUME NEW m \in Team, NEW q \in Question, Answer(m, q)
        PROVE  UNCHANGED <<delivered, irisTask, provisioned>>
    BY <2>1 DEF Answer, controlVars
  <2>2. CASE Participant
    BY <2>1, <2>2 DEF Participant, Claim, Release, UnlockHint, deliveryVars, controlVars
  <2>3. CASE Operator
    BY <2>3 DEF Operator, RegisterTeam, Provision, SetMode, Fence, Unfence, ActivateGeneration,
       BeginExport, EndExport, Release, deliveryVars, controlVars
  <2> QED BY <2>2, <2>3
<1>2. Next
  BY DEF Next
<1>3. UNCHANGED <<lease, worker, request, published, effects, receipts, stale, remote>>
  BY DEF syncVars, appVars
<1>4. Grows
  BY <1>1, <1>2, <1>3, QueueGrows DEF Grows
<1>5. IInv' /\ QuiescentSite'
  BY <1>2, StoreKept
<1>6. DTypes'
  BY <1>3 DEF DInv, DTypes
<1>7. \A w \in Worker : CallSound(w)'
  BY <1>3, <1>4, CallKept
<1>8. Unshared' /\ \A w \in Worker : Linked(w)'
  BY <1>3 DEF DInv, Unshared, Linked
<1>9. \A s \in Slot : RequestSound(s)'
  BY <1>3, <1>4, RequestKept
<1>10. \A e \in Event : EventSound(e)'
  BY <1>1, <1>3, <1>4, EventKept
<1> QED BY <1>5, <1>6, <1>7, <1>8, <1>9, <1>10 DEF DInv

-----------------------------------------------------------------------------
(* Steps of a worker. *)

\* A call that is not left waiting for an answer.
LEMMA CallMoves ==
  ASSUME DInv, Grows, IInv', QuiescentSite', NEW w \in Worker, NEW c \in Call,
         worker' = [worker EXCEPT ![w] = c], c.at # "sent", c.slot = None, CallSound(w)',
         UNCHANGED <<request, effects, receipts>>,
         lease' \in [Event -> Worker \cup {None}], remote' \in [Event -> Nat],
         \A e \in Event : EventSound(e)'
  PROVE  DInv'
<1>1. worker \in [Worker -> Call]
  BY DEF DInv, DTypes
<1>2. worker'[w] = c /\ \A v \in Worker \ {w} : worker'[v] = worker[v]
  BY <1>1
<1>3. DTypes'
  BY <1>1 DEF DInv, DTypes
<1>4. \A v \in Worker : CallSound(v)'
  BY <1>2, CallKept
<1>5. \A v \in Worker : Linked(v)'
  BY <1>2 DEF DInv, Linked
<1>6. Unshared'
  BY <1>2 DEF DInv, Unshared
<1>7. \A s \in Slot : RequestSound(s)'
  BY RequestKept
<1> QED BY <1>3, <1>4, <1>5, <1>6, <1>7 DEF DInv

\* A call ends, for whatever reason, without effect on the store.
LEMMA CallEnds ==
  ASSUME DInv, NEW w \in Worker, worker' = [worker EXCEPT ![w] = Idle], UNCHANGED <<vars, appVars, remote>>,
         lease' = lease \/ lease' = [lease EXCEPT ![worker[w].row] = None]
  PROVE  DInv'
<1>1. UNCHANGED <<delivered, request, published, effects, receipts, stale, remote>>
  BY DEF vars, appVars, deliveryVars
<1>2. Grows /\ IInv' /\ QuiescentSite'
  BY <1>1, StoreUnchanged
<1>3. Idle \in Call /\ Idle.at = "idle" /\ Idle.slot = None
  BY DEF Idle, Call, Stage
<1>4. worker'[w] = Idle
  BY DEF DInv, DTypes
<1>5. CallSound(w)'
  BY <1>3, <1>4 DEF CallSound
<1>6. lease' \in [Event -> Worker \cup {None}] /\ remote' \in [Event -> Nat]
      /\ \A e \in Event : lease'[e] \in {lease[e], None}
  BY <1>1 DEF DInv, DTypes
<1>7. \A e \in Event : EventSound(e)'
  BY <1>1, <1>2, <1>6, EventKept
<1> QED BY <1>1, <1>2, <1>3, <1>5, <1>6, <1>7, CallMoves

LEMMA LeaseKeeps ==
  ASSUME DInv, NEW w \in Worker, NEW e \in Event, Lease(w, e)
  PROVE  DInv'
<1>1. /\ UNCHANGED <<vars, appVars, remote>> /\ lease' = [lease EXCEPT ![e] = w]
      /\ UNCHANGED <<delivered, request, published, effects, receipts, stale, provisioned, outbox, irisTask>>
  BY DEF Lease, vars, appVars, controlVars, deliveryVars
<1>2. Grows /\ IInv' /\ QuiescentSite'
  BY <1>1, StoreUnchanged
<1>3. PICK c : /\ c = [Idle EXCEPT !.at = FirstStage(e), !.row = e, !.task = e.ticket \in irisTask]
               /\ worker' = [worker EXCEPT ![w] = c]
  BY DEF Lease
<1>4. c \in Call /\ c.at = FirstStage(e) /\ c.row = e /\ c.slot = None
      /\ (c.task = TRUE => e.ticket \in irisTask)
  <2>1. FirstStage(e) \in {"publishing", "sending"}
    BY DEF FirstStage
  <2>2. CASE e.ticket \in irisTask
    <3>0. (e.ticket \in irisTask) = TRUE
      BY <2>2
    <3>1. c = [at |-> FirstStage(e), row |-> e, task |-> TRUE, slot |-> None, id |-> 0]
      BY <1>3, <3>0 DEF Idle
    <3> QED BY <2>1, <2>2, <3>1 DEF Call, Stage
  <2>3. CASE e.ticket \notin irisTask
    <3>0. (e.ticket \in irisTask) = FALSE
      BY <2>3
    <3>1. c = [at |-> FirstStage(e), row |-> e, task |-> FALSE, slot |-> None, id |-> 0]
      BY <1>3, <3>0 DEF Idle
    <3> QED BY <2>1, <3>1 DEF Call, Stage
  <2> QED BY <2>2, <2>3
<1>5. Deliverable(e) /\ e \notin delivered
  BY DEF Lease, Leasable, Eligible, Deliverable
<1>6. Deliverable(e)'
  BY <1>1, <1>5 DEF Deliverable
<1>7. worker'[w] = c
  BY <1>3 DEF DInv, DTypes
<1>8. CallSound(w)'
  BY <1>1, <1>4, <1>6, <1>7 DEF CallSound, FirstStage, Shown
<1>9. lease' \in [Event -> Worker \cup {None}] /\ lease'[e] = w
      /\ \A f \in Event \ {e} : lease'[f] = lease[f]
  BY <1>1 DEF DInv, DTypes
<1>10. ASSUME NEW f \in Event
       PROVE  EventSound(f)'
  <2>1. CASE f = e
    <3>1. EventSound(e)
      BY DEF DInv
    <3> QED BY <1>1, <1>5, <1>6, <2>1, <3>1 DEF EventSound, Deliverable, Shown, Tasked, NeedsTask
  <2>2. CASE f # e
    BY <1>1, <1>2, <1>9, <2>2, EventKept
  <2> QED BY <2>1, <2>2
<1>11. c.at # "sent" /\ remote' \in [Event -> Nat]
  BY <1>1, <1>4 DEF FirstStage, DInv, DTypes
<1> QED BY <1>1, <1>2, <1>3, <1>4, <1>8, <1>9, <1>10, <1>11, CallMoves

LEMMA PublishKeeps ==
  ASSUME DInv, NEW w \in Worker, Publish(w)
  PROVE  DInv'
<1>1. /\ UNCHANGED <<vars, lease, request, effects, receipts, stale, remote, delivered>>
      /\ published' = published \cup {worker[w].row.ticket} /\ worker[w].at = "publishing"
  BY DEF Publish, At, vars, deliveryVars
<1>2. Grows /\ IInv' /\ QuiescentSite'
  BY <1>1, StoreUnchanged
<1>3. worker[w] \in Call /\ worker \in [Worker -> Call]
      /\ lease' \in [Event -> Worker \cup {None}] /\ remote' \in [Event -> Nat]
  BY <1>1 DEF DInv, DTypes
<1> DEFINE c == [worker[w] EXCEPT !.at = "sending"]
<1>4. [worker[w] EXCEPT !.at = "sending"] \in Call
  BY <1>3 DEF Call, Stage
<1>5. /\ c \in Call /\ worker' = [worker EXCEPT ![w] = c]
      /\ c.at = "sending" /\ c.row = worker[w].row /\ c.task = worker[w].task /\ c.slot = worker[w].slot
  BY <1>3, <1>4 DEF Publish, Call
<1> HIDE DEF c
<1>6. worker'[w] = c /\ c.slot = None
  BY <1>1, <1>3, <1>5 DEF DInv, Linked
<1>7. CallSound(w)'
  <2>1. CallSound(w)
    BY DEF DInv
  <2> QED BY <1>1, <1>2, <1>5, <1>6, <2>1 DEF CallSound, Grows, Deliverable, Shown
<1>8. \A e \in Event : EventSound(e)'
  BY <1>1, <1>2, EventKept
<1> QED BY <1>1, <1>2, <1>3, <1>5, <1>6, <1>7, <1>8, CallMoves

\* The steps between a worker and the slot of its request: the call becomes c, the slot r.
LEMMA SlotMoves ==
  ASSUME DInv, NEW w \in Worker, NEW c \in Call, NEW s \in Slot, NEW r \in Request \cup {None},
         worker' = [worker EXCEPT ![w] = c], request' = [request EXCEPT ![s] = r],
         UNCHANGED <<vars, published, effects, receipts, stale, remote>>,
         lease' = lease \/ lease' = [lease EXCEPT ![worker[w].row] = None],
         \A v \in Worker \ {w} : worker[v].slot # s,
         IF c.at = "sent" THEN c.slot = s /\ r # None /\ r.row = c.row ELSE c.slot = None,
         CallSound(w)', RequestSound(s)'
  PROVE  DInv'
<1>1. UNCHANGED <<delivered, published, effects, receipts, stale, remote>>
  BY DEF vars, deliveryVars
<1>2. Grows /\ IInv' /\ QuiescentSite'
  BY <1>1, StoreUnchanged
<1>3. worker'[w] = c /\ \A v \in Worker \ {w} : worker'[v] = worker[v]
  BY DEF DInv, DTypes
<1>4. request'[s] = r /\ \A x \in Slot \ {s} : request'[x] = request[x]
  BY DEF DInv, DTypes
<1>5. DTypes'
  BY <1>1 DEF DInv, DTypes
<1>6. \A v \in Worker : CallSound(v)'
  BY <1>2, <1>3, CallKept
<1>7. \A x \in Slot : RequestSound(x)'
  BY <1>2, <1>4, RequestKept
<1>8. \A v \in Worker : Linked(v)'
  <2>1. Linked(w)'
    BY <1>3, <1>4 DEF Linked
  <2>2. ASSUME NEW v \in Worker \ {w}
        PROVE  Linked(v)'
    <3>1. Linked(v) /\ worker[v].slot # s
      BY DEF DInv
    <3> QED BY <1>3, <1>4, <3>1 DEF Linked
  <2> QED BY <2>1, <2>2
<1>9. Unshared'
  <2>1. s # None
    BY DeliveryAssumption
  <2>2. c.slot \in {s, None}
    OBVIOUS
  <2> QED BY <1>3, <2>1, <2>2 DEF DInv, Unshared
<1>10. lease' \in [Event -> Worker \cup {None}] /\ \A e \in Event : lease'[e] \in {lease[e], None}
  BY DEF DInv, DTypes
<1>11. \A e \in Event : EventSound(e)'
  BY <1>1, <1>2, <1>10, EventKept
<1> QED BY <1>2, <1>5, <1>6, <1>7, <1>8, <1>9, <1>11 DEF DInv

\* No free slot is waited at, and the slot a worker waits at is its own.
LEMMA FreeSlot ==
  ASSUME DInv, NEW s \in Slot, request[s] = None
  PROVE  \A v \in Worker : worker[v].slot # s
<1>1. s # None /\ \A v \in Worker : Linked(v)
  BY DeliveryAssumption DEF DInv
<1> QED BY <1>1 DEF Linked

LEMMA OwnSlot ==
  ASSUME DInv, NEW w \in Worker, worker[w].at = "sent"
  PROVE  \E s \in Slot :
           /\ s = worker[w].slot
           /\ request[s] # None /\ request[s] \in Request /\ request[s].row = worker[w].row
           /\ \A v \in Worker \ {w} : worker[v].slot # s
<1>1. worker[w].slot \in Slot /\ request[worker[w].slot] # None
      /\ request[worker[w].slot].row = worker[w].row
  BY DEF DInv, Linked
<1>2. worker[w].slot # None
  BY <1>1, DeliveryAssumption
<1>3. \A v \in Worker \ {w} : worker[v].slot # worker[w].slot
  BY <1>2 DEF DInv, Unshared
<1>4. request[worker[w].slot] \in Request
  BY <1>1 DEF DInv, DTypes
<1> QED BY <1>1, <1>3, <1>4

LEMMA SendKeeps ==
  ASSUME DInv, NEW w \in Worker, NEW s \in Slot, Send(w, s)
  PROVE  DInv'
<1>1. /\ worker[w].at = "sending" /\ request[s] = None
      /\ UNCHANGED <<vars, lease, published, effects, receipts, stale, remote>>
  BY DEF Send, At
<1>2. worker[w] \in Call /\ worker \in [Worker -> Call] /\ request \in [Slot -> Request \cup {None}]
  BY DEF DInv, DTypes
<1>3. /\ Deliverable(worker[w].row) /\ Shown(worker[w].row)
      /\ (worker[w].task = TRUE => worker[w].row.ticket \in irisTask)
  BY <1>1 DEF DInv, CallSound
<1> DEFINE c == [worker[w] EXCEPT !.at = "sent", !.slot = s]
           r == [row |-> worker[w].row, task |-> worker[w].task, at |-> "arrived", id |-> 0]
<1>4. [worker[w] EXCEPT !.at = "sent", !.slot = s] \in Call
  BY <1>2 DEF Call, Stage
<1>5. /\ c \in Call /\ worker' = [worker EXCEPT ![w] = c]
      /\ c.at = "sent" /\ c.slot = s /\ c.row = worker[w].row /\ c.task = worker[w].task
  BY <1>2, <1>4 DEF Send, Call
<1>6. /\ r \in Request /\ request' = [request EXCEPT ![s] = r]
      /\ r.at = "arrived" /\ r.row = worker[w].row /\ r.task = worker[w].task
  BY <1>2, <1>3 DEF Send, Request, Call, Deliverable
<1> HIDE DEF c, r
<1>7. r # None
  BY <1>6, DeliveryAssumption
<1>8. worker'[w] = c /\ request'[s] = r
  BY <1>2, <1>5, <1>6
<1>9. UNCHANGED <<provisioned, outbox, delivered, irisTask, published>>
  BY <1>1 DEF vars, controlVars, deliveryVars
<1>10. CallSound(w)'
  BY <1>3, <1>5, <1>8, <1>9 DEF CallSound, Deliverable, Shown
<1>11. RequestSound(s)'
  BY <1>3, <1>6, <1>8, <1>9 DEF RequestSound, Deliverable, Shown
<1>12. \A v \in Worker \ {w} : worker[v].slot # s
  BY <1>1, FreeSlot
<1> QED BY <1>1, <1>5, <1>6, <1>7, <1>10, <1>11, <1>12, SlotMoves

LEMMA ReceiveKeeps ==
  ASSUME DInv, NEW w \in Worker, Receive(w)
  PROVE  DInv'
<1>0. worker[w].at = "sent"
  BY DEF Receive, At
<1>3. PICK s \in Slot :
        /\ s = worker[w].slot
        /\ request[s] # None /\ request[s] \in Request /\ request[s].row = worker[w].row
        /\ \A v \in Worker \ {w} : worker[v].slot # s
  BY <1>0, OwnSlot
<1>1. /\ request[s].at = "answered"
      /\ UNCHANGED <<vars, lease, published, effects, receipts, stale, remote>>
      /\ request' = [request EXCEPT ![s] = None]
  BY <1>3 DEF Receive
<1>2. worker[w] \in Call /\ worker \in [Worker -> Call] /\ request \in [Slot -> Request \cup {None}]
  BY DEF DInv, DTypes
<1>4. /\ Deliverable(worker[w].row) /\ Shown(worker[w].row) /\ Tasked(worker[w].row)
      /\ receipts[worker[w].row] = 1 /\ request[s].id = 1 /\ worker[w].row \notin stale
  BY <1>1, <1>3 DEF DInv, RequestSound
<1>5. worker[w].task = TRUE => worker[w].row.ticket \in irisTask
  BY <1>0 DEF DInv, CallSound
<1> DEFINE c == [worker[w] EXCEPT !.at = "answered", !.slot = None, !.id = request[s].id]
<1>6. [worker[w] EXCEPT !.at = "answered", !.slot = None, !.id = request[s].id] \in Call
  BY <1>2, <1>3 DEF Call, Stage, Request
<1>7. /\ c \in Call /\ worker' = [worker EXCEPT ![w] = c]
      /\ c.at = "answered" /\ c.slot = None /\ c.row = worker[w].row /\ c.task = worker[w].task
      /\ c.id = request[s].id
  BY <1>2, <1>3, <1>6 DEF Receive, Call
<1> HIDE DEF c
<1>8. worker'[w] = c /\ request'[s] = None
  BY <1>1, <1>2, <1>3, <1>7
<1>9. UNCHANGED <<provisioned, outbox, delivered, irisTask, published, receipts, stale>>
  BY <1>1 DEF vars, controlVars, deliveryVars
<1>10. CallSound(w)'
  BY <1>4, <1>5, <1>7, <1>8, <1>9 DEF CallSound, Deliverable, Shown, Tasked, NeedsTask
<1>11. RequestSound(s)'
  BY <1>8 DEF RequestSound
<1> QED BY <1>1, <1>3, <1>7, <1>10, <1>11, SlotMoves

LEMMA RefusedKeeps ==
  ASSUME DInv, NEW w \in Worker, Refused(w)
  PROVE  DInv'
<1>0. worker[w].at = "sent"
  BY DEF Refused, At
<1>2. PICK s \in Slot : s = worker[w].slot /\ \A v \in Worker \ {w} : worker[v].slot # s
  BY <1>0, OwnSlot
<1>1. /\ worker' = [worker EXCEPT ![w] = Idle]
      /\ UNCHANGED <<vars, published, effects, receipts, stale, remote>>
      /\ request' = [request EXCEPT ![s] = None]
      /\ lease' = lease \/ lease' = [lease EXCEPT ![worker[w].row] = None]
  BY <1>2 DEF Refused, GiveBack
<1>3. Idle \in Call /\ Idle.at = "idle" /\ Idle.slot = None
  BY DEF Idle, Call, Stage
<1>4. worker'[w] = Idle /\ request'[s] = None
  BY <1>1, <1>2 DEF DInv, DTypes
<1>5. CallSound(w)' /\ RequestSound(s)'
  BY <1>3, <1>4 DEF CallSound, RequestSound
<1> QED BY <1>1, <1>2, <1>3, <1>5, SlotMoves

\* The step that counts is the store's delivery: the row is as eligible as when it
\* was leased, no export can have begun over it, and its task exists.
LEMMA AcknowledgeDelivers ==
  ASSUME DInv, NEW w \in Worker, Acknowledge(w)
  PROVE  \E e \in Event : e = worker[w].row /\ SyncOnce(e)
<1>1. worker[w].at = "answered" /\ lease[worker[w].row] = w
  BY DEF Acknowledge, At
<1>2. PICK e \in Event : e = worker[w].row /\ Deliverable(e) /\ Tasked(e)
  BY <1>1 DEF DInv, CallSound, Deliverable
<1>3. e \notin delivered
  <2>1. lease[e] # None
    BY <1>1, <1>2, DeliveryAssumption
  <2> QED BY <2>1 DEF DInv, EventSound
<1>4. exportToken = None
  BY <1>2, <1>3 DEF DInv, QuiescentSite, Drained, Deliverable
<1>5. SyncOnce(e)
  BY <1>2, <1>3, <1>4 DEF Acknowledge, SyncOnce, Eligible, Deliverable, Tasked, stateVars
<1> QED BY <1>2, <1>5

LEMMA AcknowledgeKeeps ==
  ASSUME DInv, NEW w \in Worker, Acknowledge(w)
  PROVE  DInv'
<1>1. PICK e \in Event : e = worker[w].row /\ SyncOnce(e)
  BY AcknowledgeDelivers
<1>2. /\ worker[w].at = "answered" /\ worker' = [worker EXCEPT ![w] = Idle]
      /\ lease' = [lease EXCEPT ![e] = None] /\ remote' = [remote EXCEPT ![e] = worker[w].id]
      /\ delivered' = delivered \cup {e}
      /\ UNCHANGED <<request, published, effects, receipts, stale>>
  BY <1>1 DEF Acknowledge, At, appVars
<1>3. worker[w].id = 1 /\ receipts[e] = 1 /\ e \notin stale
  BY <1>1, <1>2 DEF DInv, CallSound
<1>4. [Next]_vars
  BY <1>1 DEF Next
<1>5. Grows /\ IInv' /\ QuiescentSite'
  <2>1. provisioned' = provisioned /\ delivered \subseteq delivered' /\ irisTask \subseteq irisTask'
    BY <1>1 DEF SyncOnce, controlVars
  <2> QED BY <1>2, <1>4, <2>1, QueueGrows, StoreKept DEF Grows
<1>6. Idle \in Call /\ Idle.at = "idle" /\ Idle.slot = None
  BY DEF Idle, Call, Stage
<1>7. worker'[w] = Idle
  BY <1>2 DEF DInv, DTypes
<1>8. CallSound(w)'
  BY <1>6, <1>7 DEF CallSound
<1>9. /\ lease' \in [Event -> Worker \cup {None}] /\ remote' \in [Event -> Nat]
      /\ lease'[e] = None /\ remote'[e] = 1
      /\ \A f \in Event \ {e} : lease'[f] = lease[f] /\ remote'[f] = remote[f]
  BY <1>2, <1>3 DEF DInv, DTypes
<1>10. ASSUME NEW f \in Event
       PROVE  EventSound(f)'
  <2>1. CASE f = e
    <3>1. EventSound(e)
      BY DEF DInv
    <3> QED
      BY <1>2, <1>3, <1>5, <1>9, <2>1, <3>1 DEF EventSound, Grows, Deliverable, Shown, Tasked, NeedsTask
  <2>2. CASE f # e
    BY <1>2, <1>5, <1>9, <2>2, EventKept
  <2> QED BY <2>1, <2>2
<1> QED BY <1>2, <1>5, <1>6, <1>8, <1>9, <1>10, CallMoves

\* What leaves no trace in the store and the applications.
LEMMA QuietKeeps ==
  ASSUME DInv, NEW w \in Worker, Discard(w) \/ GiveUp(w) \/ Crash(w) \/ Renew(w)
  PROVE  DInv'
<1>1. CASE Discard(w) \/ GiveUp(w) \/ Crash(w)
  <2>1. /\ worker' = [worker EXCEPT ![w] = Idle] /\ UNCHANGED <<vars, appVars, remote>>
        /\ lease' = lease \/ lease' = [lease EXCEPT ![worker[w].row] = None]
    BY <1>1 DEF Discard, GiveUp, GiveBack, Crash
  <2> QED BY <2>1, CallEnds
<1>2. CASE Renew(w)
  <2>1. UNCHANGED <<vars, lease, worker, appVars, remote>>
    BY <1>2 DEF Renew
  <2>2. Grows /\ IInv' /\ QuiescentSite'
    BY <2>1, StoreUnchanged DEF appVars
  <2> QED BY <2>1, <2>2 DEF DInv, DTypes, CallSound, Linked, Unshared, RequestSound, EventSound,
             Deliverable, Shown, Tasked, appVars, vars, controlVars, deliveryVars
<1> QED BY <1>1, <1>2

LEMMA ClockKeeps ==
  ASSUME DInv, NEW e \in Event, Expire(e) \/ BackoffElapses(e)
  PROVE  DInv'
<1>1. UNCHANGED <<vars, lease, worker, appVars, remote>>
  BY DEF Expire, BackoffElapses
<1>2. Grows /\ IInv' /\ QuiescentSite'
  BY <1>1, StoreUnchanged DEF appVars
<1> QED BY <1>1, <1>2 DEF DInv, DTypes, CallSound, Linked, Unshared, RequestSound, EventSound,
           Deliverable, Shown, Tasked, appVars, vars, controlVars, deliveryVars

-----------------------------------------------------------------------------
(* Steps of the applications. *)

\* A request goes on to another stage, or is dropped with nobody waiting.
LEMMA RequestMoves ==
  ASSUME DInv, NEW s \in Slot, NEW r \in Request \cup {None}, request[s] # None,
         request' = [request EXCEPT ![s] = r],
         (r # None /\ r.row = request[s].row) \/ \A w \in Worker : worker[w].slot # s,
         UNCHANGED <<vars, lease, worker, published, remote>>,
         effects' \in [Event -> Nat], receipts' \in [Event -> {0, 1}],
         \A e \in Event : receipts[e] = 1 => receipts'[e] = 1 /\ (e \notin stale => e \notin stale'),
         RequestSound(s)', \A e \in Event : EventSound(e)'
  PROVE  DInv'
<1>1. Grows /\ IInv' /\ QuiescentSite'
  BY StoreUnchanged
<1>2. request'[s] = r /\ \A x \in Slot \ {s} : request'[x] = request[x]
  BY DEF DInv, DTypes
<1>3. DTypes'
  BY DEF DInv, DTypes
<1>4. \A w \in Worker : CallSound(w)'
  BY <1>1, CallKept
<1>5. \A x \in Slot : RequestSound(x)'
  BY <1>1, <1>2, RequestKept
<1>6. \A w \in Worker : Linked(w)'
  BY <1>2 DEF DInv, Linked
<1>7. Unshared'
  BY DEF DInv, Unshared
<1> QED BY <1>1, <1>3, <1>4, <1>5, <1>6, <1>7 DEF DInv

\* The request at a slot, once moved to a stage.
LEMMA Moved ==
  ASSUME DInv, NEW s \in Slot, request[s] # None, NEW id \in Nat,
         NEW x \in {"arrived", "working", "clearing", "answered", "failed"}, Move(s, x, id)
  PROVE  \E r \in Request :
           /\ request' = [request EXCEPT ![s] = r] /\ request'[s] = r /\ r # None
           /\ r.at = x /\ r.id = id /\ r.row = request[s].row /\ r.task = request[s].task
<1>1. request \in [Slot -> Request \cup {None}] /\ request[s] \in Request
  BY DEF DInv, DTypes
<1>2. [request[s] EXCEPT !.at = x, !.id = id] \in Request
  BY <1>1 DEF Request
<1> DEFINE r == [request[s] EXCEPT !.at = x, !.id = id]
<1>3. /\ r \in Request /\ request' = [request EXCEPT ![s] = r]
      /\ r.at = x /\ r.id = id /\ r.row = request[s].row /\ r.task = request[s].task
  BY <1>1, <1>2 DEF Move, Request
<1> HIDE DEF r
<1>4. request'[s] = r /\ r # None
  BY <1>1, <1>3, DeliveryAssumption
<1> QED BY <1>3, <1>4

\* What is known of a request that waits at the application, its row a constant.
LEMMA Arrived ==
  ASSUME DInv, NEW s \in Slot, request[s] # None
  PROVE  \E e \in Event : e = request[s].row /\ Deliverable(e) /\ Shown(e) /\ EventSound(e)
                          /\ (request[s].task = TRUE => e.ticket \in irisTask)
<1>1. request[s].row \in Event
  BY DEF DInv, DTypes, Request
<1>2. RequestSound(s) /\ \A e \in Event : EventSound(e)
  BY DEF DInv
<1> QED BY <1>1, <1>2 DEF RequestSound

\* A step that only moves the request on.
LEMMA OnlyMoved ==
  ASSUME DInv, NEW s \in Slot, request[s] # None, NEW id \in Nat,
         NEW x \in {"arrived", "working", "clearing", "answered", "failed"}, Move(s, x, id),
         UNCHANGED <<vars, lease, worker, published, effects, receipts, remote>>,
         stale' \in {stale, {}},
         x \in {"working", "clearing", "answered"} => Tasked(request[s].row),
         x \in {"clearing", "answered"} => receipts[request[s].row] = 1 /\ id = 1,
         x = "answered" => request[s].row \notin stale'
  PROVE  DInv'
<1>1. PICK r \in Request :
        /\ request' = [request EXCEPT ![s] = r] /\ request'[s] = r /\ r # None
        /\ r.at = x /\ r.id = id /\ r.row = request[s].row /\ r.task = request[s].task
  BY Moved
<1>2. PICK e \in Event : e = request[s].row /\ Deliverable(e) /\ Shown(e)
                         /\ (request[s].task = TRUE => e.ticket \in irisTask)
  BY Arrived
<1>3. UNCHANGED <<provisioned, outbox, delivered, irisTask, published>>
  BY DEF vars, controlVars, deliveryVars
<1>4. RequestSound(s)'
  BY <1>1, <1>2, <1>3 DEF RequestSound, Deliverable, Shown, Tasked, NeedsTask
<1>5. effects' \in [Event -> Nat] /\ receipts' \in [Event -> {0, 1}]
  BY DEF DInv, DTypes
<1>6. Grows
  BY <1>5, StoreUnchanged
<1>7. \A f \in Event : EventSound(f)'
  BY <1>3, <1>6, EventKept
<1> QED BY <1>1, <1>4, <1>5, <1>7, RequestMoves

LEMMA LookUpKeeps ==
  ASSUME DInv, NEW s \in Slot, LookUp(s)
  PROVE  DInv'
<1>1. request[s] # None /\ UNCHANGED <<vars, lease, worker, published, effects, receipts, stale, remote>>
  BY DEF LookUp, syncVars
<1>2. PICK e \in Event : e = request[s].row /\ Deliverable(e) /\ Shown(e) /\ EventSound(e)
                         /\ (request[s].task = TRUE => e.ticket \in irisTask)
  BY <1>1, Arrived
<1>3. receipts[e] \in {0, 1} /\ request[s].task \in BOOLEAN
  BY <1>1 DEF DInv, DTypes, Request
<1>4. CASE receipts[e] # 0
  <2>1. receipts[e] = 1 /\ Tasked(e) /\ (e.kind # "point" => e \notin stale)
    BY <1>2, <1>3, <1>4 DEF EventSound
  <2>2. PICK x \in {"clearing", "answered"} : Move(s, x, 1) /\ (x = "answered" => e.kind # "point")
    BY <1>2, <1>4, <2>1 DEF LookUp, Found
  <2> QED BY <1>1, <1>2, <2>1, <2>2, OnlyMoved
<1>5. CASE receipts[e] = 0
  <2>1. CASE NeedsTask(e) /\ ~request[s].task
    <3>1. Move(s, "failed", 0)
      BY <1>2, <1>5, <2>1 DEF LookUp
    <3> QED BY <1>1, <3>1, OnlyMoved
  <2>2. CASE ~(NeedsTask(e) /\ ~request[s].task)
    <3>1. Move(s, "working", 0)
      BY <1>2, <1>5, <2>2 DEF LookUp
    <3>2. Tasked(e)
      BY <1>2, <1>3, <2>2 DEF Tasked
    <3> QED BY <1>1, <1>2, <3>1, <3>2, OnlyMoved
  <2> QED BY <2>1, <2>2
<1> QED BY <1>4, <1>5

LEMMA CommitKeeps ==
  ASSUME DInv, NEW s \in Slot, Commit(s)
  PROVE  DInv'
<1>1. request[s] # None /\ request[s].at = "working"
      /\ UNCHANGED <<vars, lease, worker, published, remote>>
  BY DEF Commit, syncVars
<1>2. PICK e \in Event : e = request[s].row /\ Deliverable(e) /\ Shown(e) /\ EventSound(e)
                         /\ (request[s].task = TRUE => e.ticket \in irisTask)
  BY <1>1, Arrived
<1>3. receipts[e] \in {0, 1} /\ Tasked(e)
  BY <1>1, <1>2 DEF DInv, DTypes, RequestSound
<1>4. CASE receipts[e] # 0
  <2>1. receipts[e] = 1 /\ (e.kind # "point" => e \notin stale)
    BY <1>2, <1>3, <1>4 DEF EventSound
  <2>2. UNCHANGED <<effects, receipts, stale>>
    BY <1>2, <1>4 DEF Commit
  <2>3. PICK x \in {"clearing", "answered"} : Move(s, x, 1) /\ (x = "answered" => e.kind # "point")
    BY <1>2, <1>4, <2>1 DEF Commit, Found
  <2> QED BY <1>1, <1>2, <1>3, <2>1, <2>2, <2>3, OnlyMoved
<1>5. CASE receipts[e] = 0
  <2>1. effects[e] = 0 /\ e \notin delivered /\ remote[e] = 0 /\ e \notin stale
    BY <1>2, <1>5 DEF EventSound
  <2>2. Write(s, e, 1)
    BY <1>2, <1>5, <2>1 DEF Commit
  <2>3. /\ effects' = [effects EXCEPT ![e] = 1] /\ receipts' = [receipts EXCEPT ![e] = 1]
        /\ stale' = IF e.kind = "point" THEN stale \cup {e} ELSE stale
    BY <2>1, <2>2 DEF Write
  <2>4. PICK x \in {"clearing", "answered"} : Move(s, x, 1) /\ (x = "answered" => e.kind # "point")
    BY <1>2, <2>2 DEF Write, Found
  <2>5. PICK r \in Request :
          /\ request' = [request EXCEPT ![s] = r] /\ request'[s] = r /\ r # None
          /\ r.at = x /\ r.id = 1 /\ r.row = request[s].row /\ r.task = request[s].task
    BY <1>1, <2>4, Moved
  <2>6. /\ effects' \in [Event -> Nat] /\ receipts' \in [Event -> {0, 1}]
        /\ effects'[e] = 1 /\ receipts'[e] = 1
        /\ \A f \in Event \ {e} : effects'[f] = effects[f] /\ receipts'[f] = receipts[f]
                                  /\ (f \in stale' => f \in stale)
    BY <2>3 DEF DInv, DTypes
  <2>7. \A f \in Event : receipts[f] = 1 => receipts'[f] = 1 /\ (f \notin stale => f \notin stale')
    BY <1>5, <2>6
  <2>8. Grows
    BY <1>1, <2>7, StoreUnchanged
  <2>9. UNCHANGED <<provisioned, outbox, delivered, irisTask, published>>
    BY <1>1 DEF vars, controlVars, deliveryVars
  <2>10. RequestSound(s)'
    BY <1>2, <1>3, <2>1, <2>3, <2>4, <2>5, <2>6, <2>9
       DEF RequestSound, Deliverable, Shown, Tasked, NeedsTask
  <2>11. ASSUME NEW f \in Event
         PROVE  EventSound(f)'
    <3>1. CASE f = e
      BY <1>1, <1>2, <1>3, <2>1, <2>3, <2>6, <2>9, <3>1
         DEF EventSound, Deliverable, Shown, Tasked, NeedsTask
    <3>2. CASE f # e
      BY <1>1, <2>6, <2>8, <2>9, <3>2, EventKept
    <3> QED BY <3>1, <3>2
  <2> QED BY <1>1, <2>5, <2>6, <2>7, <2>10, <2>11, RequestMoves
<1> QED BY <1>4, <1>5

LEMMA ClearKeeps ==
  ASSUME DInv, NEW s \in Slot, ClearStandings(s)
  PROVE  DInv'
<1>1. request[s] # None /\ request[s].at = "clearing"
      /\ UNCHANGED <<vars, lease, worker, published, effects, receipts, remote>>
  BY DEF ClearStandings, syncVars
<1>2. Tasked(request[s].row) /\ receipts[request[s].row] = 1 /\ request[s].id = 1
  BY <1>1 DEF DInv, RequestSound
<1>3. CASE stale' = {} /\ Move(s, "answered", request[s].id)
  BY <1>1, <1>2, <1>3, OnlyMoved
<1>4. CASE stale' = stale /\ Move(s, "failed", 0)
  BY <1>1, <1>4, OnlyMoved
<1> QED BY <1>3, <1>4 DEF ClearStandings

LEMMA LoseKeeps ==
  ASSUME DInv, NEW s \in Slot, Lose(s)
  PROVE  DInv'
<1>1. /\ request[s] # None /\ request' = [request EXCEPT ![s] = None]
      /\ \A w \in Worker : worker[w].slot # s
      /\ UNCHANGED <<vars, lease, worker, published, effects, receipts, stale, remote>>
  BY DEF Lose, syncVars
<1>2. request'[s] = None /\ effects' \in [Event -> Nat] /\ receipts' \in [Event -> {0, 1}]
  BY <1>1 DEF DInv, DTypes
<1>3. RequestSound(s)'
  BY <1>2 DEF RequestSound
<1>4. Grows /\ delivered' = delivered
  BY <1>1, StoreUnchanged DEF vars, deliveryVars
<1>5. \A e \in Event : EventSound(e)'
  BY <1>1, <1>4, EventKept
<1> QED BY <1>1, <1>2, <1>3, <1>5, RequestMoves

-----------------------------------------------------------------------------
(* The invariant, and the step of the store each step implements. *)

LEMMA NextDInv == DInv /\ [DNext]_dvars => DInv'
<1> SUFFICES ASSUME DInv, [DNext]_dvars
             PROVE  DInv'
  OBVIOUS
<1>1. CASE (Operator \/ Participant) /\ UNCHANGED <<syncVars, appVars, remote, faults>>
  BY <1>1, StoreStepKeeps
<1>2. ASSUME NEW w \in Worker,
             (\E e \in Event : Lease(w, e)) \/ Work(w) \/ GiveUp(w) \/ Crash(w) \/ Renew(w)
      PROVE  DInv'
  BY <1>2, LeaseKeeps, PublishKeeps, SendKeeps, ReceiveKeeps, AcknowledgeKeeps, RefusedKeeps,
     QuietKeeps DEF Work
<1>3. ASSUME NEW e \in Event, Expire(e) \/ BackoffElapses(e)
      PROVE  DInv'
  BY <1>3, ClockKeeps
<1>4. ASSUME NEW s \in Slot, Handle(s) \/ Lose(s)
      PROVE  DInv'
  BY <1>4, LookUpKeeps, CommitKeeps, ClearKeeps, LoseKeeps DEF Handle
<1>5. CASE UNCHANGED dvars
  <2>1. UNCHANGED vars /\ UNCHANGED <<lease, worker, request, published, effects, receipts, stale, remote>>
    BY <1>5 DEF dvars, syncVars, appVars
  <2>2. IInv' /\ QuiescentSite'
    BY <2>1, StoreUnchanged
  <2> QED BY <2>1, <2>2 DEF DInv, DTypes, CallSound, Linked, Unshared, RequestSound, EventSound,
             Deliverable, Shown, Tasked, vars, controlVars, deliveryVars
<1> QED BY <1>1, <1>2, <1>3, <1>4, <1>5 DEF DNext

LEMMA StepOfStore == DInv /\ [DNext]_dvars => [Next]_vars
<1> SUFFICES ASSUME DInv, DNext
             PROVE  [Next]_vars
  BY DEF dvars
<1>1. CASE Operator \/ Participant
  BY <1>1 DEF Next
<1>2. ASSUME NEW w \in Worker, Acknowledge(w)
      PROVE  [Next]_vars
  BY <1>2, AcknowledgeDelivers DEF Next
<1>3. ASSUME NEW w \in Worker,
             \/ \E e \in Event : Lease(w, e)
             \/ Publish(w) \/ (\E s \in Slot : Send(w, s)) \/ Receive(w) \/ Discard(w) \/ Refused(w)
             \/ GiveUp(w) \/ Crash(w) \/ Renew(w)
      PROVE  UNCHANGED vars
  BY <1>3 DEF Lease, Publish, Send, Receive, Discard, Refused, GiveUp, Crash, Renew
<1>4. ASSUME NEW e \in Event, Expire(e) \/ BackoffElapses(e)
      PROVE  UNCHANGED vars
  BY <1>4 DEF Expire, BackoffElapses
<1>5. ASSUME NEW s \in Slot, Handle(s) \/ Lose(s)
      PROVE  UNCHANGED vars
  BY <1>5 DEF Handle, LookUp, Commit, ClearStandings, Lose
<1> QED BY <1>1, <1>2, <1>3, <1>4, <1>5 DEF DNext, Work

THEOREM DeliveryInvariance == DSpec => []DInv
<1> QED BY InitDInv, NextDInv, PTL DEF DSpec

\* The delivery by leases, requests, receipts and acknowledgements implements the
\* progress store, in which an event is delivered in one step: whatever is proved of
\* the store holds of it while workers crash, answers are lost and leases expire.
THEOREM DeliveryRefines == DSpec => Spec
<1>1. DInit => Init
  BY DEF DInit
<1> QED BY <1>1, StepOfStore, DeliveryInvariance, PTL DEF DSpec, Spec

-----------------------------------------------------------------------------
(* What the applications show. *)

\* Every event has at most one effect, a delivered one exactly one.
THEOREM EffectsAreOnce == DSpec => []ExactlyOnceEffect
<1>1. DInv => ExactlyOnceEffect
  BY DEF DInv, DTypes, EventSound, ExactlyOnceEffect
<1> QED BY <1>1, DeliveryInvariance, PTL

\* The remote id of a delivered event is the one its application has.
THEOREM WatermarksAgree == DSpec => []WatermarkAgrees
<1>1. DInv => WatermarkAgrees
  BY DEF DInv, EventSound, WatermarkAgrees
<1> QED BY <1>1, DeliveryInvariance, PTL

\* A delivered credit is on the scoreboard.
THEOREM CreditsAreVisible == DSpec => []CreditIsVisible
<1>1. DInv => CreditIsVisible
  BY DEF DInv, IInv, TypeOK, EventSound, CreditIsVisible
<1> QED BY <1>1, DeliveryInvariance, PTL

LEMMA DeliveredHasEffect ==
  ASSUME DInv, NEW e \in delivered
  PROVE  e \in Event /\ receipts[e] = 1 /\ effects[e] = 1
BY DEF DInv, IInv, TypeOK, EventSound

LEMMA EffectWasDeliverable ==
  ASSUME DInv, NEW e \in Event, effects[e] # 0
  PROVE  Deliverable(e) /\ Shown(e) /\ Tasked(e)
BY DEF DInv, DTypes, EventSound

\* The applications see the events of a chain in the order they were queued.
THEOREM EffectsAreOrdered == DSpec => []EffectsInOrder
<1>1. ASSUME DInv, NEW e \in DOMAIN outbox, NEW p \in outbox[e], effects[e] # 0
      PROVE  effects[p] # 0
  <2>1. e \in Event
    BY <1>1 DEF DInv, IInv, TypeOK
  <2>2. p \in delivered
    BY <1>1, <2>1, EffectWasDeliverable DEF Deliverable
  <2> QED BY <1>1, <2>2, DeliveredHasEffect
<1>2. DInv => EffectsInOrder
  BY <1>1 DEF EffectsInOrder
<1> QED BY <1>2, DeliveryInvariance, PTL

\* A ticket whose task exists has its delivery behind it, and its evidence public.
LEMMA TaskHasEvidence ==
  ASSUME DInv, NEW m \in Team, NEW t \in Ticket, t \in irisTask
  PROVE  effects[TicketEvent(t)] # 0 /\ t \in published
<1>1. TicketEvent(t) \in delivered
  BY DEF DInv, IInv, NoStrandedTicket
<1>2. TicketEvent(t) \in Event /\ effects[TicketEvent(t)] = 1
  BY <1>1, DeliveredHasEffect
<1>3. Shown(TicketEvent(t))
  BY <1>2, EffectWasDeliverable
<1> QED BY <1>2, <1>3 DEF Shown, TicketEvent

\* Findings and endings are written on tasks that exist, and a task and the claim of
\* its ticket come after the publication of its evidence.
THEOREM EvidenceComesFirst == DSpec => []EvidenceBeforeTask
<1>1. ASSUME DInv, NEW e \in Event, effects[e] # 0, NeedsTask(e)
      PROVE  effects[TicketEvent(e.ticket)] # 0
  <2>1. e.ticket \in irisTask
    BY <1>1, EffectWasDeliverable DEF Tasked
  <2>2. \E m \in Team : e.ticket \in Ticket
    BY <1>1, ContentAssumption
       DEF NeedsTask, Event, TicketEvent, AssessmentEvent, PointEvent, FindingEvent
  <2> QED BY <1>1, <2>1, <2>2, TaskHasEvidence
<1>2. ASSUME DInv, NEW e \in Event, effects[e] # 0, e.kind = "ticket"
      PROVE  e.ticket \in published
  BY <1>2, EffectWasDeliverable DEF Shown
<1>3. ASSUME DInv, NEW m \in Team, NEW t \in Ticket, status[m][t] = "active"
      PROVE  t \in published
  <2>1. t \in irisTask
    BY <1>3 DEF DInv, IInv, NoStrandedTicket
  <2> QED BY <1>3, <2>1, TaskHasEvidence
<1>4. DInv => EvidenceBeforeTask
  BY <1>1, <1>2, <1>3 DEF EvidenceBeforeTask
<1> QED BY <1>4, DeliveryInvariance, PTL

\* While the site is guarded everything queued is delivered, so a request that is
\* worked on late finds its receipt, and evidence published again is there already.
LEMMA QuietStep ==
  ASSUME DInv, fenced \/ exportToken # None, [DNext]_dvars
  PROVE  UNCHANGED <<effects, receipts, published>>
<1>1. \A e \in Event : Deliverable(e) => receipts[e] = 1 /\ Shown(e)
  <2>1. \A e \in Event : Deliverable(e) => e \in delivered
    BY DEF DInv, QuiescentSite, Drained, Deliverable
  <2> QED BY <2>1 DEF DInv, EventSound
<1>2. ASSUME NEW w \in Worker, Publish(w)
      PROVE  UNCHANGED <<effects, receipts, published>>
  <2>1. PICK e \in Event : e = worker[w].row /\ Deliverable(e) /\ e.kind = "ticket"
    BY <1>2 DEF Publish, At, DInv, CallSound, Deliverable
  <2> QED BY <1>1, <1>2, <2>1 DEF Publish, Shown
<1>3. ASSUME NEW s \in Slot, Commit(s)
      PROVE  UNCHANGED <<effects, receipts, published>>
  <2>1. PICK e \in Event : e = request[s].row /\ Deliverable(e)
    BY <1>3, Arrived DEF Commit
  <2> QED BY <1>1, <1>3, <2>1 DEF Commit
<1>4. ASSUME NEW w \in Worker,
             \/ \E e \in Event : Lease(w, e)
             \/ (\E s \in Slot : Send(w, s)) \/ Receive(w) \/ Acknowledge(w) \/ Discard(w)
             \/ Refused(w) \/ GiveUp(w) \/ Crash(w) \/ Renew(w)
      PROVE  UNCHANGED <<effects, receipts, published>>
  BY <1>4 DEF Lease, Send, Receive, Acknowledge, Discard, Refused, GiveUp, Crash, Renew, appVars
<1>5. ASSUME NEW e \in Event, Expire(e) \/ BackoffElapses(e)
      PROVE  UNCHANGED <<effects, receipts, published>>
  BY <1>5 DEF Expire, BackoffElapses, appVars
<1>6. ASSUME NEW s \in Slot, LookUp(s) \/ ClearStandings(s) \/ Lose(s)
      PROVE  UNCHANGED <<effects, receipts, published>>
  BY <1>6 DEF LookUp, ClearStandings, Lose
<1>7. CASE UNCHANGED <<syncVars, appVars, remote, faults>> \/ UNCHANGED dvars
  BY <1>7 DEF dvars, appVars
<1> QED BY <1>2, <1>3, <1>4, <1>5, <1>6, <1>7 DEF DNext, Work, Handle

\* A fenced or exporting site leaves the applications as they are.
THEOREM ApplicationsAreQuiet == DSpec => QuietApplications
<1>1. DInv /\ [DNext]_dvars =>
        [fenced \/ exportToken # None => UNCHANGED <<effects, receipts, published>>]_dvars
  BY QuietStep
<1> QED BY <1>1, DeliveryInvariance, PTL DEF DSpec, QuietApplications

-----------------------------------------------------------------------------
(***************************************************************************)
(* The delivery thread (SyncLoop): no row that is due is passed over for   *)
(* ever, provided the back-off of a row that has failed four times leaves  *)
(* time for one request to every other row of the silent application.      *)
(***************************************************************************)

CONSTANTS
  Most,     \* bound on the rows of the silent application that are pending at a time
  Backlog   \* bound on the rows that are pending at a time
CONSTANTS Rows, Affected, Timeout, Pause, RetryDelay, MaxDelay, Latency, MaxWait, MaxOutages
VARIABLES rowsQueued, done, attempts, due, down, outages

Loop == INSTANCE SyncLoop WITH queued <- rowsQueued

Cost == Timeout + Pause

\* The longest a row waits: a time-out of every affected row at the largest back-off,
\* before and after each of the shorter back-offs and the deliveries there can be.
Longest == Cost * (1 + (Most + (Most + 1) * (4 * Most + Backlog)))

\* The back-off reaches its largest value at the fourth attempt; while a row is put off
\* that long, every other row of the silent application can time out once.
LoopConditions ==
  /\ Rows \in Nat /\ Most \in Nat /\ Backlog \in Nat
  /\ Timeout \in Nat /\ Pause \in Nat /\ Latency \in 0..Timeout
  /\ RetryDelay \in Nat /\ MaxDelay \in Nat /\ MaxDelay <= RetryDelay * 2 ^ 4
  /\ (Most - 1) * Cost < MaxDelay - Pause
  /\ MaxWait \in Nat /\ Longest <= MaxWait

\* However many rows there are over time, this many wait at once.
Bounded(pending) ==
  Cardinality(pending \cap Affected) <= Most /\ Cardinality(pending) <= Backlog
LoopLoaded == Bounded(Loop!Pending)

LoopType ==
  /\ rowsQueued \in 0..Rows /\ done \subseteq 1..rowsQueued
  /\ attempts \in [1..Rows -> 0..4]
  /\ due \in [1..Rows -> Int]
  /\ \A r \in 1..Rows : r > rowsQueued => due[r] = 0

\* What the pending rows older than r may still do but time out at the largest back-off:
\* a delivery (4) or a time-out after so many attempts.  None of it comes back while r is
\* pending, for an older row is never queued again.
TokensOf(pending, tries, r) ==
  {k \in (1..Rows) \X (0..4) :
     /\ k[1] \in pending /\ k[1] < r
     /\ k[2] = 4 \/ (k[1] \in Affected /\ tries[k[1]] <= k[2])}

\* Of row r, when k such steps are left.  U: the affected rows put off to the last since
\* the step before; they are not due until the other ones, p, have timed out, too.
WithinOf(clocks, k, r, U) ==
  LET p == Most - Cardinality(U)
  IN  /\ \A s \in U : clocks[s] > p * Cost
      /\ Cost * (p + (Most + 1) * k) - clocks[r] <= MaxWait

Tokens(r) == TokensOf(Loop!Pending, attempts, r)
Within(r, U) == WithinOf(due, Cardinality(Tokens(r)), r, U)

LoopInv == \A r \in Loop!Due : \E U \in SUBSET (Loop!Pending \cap Affected) : Within(r, U)

-----------------------------------------------------------------------------
(* Numbers. *)

LEMMA LoopNumbers ==
  ASSUME LoopConditions
  PROVE  Rows \in Nat /\ Most \in Nat /\ Backlog \in Nat /\ Cost \in Nat
  BY DEF LoopConditions, Cost

LEMMA BoundedNumbers ==
  ASSUME LoopConditions, NEW pending \in SUBSET (1..Rows), Bounded(pending)
  PROVE  /\ IsFiniteSet(pending) /\ Cardinality(pending) \in 0..Backlog
         /\ \A U \in SUBSET (pending \cap Affected) : IsFiniteSet(U) /\ Cardinality(U) \in 0..Most
<1>1. IsFiniteSet(1..Rows)
  BY LoopNumbers, FS_Interval
<1>2. IsFiniteSet(pending)
  BY <1>1, FS_Subset
<1>3. Cardinality(pending) \in Nat
  BY <1>2, FS_CardinalityType
<1> DEFINE mine == pending \cap Affected
<1>4. mine \in SUBSET pending
  OBVIOUS
<1> HIDE DEF mine
<1>5. IsFiniteSet(mine) /\ Cardinality(mine) \in Nat
  BY <1>2, <1>4, FS_Subset, FS_CardinalityType
<1>6. Cardinality(mine) <= Most /\ Cardinality(pending) <= Backlog
  BY DEF Bounded, mine
<1>7. ASSUME NEW U \in SUBSET mine PROVE IsFiniteSet(U) /\ Cardinality(U) \in 0..Most
  <2>1. IsFiniteSet(U) /\ Cardinality(U) <= Cardinality(mine)
    BY <1>5, FS_Subset
  <2>2. Cardinality(U) \in Nat
    BY <2>1, FS_CardinalityType
  <2> QED BY <1>5, <1>6, <2>1, <2>2, LoopNumbers
<1>8. Cardinality(pending) \in 0..Backlog
  BY <1>3, <1>6, LoopNumbers
<1> QED BY <1>2, <1>7, <1>8 DEF mine

LEMMA ProductGrows ==
  ASSUME NEW c \in Nat, NEW a \in Nat, NEW b \in Nat, a <= b
  PROVE  c * a \in Nat /\ c * b \in Nat /\ c * a <= c * b
<1>1. PICK d \in Nat : b = a + d
  <2>1. b - a \in Nat /\ b = a + (b - a)
    OBVIOUS
  <2> QED BY <2>1
<1>2. c * b = c * a + c * d
  BY <1>1
<1>3. c * a \in Nat /\ c * d \in Nat
  OBVIOUS
<1> QED BY <1>2, <1>3

LEMMA TokensBounded ==
  ASSUME LoopConditions, NEW pending \in SUBSET (1..Rows), Bounded(pending), NEW tries, NEW r
  PROVE  /\ IsFiniteSet(TokensOf(pending, tries, r))
         /\ Cardinality(TokensOf(pending, tries, r)) \in 0..(4 * Most + Backlog)
<1> DEFINE mine == pending \cap Affected
           early == 0..3
           last == {4}
           small == mine \X early
           large == pending \X last
           tokens == TokensOf(pending, tries, r)
<1>1. IsFiniteSet(early) /\ Cardinality(early) = 4
  <2>1. \A m \in Nat : IsFiniteSet(0..m) /\ Cardinality(0..m) = IF 0 > m THEN 0 ELSE m - 0 + 1
    BY FS_Interval
  <2>2. IsFiniteSet(0..3) /\ Cardinality(0..3) = IF 0 > 3 THEN 0 ELSE 3 - 0 + 1
    BY <2>1
  <2> QED BY <2>2
<1>2. IsFiniteSet(last) /\ Cardinality(last) = 1
  BY FS_Singleton
<1>3. /\ IsFiniteSet(mine) /\ Cardinality(mine) \in 0..Most
      /\ IsFiniteSet(pending) /\ Cardinality(pending) \in 0..Backlog
  BY BoundedNumbers
<1>4. tokens \in SUBSET (small \cup large)
  BY DEF TokensOf
<1> HIDE DEF mine, early, last, tokens
<1>5. /\ IsFiniteSet(small) /\ Cardinality(small) = Cardinality(mine) * Cardinality(early)
      /\ IsFiniteSet(large) /\ Cardinality(large) = Cardinality(pending) * Cardinality(last)
  BY <1>1, <1>2, <1>3, FS_Product
<1>6. /\ IsFiniteSet(small) /\ Cardinality(small) = Cardinality(mine) * 4
      /\ IsFiniteSet(large) /\ Cardinality(large) = Cardinality(pending)
  BY <1>1, <1>2, <1>3, <1>5
<1> HIDE DEF small, large
<1>7. /\ IsFiniteSet(small \cup large)
      /\ Cardinality(small \cup large) =
           Cardinality(small) + Cardinality(large) - Cardinality(small \cap large)
  BY <1>6, FS_Union
<1>8. Cardinality(small \cap large) \in Nat
  <2>1. small \cap large \in SUBSET small
    OBVIOUS
  <2>2. IsFiniteSet(small \cap large)
    BY <1>6, <2>1, FS_Subset
  <2> QED BY <2>2, FS_CardinalityType
<1>9. IsFiniteSet(tokens) /\ Cardinality(tokens) <= Cardinality(small \cup large)
  BY <1>4, <1>7, FS_Subset
<1>10. Cardinality(tokens) \in Nat
  BY <1>9, FS_CardinalityType
<1>11. IsFiniteSet(tokens) /\ Cardinality(tokens) \in 0..(4 * Most + Backlog)
  BY <1>3, <1>6, <1>7, <1>8, <1>9, <1>10, LoopNumbers
<1> QED BY <1>11 DEF tokens

\* A row that has just become due is within its time, for at most one call has passed.
LEMMA FreshIsWithin ==
  ASSUME LoopConditions, NEW clocks \in [1..Rows -> Int], NEW r \in 1..Rows,
         NEW k \in 0..(4 * Most + Backlog), clocks[r] >= -Cost
  PROVE  WithinOf(clocks, k, r, {})
<1> DEFINE n == Most
           m == 4 * n + Backlog
<1>1. n \in Nat /\ Cost \in Nat /\ k \in Nat /\ m \in Nat /\ k <= m
  BY LoopNumbers DEF LoopConditions
<1>2. Cardinality({}) = 0
  BY FS_EmptySet
<1> HIDE DEF m
<1>3. (n + 1) * k \in Nat /\ (n + 1) * m \in Nat /\ (n + 1) * k <= (n + 1) * m
  BY <1>1, ProductGrows
<1> HIDE DEF n
<1> DEFINE x == n + (n + 1) * k
           y == n + (n + 1) * m
<1>4. x \in Nat /\ y \in Nat /\ x <= y
  BY <1>1, <1>3
<1>5. n - Cardinality({}) = n
  BY <1>1, <1>2
<1>6. Cost * (1 + y) <= MaxWait
  BY DEF LoopConditions, Longest, n, m
<1> HIDE DEF x, y
<1>7. Cost * (1 + x) <= Cost * (1 + y)
  BY <1>1, <1>4, ProductGrows
<1>8. Cost * (1 + x) = Cost + Cost * x
  BY <1>1, <1>4
<1>9. Cost * x - clocks[r] <= MaxWait
  <2>1. Cost * x \in Nat /\ Cost * (1 + x) \in Nat /\ Cost * (1 + y) \in Nat
    BY <1>1, <1>4
  <2>2. clocks[r] \in Int /\ MaxWait \in Nat
    BY DEF LoopConditions
  <2> DEFINE a == Cost * x
             b == Cost * (1 + x)
             c == Cost * (1 + y)
  <2>3. a \in Nat /\ b \in Nat /\ c \in Nat /\ b <= c /\ b = Cost + a /\ c <= MaxWait
    BY <2>1, <1>6, <1>7, <1>8
  <2> HIDE DEF a, b, c
  <2>4. a - clocks[r] <= MaxWait
    BY <1>1, <2>2, <2>3
  <2> QED BY <2>4 DEF a
<1> QED BY <1>5, <1>9 DEF WithinOf, n, x

\* An older row does one of the things that do not come back: the time it takes, and a
\* time-out of every affected row after it, were put by for it.
LEMMA StepIsPaid ==
  ASSUME LoopConditions, NEW c1 \in [1..Rows -> Int], NEW c2 \in [1..Rows -> Int],
         NEW r \in 1..Rows, NEW U, IsFiniteSet(U), Cardinality(U) \in 0..Most, NEW k1 \in Nat, NEW k2 \in Nat,
         WithinOf(c1, k1, r, U), k2 < k1, c2[r] >= c1[r] - Cost
  PROVE  WithinOf(c2, k2, r, {})
<1> DEFINE n == Most
           p == n - Cardinality(U)
<1>1. n \in Nat /\ p \in Nat /\ Cost \in Nat
  BY LoopNumbers
<1>2. n - Cardinality({}) = n
  BY <1>1, FS_EmptySet
<1>3. Cost * (p + (n + 1) * k1) - c1[r] <= MaxWait
  BY DEF WithinOf
<1> HIDE DEF n, p
<1> DEFINE x == n + (n + 1) * k2
           y == p + (n + 1) * k1
<1>4. (n + 1) * (k2 + 1) \in Nat /\ (n + 1) * k1 \in Nat /\ (n + 1) * (k2 + 1) <= (n + 1) * k1
  BY <1>1, ProductGrows
<1>5. (n + 1) * (k2 + 1) = (n + 1) * k2 + (n + 1) /\ (n + 1) * k2 \in Nat
  BY <1>1
<1>6. x \in Nat /\ y \in Nat /\ 1 + x <= y
  BY <1>1, <1>4, <1>5
<1> HIDE DEF x, y
<1>7. Cost * (1 + x) \in Nat /\ Cost * y \in Nat /\ Cost * (1 + x) <= Cost * y
  BY <1>1, <1>6, ProductGrows
<1>8. Cost * (1 + x) = Cost + Cost * x /\ Cost * x \in Nat
  BY <1>1, <1>6
<1>9. Cost * x - c2[r] <= MaxWait
  <2> DEFINE a == Cost * x
             b == Cost * (1 + x)
             c == Cost * y
  <2>1. a \in Nat /\ b \in Nat /\ c \in Nat /\ b <= c /\ b = Cost + a
    BY <1>7, <1>8
  <2>2. c - c1[r] <= MaxWait
    BY <1>3 DEF y
  <2>3. c1[r] \in Int /\ c2[r] \in Int /\ MaxWait \in Nat
    BY DEF LoopConditions
  <2> HIDE DEF a, b, c
  <2>4. a - c2[r] <= MaxWait
    BY <1>1, <2>1, <2>2, <2>3
  <2> QED BY <2>4 DEF a
<1> QED BY <1>2, <1>9 DEF WithinOf, n, x

\* An affected row is put off to the last: by the time the others have timed out it is
\* not due again.
LEMMA PutOffIsPaid ==
  ASSUME LoopConditions, NEW c1 \in [1..Rows -> Int], NEW c2 \in [1..Rows -> Int],
         NEW r \in 1..Rows, NEW U \in SUBSET (1..Rows), IsFiniteSet(U), Cardinality(U) \in 0..Most,
         NEW s \in 1..Rows, s \notin U, Cardinality(U \cup {s}) \in 0..Most,
         NEW k1 \in Nat, NEW k2 \in Nat, WithinOf(c1, k1, r, U), k2 <= k1,
         c2[r] >= c1[r] - Cost, \A u \in U : c2[u] >= c1[u] - Cost,
         c2[s] >= MaxDelay - Pause
  PROVE  WithinOf(c2, k2, r, U \cup {s})
<1> DEFINE n == Most
           p == n - Cardinality(U)
<1>1. n \in Nat /\ p \in Nat /\ Cost \in Nat /\ Cardinality(U) \in Nat
  BY LoopNumbers
<1>2. Cardinality(U \cup {s}) = Cardinality(U) + 1
  BY FS_AddElement
<1>4. Cardinality(U \cup {s}) \in 0..n
  OBVIOUS
<1>5. /\ n - Cardinality(U \cup {s}) = p - 1
      /\ p - 1 \in Nat /\ p - 1 <= n - 1 /\ n - 1 \in Nat
  BY <1>1, <1>2, <1>4
<1>6. /\ \A u \in U : c1[u] > p * Cost
      /\ Cost * (p + (n + 1) * k1) - c1[r] <= MaxWait
  BY DEF WithinOf
<1>7. (n - 1) * Cost < MaxDelay - Pause
  BY DEF LoopConditions
<1>8. /\ \A u \in 1..Rows : c1[u] \in Int /\ c2[u] \in Int
      /\ c1[r] \in Int /\ c2[r] \in Int /\ MaxWait \in Nat /\ MaxDelay \in Nat /\ Pause \in Nat
  BY DEF LoopConditions
<1> HIDE DEF n, p
<1>9. ASSUME NEW u \in U \cup {s} PROVE c2[u] > (p - 1) * Cost
  <2>1. (p - 1) * Cost = p * Cost - Cost /\ p * Cost \in Nat
    BY <1>1
  <2>2. CASE u \in U
    <3> DEFINE a == p * Cost
    <3>1. c1[u] > a /\ a \in Nat /\ c2[u] >= c1[u] - Cost /\ c1[u] \in Int /\ c2[u] \in Int
      BY <1>6, <1>8, <2>1, <2>2
    <3> HIDE DEF a
    <3>2. c2[u] > a - Cost
      BY <1>1, <3>1
    <3> QED BY <2>1, <3>2 DEF a
  <2>3. CASE u = s
    <3> DEFINE a == Cost * (p - 1)
               b == Cost * (n - 1)
    <3>1. a \in Nat /\ b \in Nat /\ a <= b
      BY <1>1, <1>5, ProductGrows
    <3>2. a = (p - 1) * Cost /\ b = (n - 1) * Cost
      BY <1>1
    <3>3. b < MaxDelay - Pause
      BY <1>7, <3>2
    <3> HIDE DEF a, b
    <3>4. c2[s] > a
      BY <1>8, <3>1, <3>3
    <3> QED BY <2>3, <3>2, <3>4
  <2> QED BY <2>2, <2>3
<1> DEFINE x == (p - 1) + (n + 1) * k2
           y == p + (n + 1) * k1
<1>10. (n + 1) * k2 \in Nat /\ (n + 1) * k1 \in Nat /\ (n + 1) * k2 <= (n + 1) * k1
  BY <1>1, ProductGrows
<1>11. x \in Nat /\ y \in Nat /\ 1 + x <= y
  BY <1>1, <1>5, <1>10
<1> HIDE DEF x, y
<1>12. Cost * (1 + x) \in Nat /\ Cost * y \in Nat /\ Cost * (1 + x) <= Cost * y
  BY <1>1, <1>11, ProductGrows
<1>13. Cost * (1 + x) = Cost + Cost * x /\ Cost * x \in Nat
  BY <1>1, <1>11
<1>14. Cost * x - c2[r] <= MaxWait
  <2> DEFINE a == Cost * x
             b == Cost * (1 + x)
             c == Cost * y
  <2>1. a \in Nat /\ b \in Nat /\ c \in Nat /\ b <= c /\ b = Cost + a
    BY <1>12, <1>13
  <2>2. c - c1[r] <= MaxWait
    BY <1>6 DEF y
  <2> HIDE DEF a, b, c
  <2>3. a - c2[r] <= MaxWait
    BY <1>1, <1>8, <2>1, <2>2
  <2> QED BY <2>3 DEF a
<1> QED BY <1>5, <1>9, <1>14 DEF WithinOf, n, x

-----------------------------------------------------------------------------
(* The steps of the thread. *)

LEMMA LoopMaximum ==
  ASSUME NEW a \in Int, NEW b \in Int
  PROVE  Loop!Max({a, b}) \in Int /\ Loop!Max({a, b}) >= a /\ Loop!Max({a, b}) >= b
<1>1. \E x \in {a, b} : \A y \in {a, b} : x >= y
  OBVIOUS
<1> QED BY <1>1 DEF Loop!Max

LEMMA LoopMinimum ==
  ASSUME NEW a \in Int, NEW b \in Int
  PROVE  /\ Loop!Min({a, b}) \in {a, b}
         /\ a < b => Loop!Min({a, b}) = a
         /\ b <= a => Loop!Min({a, b}) = b
<1>1. \E x \in {a, b} : \A y \in {a, b} : x =< y
  OBVIOUS
<1> QED BY <1>1 DEF Loop!Min

\* The thread's next row.
LEMMA FirstDue ==
  ASSUME LoopType, LoopConditions, Loop!Due # {}
  PROVE  Loop!Min(Loop!Due) \in Loop!Due /\ \A x \in Loop!Due : Loop!Min(Loop!Due) <= x
<1>1. Loop!Due \in SUBSET Nat
  BY DEF Loop!Due, Loop!Pending, LoopType, LoopConditions
<1> DEFINE S == Loop!Due
<1> HIDE DEF S
<1>2. S # {} => \E x \in S : \A y \in S : x <= y
  BY <1>1, Least DEF S
<1> QED BY <1>2 DEF S, Loop!Min

\* Time passes for the rows that are pending, and for no other.
LEMMA TimePasses ==
  ASSUME LoopConditions, NEW seconds \in Nat, NEW clocks \in [1..Rows -> Int]
  PROVE  /\ Loop!After(seconds, clocks) \in [1..Rows -> Int]
         /\ \A x \in 1..Rows :
              IF x \in Loop!Pending THEN Loop!After(seconds, clocks)[x] >= clocks[x] - seconds
              ELSE Loop!After(seconds, clocks)[x] = clocks[x]
<1>1. Loop!Floor \in Int
  BY DEF Loop!Floor, LoopConditions
<1>2. ASSUME NEW x \in 1..Rows
      PROVE  /\ clocks[x] - seconds \in Int
             /\ Loop!Max({Loop!Floor, clocks[x] - seconds}) \in Int
             /\ Loop!Max({Loop!Floor, clocks[x] - seconds}) >= clocks[x] - seconds
  <2>1. clocks[x] - seconds \in Int
    OBVIOUS
  <2> QED BY <1>1, <2>1, LoopMaximum
<1> QED BY <1>2 DEF Loop!After, Loop!Row

LEMMA PowerIsNat == \A a \in Nat : 2 ^ a \in Nat
<1> SUFFICES ASSUME NEW a \in Nat PROVE 2 ^ a \in Nat
  OBVIOUS
<1> DEFINE S == 1..a
<1>1. IsFiniteSet(S) /\ Cardinality(S) = IF 1 > a THEN 0 ELSE a - 1 + 1
  BY FS_Interval
<1>2. Cardinality(S) = a
  BY <1>1
<1>3. IsFiniteSet(SUBSET S) /\ Cardinality(SUBSET S) = 2 ^ Cardinality(S)
  <2> HIDE DEF S
  <2> QED BY <1>1, FS_SUBSET
<1>4. Cardinality(SUBSET S) \in Nat
  <2> HIDE DEF S
  <2> QED BY <1>3, FS_CardinalityType
<1> HIDE DEF S
<1> QED BY <1>2, <1>3, <1>4

\* A back-off is a time, the fourth one the largest.
LEMMA DelayRises ==
  ASSUME LoopConditions, LoopType, NEW r \in 1..Rows
  PROVE  Loop!Delay(r) \in Nat /\ (attempts[r] = 4 => Loop!Delay(r) = MaxDelay)
<1> DEFINE d == RetryDelay * 2 ^ attempts[r]
<1>1. attempts[r] \in Nat
  BY DEF LoopType
<1>2. 2 ^ attempts[r] \in Nat
  BY <1>1, PowerIsNat
<1>3. d \in Nat /\ MaxDelay \in Nat /\ MaxDelay <= RetryDelay * 2 ^ 4
  BY <1>2 DEF LoopConditions
<1>4. attempts[r] = 4 => MaxDelay <= d
  BY <1>3
<1>5. Loop!Delay(r) = Loop!Min({MaxDelay, d})
  BY DEF Loop!Delay
<1> HIDE DEF d
<1> QED BY <1>3, <1>4, <1>5, LoopMinimum

\* What a call of sync_once does to the row it takes, s: it is delivered, put off for
\* less than the largest back-off, or put off to the last.
Delivered(s) ==
  /\ done' = done \cup {s} /\ attempts' = [attempts EXCEPT ![s] = 0]
PutOff(s) ==
  /\ s \in Affected /\ done' = done /\ due'[s] >= -Cost
  /\ attempts[s] < 4 /\ attempts' = [attempts EXCEPT ![s] = @ + 1]
PutLast(s) ==
  /\ s \in Affected /\ done' = done /\ due'[s] >= -Cost
  /\ attempts[s] = 4 /\ attempts' = attempts /\ due'[s] >= MaxDelay - Pause

\* The other rows wait for one call, at most.
Waited(s) ==
  /\ due' \in [1..Rows -> Int]
  /\ \A x \in 1..Rows : x # s => due'[x] >= due[x] - Cost
  /\ \A x \in 1..Rows : x > rowsQueued => due'[x] = due[x]

LEMMA CallOfThread ==
  ASSUME LoopConditions, LoopType, Loop!Deliver \/ Loop!TimeOut
  PROVE  \E s \in Loop!Due :
           /\ \A x \in Loop!Due : s <= x
           /\ Waited(s) /\ rowsQueued' = rowsQueued
           /\ Delivered(s) \/ PutOff(s) \/ PutLast(s)
<1> DEFINE s == Loop!Min(Loop!Due)
<1>1. s \in Loop!Due /\ \A x \in Loop!Due : s <= x
  BY FirstDue DEF Loop!Deliver, Loop!TimeOut
<1>2. Loop!Due \subseteq Loop!Pending /\ Loop!Pending \subseteq 1..rowsQueued /\ rowsQueued \in 0..Rows
  BY DEF Loop!Due, Loop!Pending, LoopType
<1>3. s \in Loop!Pending /\ s \in 1..Rows /\ s <= rowsQueued /\ Loop!Pending \subseteq 1..Rows
  <2>1. Rows \in Nat
    BY DEF LoopConditions
  <2> HIDE DEF s
  <2>2. s \in Loop!Pending /\ s \in 1..rowsQueued
    BY <1>1, <1>2
  <2> QED BY <1>2, <2>1, <2>2
<1>4. /\ due \in [1..Rows -> Int] /\ attempts \in [1..Rows -> 0..4]
      /\ \A x \in 1..Rows : x > rowsQueued => x \notin Loop!Pending
      /\ Timeout \in Nat /\ Pause \in Nat /\ Cost = Timeout + Pause
  BY <1>2 DEF LoopType, LoopConditions, Cost
<1>5. ASSUME Loop!Deliver
      PROVE  Waited(s) /\ rowsQueued' = rowsQueued /\ Delivered(s)
  <2>1. PICK seconds \in 0..Latency : due' = [Loop!After(seconds, due) EXCEPT ![s] = 0]
    BY <1>5 DEF Loop!Deliver
  <2>2. seconds \in Nat /\ seconds <= Cost
    BY <1>4, <2>1 DEF LoopConditions
  <2> DEFINE c == Loop!After(seconds, due)
  <2>3. /\ c \in [1..Rows -> Int]
        /\ \A x \in 1..Rows : IF x \in Loop!Pending THEN c[x] >= due[x] - seconds ELSE c[x] = due[x]
    BY <1>4, <2>2, TimePasses
  <2> HIDE DEF c, s
  <2>4. due' = [c EXCEPT ![s] = 0]
    BY <2>1 DEF c
  <2>5. Waited(s)
    BY <1>3, <1>4, <2>2, <2>3, <2>4 DEF Waited
  <2> QED BY <1>5, <2>5 DEF Loop!Deliver, Delivered, s
<1>6. ASSUME Loop!TimeOut
      PROVE  Waited(s) /\ rowsQueued' = rowsQueued /\ (PutOff(s) \/ PutLast(s))
  <2> DEFINE b == Loop!After(Timeout, due)
             c == [b EXCEPT ![s] = Loop!Delay(s)]
             d == Loop!After(Pause, c)
  <2>1. /\ b \in [1..Rows -> Int]
        /\ \A x \in 1..Rows : IF x \in Loop!Pending THEN b[x] >= due[x] - Timeout ELSE b[x] = due[x]
    BY <1>4, TimePasses
  <2>2. Loop!Delay(s) \in Nat /\ (attempts[s] = 4 => Loop!Delay(s) = MaxDelay)
    BY <1>3, DelayRises
  <2>3. c \in [1..Rows -> Int] /\ c[s] = Loop!Delay(s) /\ \A x \in 1..Rows : x # s => c[x] = b[x]
    <3> HIDE DEF b
    <3> QED BY <1>3, <2>1, <2>2
  <2>4. /\ d \in [1..Rows -> Int]
        /\ \A x \in 1..Rows : IF x \in Loop!Pending THEN d[x] >= c[x] - Pause ELSE d[x] = c[x]
    <3> HIDE DEF c
    <3> QED BY <1>4, <2>3, TimePasses
  <2>5. due' = d
    BY <1>6 DEF Loop!TimeOut
  <2> HIDE DEF b, c, d
  <2>6. Waited(s)
    <3>1. ASSUME NEW x \in 1..Rows, x # s PROVE d[x] >= due[x] - Cost
      <4>1. c[x] = b[x] /\ b[x] >= due[x] - Timeout /\ d[x] >= c[x] - Pause
        BY <1>4, <2>1, <2>3, <2>4, <3>1
      <4>2. b[x] \in Int /\ due[x] \in Int /\ d[x] \in Int
        BY <1>4, <2>1, <2>4, <3>1
      <4> QED BY <1>4, <4>1, <4>2
    <3>2. ASSUME NEW x \in 1..Rows, x > rowsQueued PROVE d[x] = due[x]
      <4>1. x \notin Loop!Pending /\ x # s
        BY <1>3, <1>4, <3>2
      <4> QED BY <2>1, <2>3, <2>4, <4>1
    <3> QED BY <2>4, <2>5, <3>1, <3>2 DEF Waited
  <2>7. due'[s] >= Loop!Delay(s) - Pause /\ due'[s] \in Int
    BY <1>3, <2>3, <2>4, <2>5
  <2>8. due'[s] >= -Cost /\ (attempts[s] = 4 => due'[s] >= MaxDelay - Pause)
    BY <1>4, <2>2, <2>7
  <2>9. s \in Affected /\ done' = done /\ rowsQueued' = rowsQueued
        /\ attempts' = [attempts EXCEPT ![s] = Loop!Min({4, @ + 1})]
    BY <1>6 DEF Loop!TimeOut
  <2>10. attempts[s] \in 0..4
    BY <1>3, <1>4
  <2> HIDE DEF s
  <2>11. CASE attempts[s] = 4
    <3>1. attempts[s] + 1 = 5 /\ Loop!Min({4, 5}) = 4
      BY <2>11, LoopMinimum
    <3>2. attempts' = [attempts EXCEPT ![s] = attempts[s]]
      BY <2>9, <2>11, <3>1
    <3>3. attempts' = attempts
      BY <1>3, <1>4, <3>2
    <3> QED BY <2>6, <2>8, <2>9, <2>11, <3>3 DEF PutLast
  <2>12. CASE attempts[s] < 4
    <3>1. attempts[s] + 1 \in Int /\ attempts[s] + 1 <= 4
      BY <2>10, <2>12
    <3>2. Loop!Min({4, attempts[s] + 1}) = attempts[s] + 1
      BY <3>1, LoopMinimum
    <3>3. attempts' = [attempts EXCEPT ![s] = @ + 1]
      BY <2>9, <3>2
    <3> QED BY <2>6, <2>8, <2>9, <2>12, <3>3 DEF PutOff
  <2> QED BY <2>10, <2>11, <2>12
<1> HIDE DEF s
<1> QED BY <1>1, <1>5, <1>6

-----------------------------------------------------------------------------
(* The invariant. *)

LEMMA LoopTypeStep ==
  ASSUME LoopConditions, LoopType, [Loop!Next]_(Loop!vars)
  PROVE  LoopType'
<1>1. Rows \in Nat /\ Pause \in Nat
  BY DEF LoopConditions
<1>2. CASE Loop!Enqueue
  BY <1>1, <1>2 DEF Loop!Enqueue, LoopType
<1>3. CASE Loop!GoSilent \/ Loop!Recover \/ UNCHANGED Loop!vars
  BY <1>3 DEF Loop!GoSilent, Loop!Recover, Loop!vars, LoopType
<1>4. CASE Loop!Deliver \/ Loop!TimeOut
  <2>1. PICK s \in Loop!Due :
          /\ Waited(s) /\ rowsQueued' = rowsQueued
          /\ Delivered(s) \/ PutOff(s) \/ PutLast(s)
    BY <1>4, CallOfThread
  <2>2. s \in 1..rowsQueued /\ s \in 1..Rows
    <3>1. s \in 1..rowsQueued /\ rowsQueued \in 0..Rows
      BY <2>1 DEF Loop!Due, Loop!Pending, LoopType
    <3> QED BY <1>1, <3>1
  <2>3. done' \subseteq 1..rowsQueued
    BY <2>1, <2>2 DEF Delivered, PutOff, PutLast, LoopType
  <2>4. attempts' \in [1..Rows -> 0..4]
    <3>1. CASE PutOff(s)
      <4>1. attempts[s] \in 0..4 /\ attempts[s] < 4
        BY <2>2, <3>1 DEF PutOff, LoopType
      <4>2. attempts[s] + 1 \in 0..4
        BY <4>1
      <4> QED BY <2>2, <3>1, <4>2 DEF PutOff, LoopType
    <3> QED BY <2>1, <3>1 DEF Delivered, PutLast, LoopType
  <2>5. \A r \in 1..Rows : r > rowsQueued => due'[r] = 0
    BY <2>1 DEF Waited, LoopType
  <2> QED BY <2>1, <2>3, <2>4, <2>5 DEF Waited, LoopType
<1>5. CASE Loop!Rest
  <2>1. /\ due' \in [1..Rows -> Int]
        /\ \A x \in 1..Rows : x \notin Loop!Pending => due'[x] = due[x]
    BY <1>1, <1>5, TimePasses DEF Loop!Rest, LoopType
  <2>2. \A x \in 1..Rows : x > rowsQueued => x \notin Loop!Pending
    BY DEF Loop!Pending, LoopType
  <2>3. UNCHANGED <<rowsQueued, done, attempts>>
    BY <1>5 DEF Loop!Rest
  <2> QED BY <2>1, <2>2, <2>3 DEF LoopType
<1> QED BY <1>2, <1>3, <1>4, <1>5 DEF Loop!Next, Loop!Loop

LEMMA FewerTokens ==
  ASSUME LoopConditions, NEW p1 \in SUBSET (1..Rows), NEW a1, NEW p2 \in SUBSET (1..Rows), NEW a2,
         Bounded(p1), Bounded(p2), NEW r,
         TokensOf(p2, a2, r) \subseteq TokensOf(p1, a1, r)
  PROVE  LET k1 == Cardinality(TokensOf(p1, a1, r))
             k2 == Cardinality(TokensOf(p2, a2, r))
         IN  /\ k1 \in Nat /\ k2 \in Nat /\ k2 <= k1
             /\ (\E t \in TokensOf(p1, a1, r) : t \notin TokensOf(p2, a2, r)) => k2 < k1
<1> DEFINE S == TokensOf(p1, a1, r)
           T == TokensOf(p2, a2, r)
<1>1. IsFiniteSet(S) /\ Cardinality(S) \in Nat /\ Cardinality(T) \in Nat
  BY TokensBounded, LoopNumbers DEF LoopConditions
<1>2. T \in SUBSET S
  OBVIOUS
<1> HIDE DEF S, T
<1>3. Cardinality(T) <= Cardinality(S) /\ (Cardinality(S) = Cardinality(T) => S = T)
  BY <1>1, <1>2, FS_Subset
<1>4. (\E t \in S : t \notin T) => Cardinality(T) < Cardinality(S)
  BY <1>1, <1>3
<1> QED BY <1>1, <1>3, <1>4 DEF S, T

LEMMA PendingRows ==
  ASSUME LoopConditions, LoopType, LoopType'
  PROVE  Loop!Pending \in SUBSET (1..Rows) /\ (Loop!Pending)' \in SUBSET (1..Rows)
<1>1. rowsQueued \in 0..Rows /\ rowsQueued' \in 0..Rows /\ Rows \in Nat
  BY DEF LoopType, LoopConditions
<1> QED BY <1>1 DEF Loop!Pending

\* Enqueueing a row, an outage or its end change nothing for the rows that wait.
LEMMA OutsideStep ==
  ASSUME LoopConditions, LoopType, LoopInv, LoopLoaded, LoopType', LoopLoaded', due' = due, attempts' = attempts,
         done' = done, rowsQueued' \in {rowsQueued, rowsQueued + 1}
  PROVE  LoopInv'
<1> SUFFICES ASSUME NEW r \in (Loop!Due)'
             PROVE  \E U \in SUBSET ((Loop!Pending)' \cap Affected) : WithinOf(due', Cardinality(Tokens(r)'), r, U)
  BY DEF LoopInv, Within
<1> DEFINE tokens == TokensOf((Loop!Pending)', attempts', r)
<1>1. rowsQueued \in 0..Rows /\ Rows \in Nat
  BY DEF LoopType, LoopConditions
<1>2. r \in 1..rowsQueued' \ done' /\ due'[r] <= 0 /\ r \in 1..Rows
  <2>1. r \in 1..rowsQueued' \ done' /\ due'[r] <= 0 /\ rowsQueued' \in 0..Rows
    BY DEF Loop!Due, Loop!Pending, LoopType
  <2> QED BY <1>1, <2>1
<1>3. Tokens(r)' = tokens
  BY DEF Tokens
<1>4. CASE r <= rowsQueued
  <2>1. r \in Loop!Due
    BY <1>1, <1>2, <1>4 DEF Loop!Due, Loop!Pending
  <2>2. \A x \in 1..Rows : x < r => (x \in Loop!Pending <=> x \in (Loop!Pending)')
    BY <1>1, <1>2, <1>4 DEF Loop!Pending
  <2>3. tokens = Tokens(r)
    BY <2>2 DEF TokensOf, Tokens
  <2>4. PICK U \in SUBSET (Loop!Pending \cap Affected) : Within(r, U)
    BY <2>1 DEF LoopInv
  <2>5. Loop!Pending \subseteq (Loop!Pending)'
    BY <1>1 DEF Loop!Pending
  <2>6. U \in SUBSET ((Loop!Pending)' \cap Affected)
    BY <2>4, <2>5
  <2>7. WithinOf(due', Cardinality(tokens), r, U)
    BY <2>3, <2>4 DEF Within
  <2> HIDE DEF tokens
  <2> QED BY <1>3, <2>6, <2>7
<1>5. CASE r > rowsQueued
  <2>1. due'[r] = 0
    BY <1>2, <1>5 DEF LoopType
  <2>2. due' \in [1..Rows -> Int]
    BY DEF LoopType
  <2>3. Cardinality(tokens) \in 0..(4 * Most + Backlog)
    BY PendingRows, TokensBounded DEF LoopLoaded
  <2>4. due'[r] >= -Cost
    <3> Cost \in Nat
      BY LoopNumbers
    <3> QED BY <2>1
  <2> HIDE DEF tokens
  <2>5. WithinOf(due', Cardinality(tokens), r, {})
    BY <1>2, <2>2, <2>3, <2>4, FreshIsWithin
  <2> QED BY <1>3, <2>5
<1> QED BY <1>1, <1>2, <1>4, <1>5

LEMMA CallStep ==
  ASSUME LoopConditions, LoopType, LoopInv, LoopLoaded, LoopType', LoopLoaded', Loop!Deliver \/ Loop!TimeOut
  PROVE  LoopInv'
<1> SUFFICES ASSUME NEW r \in (Loop!Due)'
             PROVE  \E U \in SUBSET ((Loop!Pending)' \cap Affected) : WithinOf(due', Cardinality(Tokens(r)'), r, U)
  BY DEF LoopInv, Within
<1>1. PICK s \in Loop!Due :
        /\ \A x \in Loop!Due : s <= x
        /\ Waited(s) /\ rowsQueued' = rowsQueued
        /\ Delivered(s) \/ PutOff(s) \/ PutLast(s)
  BY CallOfThread
<1> DEFINE p2 == (Loop!Pending)'
           k2 == Cardinality(TokensOf(p2, attempts', r))
           k1 == Cardinality(Tokens(r))
<1>2. /\ r \in p2 /\ p2 \subseteq Loop!Pending /\ due'[r] <= 0
      /\ s \in Loop!Pending /\ due[s] <= 0 /\ Loop!Pending \subseteq 1..Rows
  <2>1. rowsQueued \in 0..Rows /\ Rows \in Nat
    BY DEF LoopType, LoopConditions
  <2>2. done \subseteq done'
    BY <1>1 DEF Delivered, PutOff, PutLast
  <2> QED BY <1>1, <2>1, <2>2 DEF Loop!Due, Loop!Pending
<1>3. r \in 1..Rows /\ s \in 1..Rows
  BY <1>2
<1>4. due \in [1..Rows -> Int] /\ due' \in [1..Rows -> Int] /\ Cost \in Nat
      /\ attempts \in [1..Rows -> 0..4]
  BY LoopNumbers DEF LoopType
<1>5. Tokens(r)' = TokensOf(p2, attempts', r)
  BY DEF Tokens
<1>6. ASSUME due'[r] >= -Cost
      PROVE  \E U \in SUBSET ((Loop!Pending)' \cap Affected) : WithinOf(due', k2, r, U)
  <2>1. k2 \in 0..(4 * Most + Backlog)
    BY PendingRows, TokensBounded DEF LoopLoaded
  <2> HIDE DEF k2
  <2>2. WithinOf(due', k2, r, {})
    BY <1>3, <1>4, <1>6, <2>1, FreshIsWithin
  <2> QED BY <2>2
<1>7. CASE r = s
  <2>1. ~Delivered(s)
    BY <1>2, <1>7 DEF Delivered, Loop!Pending
  <2> QED BY <1>1, <1>5, <1>6, <1>7, <2>1 DEF PutOff, PutLast
<1>8. CASE r # s /\ due[r] > 0
  <2>1. due'[r] >= due[r] - Cost
    BY <1>1, <1>2, <1>8 DEF Waited
  <2>2. due'[r] >= -Cost
    BY <1>3, <1>4, <1>8, <2>1
  <2> QED BY <1>5, <1>6, <2>2
<1>9. CASE r # s /\ due[r] <= 0
  <2>1. r \in Loop!Due /\ s < r
    <3>1. r \in Loop!Due
      BY <1>2, <1>9 DEF Loop!Due
    <3> QED BY <1>1, <1>3, <1>9, <3>1
  <2>2. PICK U \in SUBSET (Loop!Pending \cap Affected) : WithinOf(due, k1, r, U)
    BY <2>1 DEF LoopInv, Within
  <2>3. due'[r] >= due[r] - Cost
    BY <1>1, <1>2, <1>9 DEF Waited
  <2>4. \A x \in p2 : attempts[x] <= attempts'[x]
    <3> SUFFICES ASSUME NEW x \in p2 PROVE attempts[x] <= attempts'[x]
      OBVIOUS
    <3>1. x \in 1..Rows /\ attempts[x] \in 0..4
      BY <1>2, <1>4
    <3>2. Delivered(s) => x # s
      BY DEF Delivered, Loop!Pending
    <3>3. attempts'[x] \in {attempts[x], attempts[x] + 1}
      <4>1. CASE Delivered(s)
        BY <1>4, <3>1, <3>2, <4>1 DEF Delivered
      <4>2. CASE PutOff(s)
        BY <1>4, <3>1, <4>2 DEF PutOff
      <4>3. CASE PutLast(s)
        BY <4>3 DEF PutLast
      <4> QED BY <1>1, <4>1, <4>2, <4>3
    <3> QED BY <3>1, <3>3
  <2>5. TokensOf(p2, attempts', r) \subseteq Tokens(r)
    <3> SUFFICES ASSUME NEW k \in TokensOf(p2, attempts', r) PROVE k \in Tokens(r)
      OBVIOUS
    <3>1. /\ k \in (1..Rows) \X (0..4) /\ k[1] \in p2 /\ k[1] < r
          /\ k[2] = 4 \/ (k[1] \in Affected /\ attempts'[k[1]] <= k[2])
      BY DEF TokensOf
    <3>2. k[1] \in 1..Rows /\ k[2] \in 0..4 /\ attempts[k[1]] <= attempts'[k[1]] /\ k[1] \in Loop!Pending
      BY <1>2, <2>4, <3>1
    <3>3. attempts[k[1]] \in 0..4 /\ attempts'[k[1]] \in 0..4
      BY <1>4, <3>2 DEF LoopType
    <3> DEFINE x == attempts[k[1]]
               y == attempts'[k[1]]
               z == k[2]
    <3>4. y <= z => x <= z
      <4>1. x \in Int /\ y \in Int /\ z \in Int /\ x <= y
        BY <3>2, <3>3
      <4> HIDE DEF x, y, z
      <4> QED BY <4>1
    <3> QED BY <3>1, <3>2, <3>4 DEF Tokens, TokensOf
  <2>6. /\ k1 \in Nat /\ k2 \in Nat /\ k2 <= k1
        /\ (\E t \in Tokens(r) : t \notin TokensOf(p2, attempts', r)) => k2 < k1
    <3>1. /\ Loop!Pending \in SUBSET (1..Rows) /\ p2 \in SUBSET (1..Rows)
          /\ Bounded(Loop!Pending) /\ Bounded(p2)
      BY PendingRows DEF LoopLoaded
    <3> HIDE DEF p2
    <3> QED BY <2>5, <3>1, FewerTokens DEF Tokens
  <2>60. IsFiniteSet(U) /\ Cardinality(U) \in 0..Most /\ U \in SUBSET (1..Rows)
    <3>1. Loop!Pending \in SUBSET (1..Rows) /\ Bounded(Loop!Pending)
      BY PendingRows DEF LoopLoaded
    <3> QED BY <3>1, BoundedNumbers
  <2>7. ASSUME k2 < k1
        PROVE  \E V \in SUBSET (p2 \cap Affected) : WithinOf(due', k2, r, V)
    <3> HIDE DEF k1, k2
    <3>1. WithinOf(due', k2, r, {})
      BY <1>3, <1>4, <2>2, <2>3, <2>6, <2>60, <2>7, StepIsPaid
    <3> QED BY <3>1
  <2>8. CASE Delivered(s)
    <3>1. <<s, 4>> \in Tokens(r)
      BY <1>2, <1>3, <2>1 DEF Tokens, TokensOf
    <3>2. s \notin p2
      BY <2>8 DEF Delivered, Loop!Pending
    <3>3. <<s, 4>> \notin TokensOf(p2, attempts', r)
      BY <3>2 DEF TokensOf
    <3> QED BY <1>5, <2>6, <2>7, <3>1, <3>3
  <2>9. CASE PutOff(s)
    <3>1. attempts[s] \in 0..4 /\ attempts[s] < 4 /\ s \in Affected
      BY <1>3, <1>4, <2>9 DEF PutOff
    <3>2. <<s, attempts[s]>> \in Tokens(r)
      BY <1>2, <1>3, <2>1, <3>1 DEF Tokens, TokensOf
    <3>3. attempts'[s] = attempts[s] + 1
      BY <1>3, <1>4, <2>9 DEF PutOff
    <3>4. <<s, attempts[s]>> \notin TokensOf(p2, attempts', r)
      <4> DEFINE a == attempts[s]
                 b == attempts'[s]
      <4>1. a # 4 /\ ~(b <= a)
        <5>1. a \in Int /\ b = a + 1 /\ a < 4
          BY <3>1, <3>3
        <5> HIDE DEF a, b
        <5> QED BY <5>1
      <4> QED BY <4>1 DEF TokensOf
    <3> QED BY <1>5, <2>6, <2>7, <3>2, <3>4
  <2>10. CASE PutLast(s)
    <3>1. s \in Affected /\ due'[s] >= MaxDelay - Pause
      BY <2>10 DEF PutLast
    <3>2. \A u \in U : due[u] > 0
      <4>1. Most - Cardinality(U) \in Nat
        BY <2>60, LoopNumbers
      <4> DEFINE p == Most - Cardinality(U)
      <4>2. \A u \in U : due[u] > p * Cost
        BY <2>2 DEF WithinOf
      <4> HIDE DEF p
      <4>3. p * Cost \in Nat
        BY <1>4, <4>1 DEF p
      <4>4. \A u \in U : due[u] \in Int
        BY <1>4, <2>60
      <4> QED BY <4>2, <4>3, <4>4
    <3>3. s \notin U
      BY <1>2, <1>3, <1>4, <3>2
    <3>4. \A u \in U : due'[u] >= due[u] - Cost
      <4> SUFFICES ASSUME NEW u \in U PROVE due'[u] >= due[u] - Cost
        OBVIOUS
      <4>1. u # s /\ u \in 1..Rows
        BY <2>60, <3>3
      <4> QED BY <1>1, <4>1 DEF Waited
    <3>5. k1 \in Nat /\ k2 \in Nat /\ k2 <= k1
      BY <2>6
    <3>6. U \cup {s} \in SUBSET (p2 \cap Affected)
      <4>1. p2 = Loop!Pending
        BY <1>1, <2>10 DEF PutLast, Loop!Pending
      <4> QED BY <1>2, <3>1, <4>1
    <3>7. Cardinality(U \cup {s}) \in 0..Most
      <4>1. p2 \in SUBSET (1..Rows) /\ Bounded(p2)
        BY PendingRows DEF LoopLoaded
      <4> HIDE DEF p2
      <4> QED BY <3>6, <4>1, BoundedNumbers
    <3>8. WithinOf(due', k2, r, U \cup {s})
      <4> HIDE DEF k1, k2
      <4> QED BY <1>3, <1>4, <2>2, <2>3, <2>60, <3>1, <3>3, <3>4, <3>5, <3>7, PutOffIsPaid
    <3> QED BY <1>5, <3>6, <3>8
  <2> QED BY <1>1, <2>8, <2>9, <2>10
<1> QED BY <1>3, <1>4, <1>7, <1>8, <1>9

LEMMA LoopInvStep ==
  ASSUME LoopConditions, LoopType, LoopInv, LoopLoaded, LoopType', LoopLoaded', [Loop!Next]_(Loop!vars)
  PROVE  LoopInv'
<1>1. CASE Loop!Deliver \/ Loop!TimeOut
  BY <1>1, CallStep
<1>2. CASE Loop!Enqueue \/ Loop!GoSilent \/ Loop!Recover \/ UNCHANGED Loop!vars
  <2>1. /\ due' = due /\ attempts' = attempts /\ done' = done
        /\ rowsQueued' \in {rowsQueued, rowsQueued + 1}
    BY <1>2 DEF Loop!Enqueue, Loop!GoSilent, Loop!Recover, Loop!vars
  <2> QED BY <2>1, OutsideStep
<1>3. ASSUME Loop!Rest, NEW r \in (Loop!Due)'
      PROVE  \E U \in SUBSET ((Loop!Pending)' \cap Affected) : WithinOf(due', Cardinality(Tokens(r)'), r, U)
  <2>1. UNCHANGED <<rowsQueued, done, attempts>> /\ Loop!Due = {}
    BY <1>3 DEF Loop!Rest
  <2>2. r \in Loop!Pending /\ r \in 1..Rows
    <3>1. rowsQueued \in 0..Rows /\ Rows \in Nat
      BY DEF LoopType, LoopConditions
    <3> QED BY <2>1, <3>1 DEF Loop!Due, Loop!Pending
  <2>3. due[r] > 0 /\ due[r] \in Int
    BY <2>1, <2>2 DEF Loop!Due, LoopType
  <2>4. due'[r] >= due[r] - Pause
    BY <1>3, <2>2, TimePasses DEF Loop!Rest, LoopConditions, LoopType
  <2>5. due' \in [1..Rows -> Int]
    BY DEF LoopType
  <2>6. due'[r] >= -Cost
    <3>1. Pause \in Nat /\ Timeout \in Nat /\ due'[r] \in Int
      BY <2>2, <2>5 DEF LoopConditions
    <3> QED BY <2>3, <2>4, <3>1 DEF Cost
  <2> DEFINE tokens == TokensOf((Loop!Pending)', attempts', r)
  <2>7. Cardinality(tokens) \in 0..(4 * Most + Backlog)
    BY PendingRows, TokensBounded DEF LoopLoaded
  <2>8. Tokens(r)' = tokens
    BY DEF Tokens
  <2> HIDE DEF tokens
  <2>9. WithinOf(due', Cardinality(tokens), r, {})
    BY <2>2, <2>5, <2>6, <2>7, FreshIsWithin
  <2> QED BY <2>8, <2>9
<1>4. CASE Loop!Rest
  BY <1>3, <1>4 DEF LoopInv, Within
<1> QED BY <1>1, <1>2, <1>4 DEF Loop!Next, Loop!Loop

LEMMA LoopInvInit ==
  ASSUME LoopConditions, Loop!Init
  PROVE  LoopType /\ LoopInv
<1>1. rowsQueued = 0 /\ done = {} /\ Rows \in Nat
  BY DEF Loop!Init, LoopConditions
<1>2. LoopType
  BY <1>1 DEF Loop!Init, Loop!Row, LoopType
<1>3. Loop!Due = {}
  BY <1>1 DEF Loop!Due, Loop!Pending
<1> QED BY <1>2, <1>3 DEF LoopInv

LEMMA WithinIsBounded ==
  ASSUME LoopConditions, LoopType, LoopInv, LoopLoaded
  PROVE  Loop!WaitBounded
<1> SUFFICES ASSUME NEW r \in Loop!Pending PROVE due[r] >= -MaxWait
  BY DEF Loop!WaitBounded
<1>1. r \in 1..Rows /\ due[r] \in Int /\ MaxWait \in Nat
  <2>1. rowsQueued \in 0..Rows /\ Rows \in Nat
    BY DEF LoopType, LoopConditions
  <2> QED BY <2>1 DEF Loop!Pending, LoopType, LoopConditions
<1>2. CASE due[r] > 0
  BY <1>1, <1>2
<1>3. CASE due[r] <= 0
  <2>1. PICK U \in SUBSET (Loop!Pending \cap Affected) : Within(r, U)
    BY <1>3 DEF LoopInv, Loop!Due
  <2> DEFINE p == Most - Cardinality(U)
             k == Cardinality(Tokens(r))
  <2>2. p \in Nat /\ k \in Nat /\ Most \in Nat /\ Cost \in Nat
    <3>1. Loop!Pending \in SUBSET (1..Rows) /\ Bounded(Loop!Pending)
      <4> rowsQueued \in 0..Rows /\ Rows \in Nat
        BY DEF LoopType, LoopConditions
      <4> QED BY DEF Loop!Pending, LoopLoaded
    <3>2. Cardinality(U) \in 0..Most
      BY <3>1, BoundedNumbers
    <3>3. k \in 0..(4 * Most + Backlog)
      BY <3>1, TokensBounded DEF Tokens
    <3> QED BY <3>2, <3>3, LoopNumbers
  <2>3. Cost * (p + (Most + 1) * k) - due[r] <= MaxWait
    BY <2>1 DEF Within, WithinOf
  <2> HIDE DEF p, k
  <2> DEFINE a == Cost * (p + (Most + 1) * k)
  <2>4. a \in Nat
    <3>1. (Most + 1) * k \in Nat
      BY <2>2
    <3> QED BY <2>2, <3>1
  <2>5. a - due[r] <= MaxWait
    BY <2>3
  <2> HIDE DEF a
  <2> QED BY <1>1, <2>4, <2>5
<1> QED BY <1>1, <1>2, <1>3

\* sync_once, the delivery thread: no row that is due waits longer than Longest, healthy or
\* not, however outages begin and end and however many rows are queued over time, as long as
\* Most of the silent application and Backlog in all wait at once.  At 8 + 1 seconds a
\* time-out, the largest back-off of 30 seconds is enough for Most = 4.
THEOREM NoRowIsStarved == LoopConditions /\ Loop!Spec /\ []LoopLoaded => []Loop!WaitBounded
<1> SUFFICES ASSUME LoopConditions
             PROVE  Loop!Spec /\ []LoopLoaded => []Loop!WaitBounded
  OBVIOUS
<1>1. Loop!Init => LoopType /\ LoopInv
  BY LoopInvInit
<1>2. LoopType /\ LoopInv /\ LoopLoaded /\ [Loop!Next]_(Loop!vars) /\ LoopLoaded' => (LoopType /\ LoopInv)'
  BY LoopTypeStep, LoopInvStep
<1>3. LoopType /\ LoopInv /\ LoopLoaded => Loop!WaitBounded
  BY WithinIsBounded
<1> QED BY <1>1, <1>2, <1>3, PTL DEF Loop!Spec

=============================================================================
