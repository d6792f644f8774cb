--------------------------- MODULE OutboxDelivery ---------------------------
(***************************************************************************)
(* How queued work reaches IRIS and CTFd: State.sync_once called by the    *)
(* workers of the integration service, the sink that publishes evidence    *)
(* and posts the event (ridge/transport.py), and the handlers that the two *)
(* application plugins run for it.  The operations of ExerciseState go on  *)
(* meanwhile.  No lock spans the remote call: a worker leases a row in one *)
(* transaction and acknowledges it in another, and between the two it may  *)
(* crash, stall until its lease has expired, or lose the answer while the  *)
(* application still works on the request.                                 *)
(*                                                                         *)
(* ExerciseState delivers an event in one step, SyncOnce; this module      *)
(* implements its specification (Spec), the last step, Acknowledge, being  *)
(* the one that counts.                                                    *)
(***************************************************************************)
EXTENDS ExerciseState

CONSTANTS
  Worker,     \* service processes calling sync_once; one call at a time each
  Slot,       \* bound on the requests the applications hold at one time
  MaxFaults   \* bound on crashes, stalls and lost messages together

\* What an application holds of a request.
Request ==
  [row : Event, task : BOOLEAN, id : Nat,
   at : {"arrived", "working", "clearing", "answered", "failed"}]

ASSUME DeliveryAssumption ==
  MaxFaults \in Nat /\ None \notin Worker \cup Slot \cup Event \cup Request

VARIABLES
  lease,      \* outbox.lease: the worker whose token the row carries
  live,       \* rows with lease_until > now
  waiting,    \* rows with retry_at > now
  worker,     \* what each worker's call of sync_once is doing
  request,    \* requests held by the applications, by slot
  published,  \* tickets whose evidence is in the public directory
  effects,    \* tasks, comments or awards committed for an event
  receipts,   \* RidgeReceipt.remote / RidgeCredit.award_id, 0 where none
  remote,     \* outbox.remote, 0 while null
  stale,      \* awards the cached CTFd standings do not show yet
  faults      \* faults so far

syncVars == <<lease, live, waiting, worker>>
appVars  == <<request, published, effects, receipts, stale>>
stateVars == <<controlVars, teamVars, laneVars, workVars>>
dvars == <<vars, syncVars, appVars, remote, faults>>

Idle == [at |-> "idle", row |-> None, task |-> FALSE, slot |-> None, id |-> 0]

At(w, stage) == worker[w].at = stage
Working(w, e) == worker[w].row = e

Fault == faults < MaxFaults /\ faults' = faults + 1

DInit ==
  /\ Init
  /\ lease = [e \in Event |-> None]
  /\ live = {}
  /\ waiting = {}
  /\ worker = [w \in Worker |-> Idle]
  /\ request = [s \in Slot |-> None]
  /\ published = {}
  /\ effects = [e \in Event |-> 0]
  /\ receipts = [e \in Event |-> 0]
  /\ remote = [e \in Event |-> 0]
  /\ stale = {}
  /\ faults = 0

-----------------------------------------------------------------------------
(* The worker. *)

\* Seeded fault (Spec): deliveries start before the run is provisioned.
LeasableEarly(e) ==
  exportToken = None /\ Eligible(e) /\ e \notin live \cup waiting

\* Seeded fault (FairSpec): an expired lease is not taken over.
LeasableUnowned(e) ==
  /\ provisioned
  /\ exportToken = None
  /\ Eligible(e)
  /\ e \notin waiting /\ lease[e] = None

Leasable(e) ==
  /\ provisioned
  /\ exportToken = None
  /\ Eligible(e)
  /\ e \notin live \cup waiting

\* Seeded fault (EvidenceBeforeTask): the evidence follows the task.
FirstStageSending(e) == "sending"

FirstStage(e) == IF e.kind = "ticket" THEN "publishing" ELSE "sending"

\* The first transaction.  Among the rows it may lease the code takes the
\* oldest; the choice is left open here.  The task id is read now and sent
\* later, so the request may carry a null one although the task exists by then.
Lease(w, e) ==
  /\ At(w, "idle")
  /\ Leasable(e)
  /\ lease' = [lease EXCEPT ![e] = w]
  /\ live' = live \cup {e}
  /\ worker' = [worker EXCEPT ![w] =
       [Idle EXCEPT !.at = FirstStage(e), !.row = e, !.task = e.ticket \in irisTask]]
  /\ UNCHANGED <<vars, waiting, appVars, remote, faults>>

\* The sink publishes a ticket's evidence before it asks for the task.
Publish(w) ==
  /\ At(w, "publishing")
  /\ published' = published \cup {worker[w].row.ticket}
  /\ worker' = [worker EXCEPT ![w].at = "sending"]
  /\ UNCHANGED <<vars, lease, live, waiting, request, effects, receipts, stale, remote, faults>>

Send(w, s) ==
  /\ At(w, "sending")
  /\ request[s] = None
  /\ request' = [request EXCEPT ![s] =
       [row |-> worker[w].row, task |-> worker[w].task, at |-> "arrived", id |-> 0]]
  /\ worker' = [worker EXCEPT ![w].at = "sent", ![w].slot = s]
  /\ UNCHANGED <<vars, lease, live, waiting, published, effects, receipts, stale, remote, faults>>

Receive(w) ==
  /\ At(w, "sent")
  /\ LET s == worker[w].slot
     IN  /\ request[s].at = "answered"
         /\ worker' = [worker EXCEPT ![w].at = "answered", ![w].slot = None,
                                     ![w].id = request[s].id]
         /\ request' = [request EXCEPT ![s] = None]
  /\ UNCHANGED <<vars, lease, live, waiting, published, effects, receipts, stale, remote, faults>>

\* The second transaction: only the holder of the lease marks the row, whether
\* or not the lease has run out meanwhile; any other answer is dropped.
Acknowledge(w) ==
  LET e == worker[w].row
  IN  /\ At(w, "answered")
      /\ lease[e] = w
      /\ delivered' = delivered \cup {e}
      /\ irisTask' = IF e.kind = "ticket" THEN irisTask \cup {e.ticket} ELSE irisTask
      /\ remote' = [remote EXCEPT ![e] = worker[w].id]
      /\ lease' = [lease EXCEPT ![e] = None]
      /\ live' = live \ {e}
      /\ worker' = [worker EXCEPT ![w] = Idle]
      /\ UNCHANGED <<stateVars, outbox, waiting, appVars, faults>>

Discard(w) ==
  /\ At(w, "answered")
  /\ lease[worker[w].row] # w
  /\ worker' = [worker EXCEPT ![w] = Idle]
  /\ UNCHANGED <<vars, lease, live, waiting, appVars, remote, faults>>

\* The exception path: the row is freed for a later retry, if still held.
GiveBack(w) ==
  LET e == worker[w].row
  IN  /\ IF lease[e] = w
         THEN /\ lease' = [lease EXCEPT ![e] = None]
              /\ live' = live \ {e}
              /\ waiting' = waiting \cup {e}
         ELSE UNCHANGED <<lease, live, waiting>>
      /\ worker' = [worker EXCEPT ![w] = Idle]

\* The application answered with an error.
Refused(w) ==
  /\ At(w, "sent")
  /\ LET s == worker[w].slot
     IN  /\ request[s].at = "failed"
         /\ request' = [request EXCEPT ![s] = None]
  /\ GiveBack(w)
  /\ UNCHANGED <<vars, published, effects, receipts, stale, remote, faults>>

\* Publication failed, the connection broke or the answer timed out; a request
\* that was sent stays with the application, which knows nothing of it.
GiveUp(w) ==
  /\ Fault
  /\ At(w, "publishing") \/ At(w, "sending") \/ At(w, "sent")
  /\ GiveBack(w)
  /\ UNCHANGED <<vars, appVars, remote>>

\* The process dies and is started again; its row stays leased until expiry.
Crash(w) ==
  /\ Fault
  /\ ~At(w, "idle")
  /\ worker' = [worker EXCEPT ![w] = Idle]
  /\ UNCHANGED <<vars, lease, live, waiting, appVars, remote>>

\* Thirty seconds without a heartbeat: of a dead call as a matter of course,
\* of a call that goes on only if its process stalls.
Expire(e) ==
  /\ e \in live
  /\ IF \E w \in Worker : lease[e] = w /\ Working(w, e) THEN Fault ELSE UNCHANGED faults
  /\ live' = live \ {e}
  /\ UNCHANGED <<vars, lease, waiting, worker, appVars, remote>>

\* The heartbeat of a stalled process that wakes up renews what it still holds.
Renew(w) ==
  /\ ~At(w, "idle")
  /\ lease[worker[w].row] = w
  /\ live' = live \cup {worker[w].row}
  /\ UNCHANGED <<vars, lease, waiting, worker, appVars, remote, faults>>

BackoffElapses(e) ==
  /\ e \in waiting
  /\ waiting' = waiting \ {e}
  /\ UNCHANGED <<vars, lease, live, worker, appVars, remote, faults>>

-----------------------------------------------------------------------------
(* The application: ridge_event of IRIS, ridge_credit of CTFd.  A request   *)
(* looks for the receipt of its key, and works if there is none; effect and *)
(* receipt are one commit, which a receipt inserted meanwhile makes fail.   *)
(* CTFd clears its cached standings before every answer, a repeated one too.*)

Move(s, stage, id) == request' = [request EXCEPT ![s].at = stage, ![s].id = id]

Found(s, id) ==
  Move(s, IF request[s].row.kind = "point" THEN "clearing" ELSE "answered", id)

\* Seeded fault (CreditIsVisible): a repeated credit is answered at once.
LookUpAnswering(s) ==
  /\ request[s] # None
  /\ request[s].at = "arrived"
  /\ LET e == request[s].row
     IN  IF receipts[e] # 0 THEN Move(s, "answered", receipts[e])
         ELSE Move(s, IF NeedsTask(e) /\ ~request[s].task THEN "failed" ELSE "working", 0)
  /\ UNCHANGED <<vars, syncVars, published, effects, receipts, stale, remote, faults>>

LookUp(s) ==
  /\ request[s] # None
  /\ request[s].at = "arrived"
  /\ LET e == request[s].row
     IN  IF receipts[e] # 0 THEN Found(s, receipts[e])
         ELSE Move(s, IF NeedsTask(e) /\ ~request[s].task THEN "failed" ELSE "working", 0)
  /\ UNCHANGED <<vars, syncVars, published, effects, receipts, stale, remote, faults>>

\* The effect and the receipt of a request that found none, id being the new one.
Write(s, e, id) ==
  /\ effects' = [effects EXCEPT ![e] = @ + 1]
  /\ receipts' = [receipts EXCEPT ![e] = id]
  /\ stale' = IF e.kind = "point" THEN stale \cup {e} ELSE stale
  /\ Found(s, id)

\* Seeded fault (ExactlyOnceEffect): the receipt's key is not unique.
CommitTwice(s) ==
  /\ request[s] # None
  /\ request[s].at = "working"
  /\ Write(s, request[s].row, effects[request[s].row] + 1)
  /\ UNCHANGED <<vars, syncVars, published, remote, faults>>

\* Seeded fault (WatermarkAgrees): the id of the rolled back row is answered.
CommitLost(s) ==
  /\ request[s] # None
  /\ request[s].at = "working"
  /\ LET e == request[s].row
     IN  IF receipts[e] = 0 THEN Write(s, e, effects[e] + 1)
         ELSE Found(s, effects[e] + 1) /\ UNCHANGED <<effects, receipts, stale>>
  /\ UNCHANGED <<vars, syncVars, published, remote, faults>>

Commit(s) ==
  /\ request[s] # None
  /\ request[s].at = "working"
  /\ LET e == request[s].row
     IN  IF receipts[e] = 0 THEN Write(s, e, effects[e] + 1)
         ELSE Found(s, receipts[e]) /\ UNCHANGED <<effects, receipts, stale>>
  /\ UNCHANGED <<vars, syncVars, published, remote, faults>>

ClearStandings(s) ==
  /\ request[s] # None
  /\ request[s].at = "clearing"
  /\ \/ /\ stale' = {}
        /\ Move(s, "answered", request[s].id)
        /\ UNCHANGED faults
     \/ /\ Fault  \* the cache does not answer: the award stands, the request fails
        /\ Move(s, "failed", 0)
        /\ UNCHANGED stale
  /\ UNCHANGED <<vars, syncVars, published, effects, receipts, remote>>

\* A request or answer nobody waits for any more is gone.
Lose(s) ==
  /\ request[s] # None
  /\ \A w \in Worker : worker[w].slot # s
  /\ request' = [request EXCEPT ![s] = None]
  /\ UNCHANGED <<vars, syncVars, published, effects, receipts, stale, remote, faults>>

-----------------------------------------------------------------------------
Work(w) ==
  \/ Publish(w) \/ (\E s \in Slot : Send(w, s)) \/ Receive(w)
  \/ Acknowledge(w) \/ Discard(w) \/ Refused(w)

Handle(s) == LookUp(s) \/ Commit(s) \/ ClearStandings(s)

DNext ==
  \/ (Operator \/ Participant) /\ UNCHANGED <<syncVars, appVars, remote, faults>>
  \/ \E w \in Worker :
       \/ \E e \in Event : Lease(w, e)
       \/ Work(w) \/ GiveUp(w) \/ Crash(w) \/ Renew(w)
  \/ \E e \in Event : Expire(e) \/ BackoffElapses(e)
  \/ \E s \in Slot : Handle(s) \/ Lose(s)

DSpec == DInit /\ [][DNext]_dvars

\* The service loop calls sync_once for ever, clocks advance, the applications
\* answer.  A row that can be leased again and again is leased at last: a row
\* that fails waits longer than the loop does, which lets the others in.
DFairSpec ==
  /\ DSpec
  /\ \A w \in Worker : WF_dvars(Work(w))
  /\ \A e \in Event : /\ SF_dvars(\E w \in Worker : Lease(w, e))
                      /\ WF_dvars(Expire(e))
                      /\ WF_dvars(BackoffElapses(e))
  /\ \A s \in Slot : WF_dvars(Handle(s) \/ Lose(s))

-----------------------------------------------------------------------------
\* Every event has at most one effect in its application, and a delivered one
\* exactly one, however often it was sent (ridge_event, ridge_credit).
ExactlyOnceEffect ==
  \A e \in Event :
    /\ effects[e] \in {0, 1}
    /\ e \in delivered => effects[e] = 1

\* The core and the applications agree on the remote id of every delivered
\* event: the watermark that ridge.export_run compares never differs.
WatermarkAgrees ==
  \A e \in Event : remote[e] = IF e \in delivered THEN receipts[e] ELSE 0

\* A credit the core counts as delivered is on the scoreboard: the standings
\* were cleared after its commit, even if the first attempt to do so failed.
CreditIsVisible == delivered \cap stale = {}

\* The applications see the events of a chain in the order they were queued,
\* even when a superseded request is worked on late.
EffectsInOrder ==
  \A e \in DOMAIN outbox : \A p \in outbox[e] : effects[e] # 0 => effects[p] # 0

\* A finding or an ending is written on a task that exists, and a task and the
\* claim of its ticket come after the publication of all its evidence.
EvidenceBeforeTask ==
  /\ \A e \in Event : /\ effects[e] # 0 /\ NeedsTask(e) => effects[TicketEvent(e.ticket)] # 0
                      /\ effects[e] # 0 /\ e.kind = "ticket" => e.ticket \in published
  /\ \A m \in Team, t \in Ticket : status[m][t] = "active" => t \in published

\* While the site is fenced or exporting the applications are quiet too: a
\* request left over from before changes nothing in them.
QuietApplications ==
  [][fenced \/ exportToken # None => UNCHANGED <<effects, receipts, published>>]_dvars

=============================================================================
