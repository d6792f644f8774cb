------------------------------ MODULE SyncLoop ------------------------------
(***************************************************************************)
(* The one delivery thread of the integration service (ridge/service.py)   *)
(* and the clock it lives by: it calls State.sync_once, waits a second if  *)
(* nothing was delivered, and calls again.  sync_once takes the oldest row *)
(* that is due; a row whose application does not answer holds the thread   *)
(* until the request times out, and is then put off by its own back-off.   *)
(*                                                                         *)
(* Time is in seconds.  Rows are numbered in the order they were queued    *)
(* and belong to different chains, so no row waits for another one.        *)
(***************************************************************************)
EXTENDS Integers, FiniteSetsExt

CONSTANTS
  Rows,        \* number of rows ever queued
  Affected,    \* the rows bound for the application that has the outage
  Timeout,     \* seconds a request to a silent application lasts (8)
  Pause,       \* seconds between two calls after an unsuccessful one (1)
  RetryDelay,  \* first back-off (2)
  MaxDelay,    \* largest back-off (30)
  Latency,     \* bound on the seconds a request to a healthy application takes
  MaxWait,     \* the longest a row that is due may have to wait
  MaxOutages   \* bound on the number of outages

VARIABLES
  queued,    \* rows 1..queued are in the outbox
  done,      \* outbox.done
  attempts,  \* outbox.attempts, which matters up to 4
  due,       \* retry_at minus now: negative while the row has been due
  down,      \* the application of the affected rows is silent
  outages    \* outages so far

vars == <<queued, done, attempts, due, down, outages>>

Row == 1..Rows
Pending == 1..queued \ done

Due == {r \in Pending : due[r] <= 0}

\* How far back a wait is remembered.
Floor == -(MaxWait + 1)

\* The clock of every pending row after some seconds; moved: rows just put off.
After(seconds, clocks) ==
  [r \in Row |-> IF r \in Pending THEN Max({Floor, clocks[r] - seconds}) ELSE clocks[r]]

\* Seeded fault (WaitBounded): the back-off does not grow.
DelayConstant(r) == RetryDelay

Delay(r) == Min({MaxDelay, RetryDelay * 2 ^ attempts[r]})

Init ==
  /\ queued = 0
  /\ done = {}
  /\ attempts = [r \in Row |-> 0]
  /\ due = [r \in Row |-> 0]
  /\ down = FALSE
  /\ outages = 0

Enqueue ==
  /\ queued < Rows
  /\ queued' = queued + 1
  /\ UNCHANGED <<done, attempts, due, down, outages>>

GoSilent ==
  /\ ~down
  /\ outages < MaxOutages
  /\ down' = TRUE
  /\ outages' = outages + 1
  /\ UNCHANGED <<queued, done, attempts, due>>

Recover ==
  /\ down
  /\ down' = FALSE
  /\ UNCHANGED <<queued, done, attempts, due, outages>>

\* One call of sync_once and the wait that follows it.
Deliver ==
  /\ Due # {}
  /\ LET r == Min(Due)
     IN  /\ ~(down /\ r \in Affected)
         /\ done' = done \cup {r}
         /\ \E seconds \in 0..Latency : due' = [After(seconds, due) EXCEPT ![r] = 0]
         /\ attempts' = [attempts EXCEPT ![r] = 0]
  /\ UNCHANGED <<queued, down, outages>>

TimeOut ==
  /\ Due # {}
  /\ LET r == Min(Due)
     IN  /\ down /\ r \in Affected
         /\ due' = After(Pause, [After(Timeout, due) EXCEPT ![r] = Delay(r)])
         /\ attempts' = [attempts EXCEPT ![r] = Min({4, @ + 1})]
  /\ UNCHANGED <<queued, done, down, outages>>

Rest ==
  /\ Due = {}
  /\ due' = After(Pause, due)
  /\ UNCHANGED <<queued, done, attempts, down, outages>>

Loop == Deliver \/ TimeOut \/ Rest

Next == Enqueue \/ GoSilent \/ Recover \/ Loop

Spec == Init /\ [][Next]_vars

\* The thread runs for as long as the service does.
FairSpec == Spec /\ WF_vars(Loop)

-----------------------------------------------------------------------------
\* No row that is due, healthy or not, is passed over for longer than MaxWait:
\* the back-offs of the failing rows leave the thread enough time for the rest
\* (sync_once: oldest row first).
WaitBounded == \A r \in Pending : due[r] >= -MaxWait

\* A row of an application that answers is delivered although the other
\* application is silent: docs/resilience.md, "Unrelated tickets can advance
\* when another chain fails".
UnrelatedAdvance == \A r \in Row \ Affected : (r <= queued) ~> (r \in done)

=============================================================================
