------------------------------ MODULE Rehearsal ------------------------------
(***************************************************************************)
(* The rehearsal board: controllers append to a ledger beside the vault    *)
(* (scripts/control.py, scripts/exercise.py, by the command line or the     *)
(* panel of scripts/admin_server.py) while the cells' board                 *)
(* (app/server.py) reads it and stamps every comment with the exercise      *)
(* clock (app/exercise_clock.py).                                          *)
(*                                                                         *)
(* Controllers exclude each other by control.lock; a clock transition also *)
(* holds the board's database for writing, as a comment does, so that the  *)
(* two cannot pass each other.  Nothing joins the steps of a release.       *)
(***************************************************************************)
EXTENDS Integers, Sequences, SequencesExt, FiniteSets

CONSTANTS
  Controller,  \* commands that may be under way
  Request,     \* the board's requests that may be under way
  MaxHandlers, \* the board's handler slots
  MaxTime,     \* bound on the wall clock
  MaxEvents,   \* bound on the ledger
  MaxFaults    \* bound on kills and backward steps of the clock together

VARIABLES
  now,      \* the wall clock
  ledger,   \* control/ledger.json
  log,      \* release-log.json: the injects, in order
  public, staging,  \* injects participants can read; those being copied
  lock,     \* who made control.lock; None
  database, \* who holds tickets.sqlite for writing; None; Missing before the board ran
  comments, \* each with its time, the elapsed time and the clock event stored with it
  command, request,
  cut,      \* history: a release ended between its publication and its log
  late,     \* history: the database came into being under a clock transition, or the
            \* wall clock was set back behind a comment
  faults

vars == <<now, ledger, log, public, staging, lock, database, comments, command, request,
          cut, late, faults>>

None == "none"
Missing == "missing"
Transitions == {"start", "pause", "resume"}
Inject == 1 .. 3
NoCommand == [at |-> "idle", kind |-> None, inject |-> 0, when |-> 0]
NoRequest == [at |-> "idle", events |-> <<>>]

Init ==
  /\ now = 0 /\ ledger = <<>> /\ log = <<>> /\ public = {} /\ staging = {}
  /\ lock = None /\ database = Missing /\ comments = {}
  /\ command = [c \in Controller |-> NoCommand] /\ request = [r \in Request |-> NoRequest]
  /\ cut = FALSE /\ late = FALSE /\ faults = 0

-----------------------------------------------------------------------------
(* The exercise clock *)

\* One ledger event of control.position: a pause stops the clock, a resume starts it.
Advance(clock, event) ==
  [total   |-> clock.total + IF event.kind = "pause" THEN event.when - clock.anchor ELSE 0,
   anchor  |-> IF event.kind \in {"start", "resume"} THEN event.when
               ELSE IF event.kind = "pause" THEN -1 ELSE clock.anchor,
   started |-> clock.started \/ event.kind = "start",
   paused  |-> event.kind = "pause" \/ (clock.paused /\ event.kind # "resume")]

Stopped == [total |-> 0, anchor |-> -1, started |-> FALSE, paused |-> FALSE]

\* control.position: the clock after each number of events, and after all of them.
Clock(events) ==
  LET clock[n \in 0 .. Len(events)] ==
        IF n = 0 THEN Stopped ELSE Advance(clock[n - 1], events[n])
  IN  clock

Position(events) == Clock(events)[Len(events)]

Elapsed(clock, at) ==
  IF ~clock.started THEN -1 ELSE clock.total + IF clock.anchor = -1 THEN 0 ELSE at - clock.anchor

\* exercise_clock.elapsed_at: the events up to the first that is later.
ElapsedAt(events, at) ==
  LET upto == CHOOSE n \in 0 .. Len(events) :
                /\ \A k \in 1 .. n : events[k].when <= at
                /\ n < Len(events) => events[n + 1].when > at
  IN  Elapsed(Clock(events)[upto], at)

\* The injects of the release events, in order.
Releases(events) ==
  LET released[n \in 0 .. Len(events)] ==
        IF n = 0 THEN <<>>
        ELSE IF events[n].kind = "release" THEN Append(released[n - 1], events[n].inject)
        ELSE released[n - 1]
  IN  released[Len(events)]

-----------------------------------------------------------------------------
(* Controllers' commands *)

\* control.lock is made, or the command is refused.
Begin(c, kind, n) ==
  /\ command[c] = NoCommand /\ lock = None /\ Len(ledger) < MaxEvents
  /\ lock' = c
  /\ command' = [command EXCEPT ![c] =
       [at     |-> IF kind = "release" THEN "verify"
                   ELSE IF kind \in Transitions /\ database # Missing THEN "database" ELSE "read",
        kind   |-> kind, inject |-> n, when |-> 0]]
  /\ UNCHANGED <<now, ledger, log, public, staging, database, comments, request, cut, late, faults>>

\* Asked for at the command line, or in the facilitators' panel, where it is confirmed.
Command(c, kind, n) == Begin(c, kind, n)
Panel(c, kind, n) == Begin(c, kind, n)

\* A command that ends, refused or done, leaves the database and removes the lock.
Finish(c) ==
  /\ command' = [command EXCEPT ![c] = NoCommand]
  /\ lock' = None
  /\ database' = IF database = c THEN None ELSE database

TakeDatabase(c) ==
  /\ command[c].at = "database" /\ database = None
  /\ database' = c
  /\ command' = [command EXCEPT ![c].at = "read"]
  /\ UNCHANGED <<now, ledger, log, public, staging, lock, comments, request, cut, late, faults>>

Allowed(events, kind) ==
  LET clock == Position(events) IN
  /\ kind = "start" => ~clock.started
  /\ kind = "pause" => clock.started /\ ~clock.paused
  /\ kind = "resume" => clock.paused
  /\ kind = "decision" => clock.started

\* control.read: transitions in order, and the wall clock never back.
ValidLedger(events) ==
  \A k \in DOMAIN events :
    /\ events[k].kind \in Transitions => Allowed(SubSeq(events, 1, k - 1), events[k].kind)
    /\ k > 1 => events[k].when >= events[k - 1].when

\* The ledger is read and the time taken, which may not be before the last event's: a
\* release refused here has been published already.
ReadLedger(c) ==
  /\ command[c].at = "read"
  /\ IF ValidLedger(ledger) /\ Allowed(ledger, command[c].kind)
        /\ (ledger = <<>> \/ now >= Last(ledger).when)
       THEN /\ command' = [command EXCEPT ![c].at = "save", ![c].when = now]
            /\ UNCHANGED <<lock, database, cut>>
       ELSE Finish(c) /\ cut' = (cut \/ command[c].kind = "release")
  /\ UNCHANGED <<now, ledger, log, public, staging, comments, request, late, faults>>

SaveLedger(c) ==
  /\ command[c].at = "save"
  /\ ledger' = Append(ledger, [kind |-> command[c].kind, when |-> command[c].when,
                               inject |-> command[c].inject])
  /\ IF command[c].kind = "release"
       THEN command' = [command EXCEPT ![c].at = "log"] /\ UNCHANGED <<lock, database>>
       ELSE Finish(c)
  /\ UNCHANGED <<now, log, public, staging, comments, request, cut, late, faults>>

\* Seeded fault (ReleasesAgree): a release does not verify what went before it.
VerifyNothing == TRUE

\* verify: the directories are sequential and the log, the ledger and they agree.
Verify == log = Releases(ledger) /\ {log[k] : k \in DOMAIN log} = public

\* In order, not twice, and not over what an interrupted release left.
VerifyRelease(c) ==
  /\ command[c].at = "verify"
  /\ LET n == command[c].inject IN
     IF Verify /\ n \notin public /\ (n = 1 \/ n - 1 \in public) /\ n \notin staging
       THEN /\ command' = [command EXCEPT ![c].at = "stage"]
            /\ UNCHANGED <<lock, database>>
       ELSE Finish(c)
  /\ UNCHANGED <<now, ledger, log, public, staging, comments, request, cut, late, faults>>

Stage(c) ==
  /\ command[c].at = "stage"
  /\ staging' = staging \cup {command[c].inject}
  /\ command' = [command EXCEPT ![c].at = "publish"]
  /\ UNCHANGED <<now, ledger, log, public, lock, database, comments, request, cut, late, faults>>

Publish(c) ==
  /\ command[c].at = "publish"
  /\ staging' = staging \ {command[c].inject}
  /\ public' = public \cup {command[c].inject}
  /\ command' = [command EXCEPT ![c].at = "read"]
  /\ UNCHANGED <<now, ledger, log, lock, database, comments, request, cut, late, faults>>

WriteLog(c) ==
  /\ command[c].at = "log"
  /\ log' = Append(log, command[c].inject)
  /\ Finish(c)
  /\ UNCHANGED <<now, ledger, public, staging, comments, request, cut, late, faults>>

\* SQLite's lock goes with the process; control.lock stays for somebody to look at.
Kill(c) ==
  /\ command[c] # NoCommand /\ faults < MaxFaults /\ faults' = faults + 1
  /\ command' = [command EXCEPT ![c] = NoCommand]
  /\ database' = IF database = c THEN None ELSE database
  /\ cut' = (cut \/ command[c].kind = "release")
  /\ UNCHANGED <<now, ledger, log, public, staging, lock, comments, request, late>>

\* The operator, having looked: the lock and the copy begun are cleared.
Inspect ==
  /\ lock # None /\ command[lock] = NoCommand
  /\ lock' = None /\ staging' = {}
  /\ UNCHANGED <<now, ledger, log, public, database, comments, command, request, cut, late, faults>>

-----------------------------------------------------------------------------
(* The board *)

InitializeDatabase == database = Missing /\ database' = None

Serve ==
  /\ InitializeDatabase
  /\ late' = (late \/ \E c \in Controller : command[c].kind \in Transitions)
  /\ UNCHANGED <<now, ledger, log, public, staging, lock, comments, command, request, cut, faults>>

Busy == {r \in Request : request[r] # NoRequest}

\* A handler slot, or 503.
Admitted == Cardinality(Busy) < MaxHandlers

\* An authenticated, well-formed update waits for the database.
Update(r) ==
  /\ request[r] = NoRequest /\ database # Missing /\ Admitted
  /\ request' = [request EXCEPT ![r].at = "database"]
  /\ UNCHANGED <<now, ledger, log, public, staging, lock, database, comments, command, cut, late,
                 faults>>

\* Seeded fault (CommentsOnClock): the ledger is read before the database is held.
BeginImmediateLate(r) ==
  /\ request[r].at = "database" /\ UNCHANGED database
  /\ request' = [request EXCEPT ![r].at = "control"]
  /\ UNCHANGED <<now, ledger, log, public, staging, lock, comments, command, cut, late, faults>>

BeginImmediate(r) ==
  /\ request[r].at = "database" /\ database = None
  /\ database' = r
  /\ request' = [request EXCEPT ![r].at = "control"]
  /\ UNCHANGED <<now, ledger, log, public, staging, lock, comments, command, cut, late, faults>>

Leave(r) ==
  /\ request' = [request EXCEPT ![r] = NoRequest]
  /\ database' = IF database = r THEN None ELSE database

\* The last transition of the ledger must not be a pause; 409 otherwise.
ReadControl(r) ==
  /\ request[r].at = "control"
  /\ LET transitions == {k \in DOMAIN ledger : ledger[k].kind \in Transitions} IN
     IF transitions # {} /\ ledger[Max(transitions)].kind # "pause"
       THEN /\ request' = [request EXCEPT ![r] = [at |-> "insert", events |-> ledger]]
            /\ UNCHANGED database
       ELSE Leave(r)
  /\ UNCHANGED <<now, ledger, log, public, staging, lock, comments, command, cut, late, faults>>

InsertComment(r) ==
  /\ request[r].at = "insert"
  /\ comments' = comments \cup {[created |-> now, elapsed |-> ElapsedAt(request[r].events, now)]}
  /\ Leave(r)
  /\ UNCHANGED <<now, ledger, log, public, staging, lock, command, cut, late, faults>>

Tick ==
  /\ now < MaxTime /\ now' = now + 1
  /\ UNCHANGED <<ledger, log, public, staging, lock, database, comments, command, request, cut,
                 late, faults>>

StepBack ==
  /\ now > 0 /\ now' = now - 1 /\ faults < MaxFaults /\ faults' = faults + 1
  /\ late' = (late \/ \E c \in comments : c.created = now)
  /\ UNCHANGED <<ledger, log, public, staging, lock, database, comments, command, request, cut>>

Next ==
  \/ \E c \in Controller :
       \/ \E kind \in Transitions \cup {"decision"} : Command(c, kind, 0) \/ Panel(c, kind, 0)
       \/ \E n \in Inject : Command(c, "release", n) \/ Panel(c, "release", n)
       \/ TakeDatabase(c) \/ ReadLedger(c) \/ SaveLedger(c)
       \/ VerifyRelease(c) \/ Stage(c) \/ Publish(c) \/ WriteLog(c) \/ Kill(c)
  \/ \E r \in Request : Update(r) \/ BeginImmediate(r) \/ ReadControl(r) \/ InsertComment(r)
  \/ Inspect \/ Serve \/ Tick \/ StepBack

Spec == Init /\ [][Next]_vars

-----------------------------------------------------------------------------
(* Properties *)

\* The elapsed time stored with a comment is what the ledger says of that moment for
\* good, whatever is appended later - unless the board came up under the very command
\* that moved the exercise clock, or the wall clock was set back behind the comment.
CommentsOnClock ==
  ~late => \A c \in comments : c.elapsed = ElapsedAt(ledger, c.created)

\* Injects are published in order and once; the ledger is at most one release behind the
\* directories and the log at most one behind the ledger, under any kill, and with nobody
\* at work and no release cut short the three agree.
ReleasesAgree ==
  LET released == Releases(ledger) IN
  /\ public = 1 .. Cardinality(public)
  /\ released = [k \in 1 .. Len(released) |-> k] /\ IsPrefix(log, released)
  /\ Cardinality(public) - Len(released) \in {0, 1} /\ Len(released) - Len(log) \in {0, 1}
  /\ lock = None /\ ~cut => Verify

=============================================================================
