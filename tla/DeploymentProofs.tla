-------------------------- MODULE DeploymentProofs --------------------------
(***************************************************************************)
(* Proofs about the lifecycle, for any number of operators and faults and  *)
(* any bound on the audit rows:                                            *)
(*   - it implements the run the facilitators were promised (EventRun);    *)
(*   - a journal that says ready or running has every stage verified.      *)
(*                                                                         *)
(* The first rests on what the store's rows say of one another             *)
(* (StoreInv), the second on the event lock: only its holder touches the   *)
(* steps, and what the holder has established so far is in Own.            *)
(***************************************************************************)
EXTENDS Deployment, TLAPS

Control == [provisioned : BOOLEAN, mode : {"paused", "running"}, fenced : BOOLEAN]

\* An unprovisioned store is paused, unfenced and holds its initial tasks undelivered;
\* that is what keeps fence away from it.
StoreInv ==
  /\ control \in Control
  /\ mark \in Nat /\ workMark \in Nat /\ workMark <= mark
  /\ control.provisioned => file = "made"
  /\ ~control.provisioned => control.mode = "paused" /\ ~control.fenced
  /\ ~control.provisioned /\ file = "made" => pending

Held == {"stage", "apply", "probe", "spawn", "record", "commit", "mode", "stop", "copy"}
Free == {"idle", "wait"}
Call == [cmd : {"none", "up", "start", "pause", "down", "backup", "fence"},
         at : Held \cup Free, n : Nat, flag : BOOLEAN]

\* The name that stands for a free lock is no process.
NoneFresh == None \notin Operator

\* Whoever is past its lock holds it.
LockHeld == \A o \in Operator : call[o].at \in Held => lock = o

\* What the holder of the lock knows: up has verified the stages before the one it is
\* at, and re-opens one only after a down; start saw, or missed, all of them verified.
Own(o) ==
  /\ call[o].cmd = "up" /\ call[o].at \in Held =>
       /\ call[o].n >= 1 /\ \A i \in Stage : i < call[o].n => step[i] = "verified"
       /\ call[o].flag => journal = "STOPPED"
       /\ call[o].at \in {"apply", "probe"} => call[o].n \in Stage /\ step[call[o].n] = "started"
  /\ call[o].cmd = "start" /\ call[o].at \in Held => AllVerified \/ raced

IInv ==
  /\ NoneFresh
  /\ StoreInv
  /\ call \in [Operator -> Call]
  /\ step \in [Stage -> {"pending", "started", "failed", "verified"}]
  /\ LockHeld
  /\ \A o \in Operator : Own(o)
  /\ ReadyMeansVerified

LEMMA Stages == Stage = 1..7
BY DEF Stage, STAGES

LEMMA InitIInv == NoneFresh /\ Init => IInv
<1> SUFFICES ASSUME NoneFresh, Init
             PROVE  IInv
  OBVIOUS
<1>1. StoreInv
  BY DEF Init, StoreInv, Control
<1>2. call = [o \in Operator |-> Idle] /\ Idle \in Call /\ Idle.at = "idle"
  BY DEF Init, Idle, Call, Free
<1>3. call \in [Operator -> Call] /\ \A o \in Operator : call[o].at \notin Held
  BY <1>2 DEF Held
<1>4. step \in [Stage -> {"pending", "started", "failed", "verified"}] /\ journal = "none"
  BY DEF Init
<1> QED
  BY <1>1, <1>3, <1>4 DEF IInv, LockHeld, Own, ReadyMeansVerified

-----------------------------------------------------------------------------
(* What a step can do to the store *)

Untouched ==
  /\ UNCHANGED <<file, control, mark, workMark>>
  /\ pending' = pending \/ control.provisioned

InitialisedPartly ==
  /\ file = "none" /\ file' \in {"empty", "made"} /\ pending' = (file' = "made")
  /\ UNCHANGED <<control, mark, workMark>>

Provisioned == file # "empty" /\ ApplyProvisioned

ModeSet ==
  /\ \E value \in {"running", "paused"} : SetMode(value)
  /\ UNCHANGED <<file, pending, workMark>>

Fenced ==
  /\ Quiescent /\ ~control.fenced
  /\ control' = [control EXCEPT !.fenced = TRUE]
  /\ mark' = mark + 1
  /\ UNCHANGED <<file, pending, workMark>>

Worked ==
  /\ file = "made" /\ control.mode = "running" /\ ~control.fenced
  /\ mark' = mark + 1 /\ workMark' = mark + 1
  /\ pending' \in {TRUE, pending}
  /\ UNCHANGED <<file, control>>

Touches ==
  Untouched \/ InitialisedPartly \/ Provisioned \/ ModeSet \/ Fenced \/ Worked

LEMMA ApplyTouches ==
  ASSUME NEW i \in Stage, Appliable(i), Apply(i)
  PROVE  Untouched \/ Provisioned
<1> USE DEF Untouched, Provisioned, storeVars
<1>1. CASE i = 1
  BY <1>1 DEF Apply
<1>2. CASE i = 2
  BY <1>2 DEF Apply, ApplyInfrastructure
<1>3. CASE i = 3
  BY <1>3 DEF Apply, ApplyApplications
<1>4. CASE i = 4
  BY <1>4 DEF Apply, ApplyIdentities
<1>5. CASE i = 5
  BY <1>5 DEF Apply, ApplyDesktops
<1>6. CASE i = 6
  BY <1>6 DEF Apply, ApplyEvidence
<1>7. CASE i = 7
  BY <1>7 DEF Apply, Appliable
<1> QED
  BY <1>1, <1>2, <1>3, <1>4, <1>5, <1>6, <1>7, Stages

\* Every step treats the store in one of these ways.
LEMMA StepTouches == IInv /\ [Next]_vars => Touches
<1> SUFFICES ASSUME IInv, [Next]_vars
             PROVE  Touches
  OBVIOUS
<1> USE DEF storeVars, hostVars
<1>1. ASSUME NEW o \in Operator,
             \/ UpBegin(o) \/ StartCheck(o) \/ Pause(o) \/ Down(o) \/ Backup(o) \/ UpStage(o)
             \/ UpProbe(o) \/ StartLock(o) \/ LockTimeout(o) \/ StartWorker(o) \/ StartCommit(o)
             \/ DownStop(o) \/ DownCommit(o) \/ BackupDone(o) \/ FenceStop(o)
      PROVE  Untouched
  BY <1>1 DEF Untouched, UpBegin, StartCheck, Pause, Down, Backup, UpStage, UpProbe, StartLock,
     LockTimeout, StartWorker, StartCommit, DownStop, DownCommit, BackupDone, FenceStop
<1>2. ASSUME NEW o \in Operator, Fence(o)
      PROVE  Fenced
  BY <1>2 DEF Fence, Fenced, Audited
<1>3. ASSUME NEW o \in Operator, UpApply(o)
      PROVE  Touches
  <2>1. call[o].n \in Stage
    BY <1>3 DEF UpApply, At, IInv, Own, Held
  <2>2. CASE Appliable(call[o].n) /\ Apply(call[o].n)
    BY <2>1, <2>2, ApplyTouches DEF Touches
  <2>3. CASE UNCHANGED storeVars
    BY <2>3 DEF Touches, Untouched
  <2>4. CASE ApplyPartly(call[o].n)
    BY <2>4 DEF ApplyPartly, Touches, Untouched, InitialisedPartly
  <2> QED BY <1>3, <2>2, <2>3, <2>4 DEF UpApply
<1>4. ASSUME NEW o \in Operator, StartRun(o) \/ StartRecord(o) \/ PauseMode(o)
      PROVE  Untouched \/ ModeSet
  <2>1. UNCHANGED <<file, pending, workMark>>
    BY <1>4 DEF StartRun, StartRecord, PauseMode
  <2>2. UNCHANGED <<control, mark>> \/ \E value \in {"running", "paused"} : SetMode(value)
    BY <1>4 DEF StartRun, StartRecord, PauseMode, NotAudited
  <2> QED BY <2>1, <2>2 DEF Untouched, ModeSet
<1>5. ASSUME NEW o \in Operator, Crash(o)
      PROVE  Untouched \/ InitialisedPartly
  BY <1>5 DEF Crash, ApplyPartly, Untouched, InitialisedPartly
<1>6. ASSUME NEW value \in {"running", "paused"}, CliMode(value)
      PROVE  ModeSet
  BY <1>6 DEF CliMode, ModeSet
<1>7. CASE Work
  BY <1>7 DEF Work, Audited, Worked, Touches
<1>8. CASE Deliver
  BY <1>8 DEF Deliver, Untouched, Touches
<1>9. CASE Checkpoint \/ Break \/ Repair \/ UNCHANGED vars
  BY <1>9 DEF Checkpoint, Break, Repair, vars, Untouched, Touches
<1> QED
  BY <1>1, <1>2, <1>3, <1>4, <1>5, <1>6, <1>7, <1>8, <1>9
  DEF Next, CommandStep, UpStep, Touches

LEMMA ControlExcept ==
  ASSUME control \in Control, NEW b \in BOOLEAN, NEW v \in {"paused", "running"}
  PROVE  /\ [control EXCEPT !.provisioned = b] =
              [provisioned |-> b, mode |-> control.mode, fenced |-> control.fenced]
         /\ [control EXCEPT !.fenced = b] =
              [provisioned |-> control.provisioned, mode |-> control.mode, fenced |-> b]
         /\ [control EXCEPT !.mode = v] =
              [provisioned |-> control.provisioned, mode |-> v, fenced |-> control.fenced]
         /\ control.provisioned \in BOOLEAN /\ control.fenced \in BOOLEAN
         /\ control.mode \in {"paused", "running"}
BY DEF Control

\* Each way keeps StoreInv and is a step of EventRun, or none.
LEMMA TouchSound ==
  ASSUME StoreInv, Touches
  PROVE  StoreInv' /\ [Run!Next]_(Run!vars)
<1> USE DEF StoreInv, Phase, Run!Next, Run!vars, Run!Prepare, Run!Begin, Run!Accept, Run!Interrupt, Run!Seal
<1>0. control \in Control
  OBVIOUS
<1>1. CASE Untouched
  BY <1>1 DEF Untouched
<1>2. CASE InitialisedPartly
  BY <1>2 DEF InitialisedPartly
<1>3. CASE Provisioned
  <2>1. CASE control.provisioned
    BY <1>3, <2>1 DEF Provisioned, ApplyProvisioned, NotAudited
  <2>2. CASE ~control.provisioned
    <3>1. control' = [provisioned |-> TRUE, mode |-> "paused", fenced |-> FALSE] /\ mark' = mark + 1
      BY <1>0, <1>3, <2>2, ControlExcept DEF Provisioned, ApplyProvisioned, Audited
    <3>2. file' = "made" /\ workMark' = workMark
      BY <1>3 DEF Provisioned, ApplyProvisioned
    <3> QED BY <2>2, <3>1, <3>2 DEF Control
  <2> QED BY <2>1, <2>2
<1>4. CASE ModeSet
  <2> PICK value \in {"running", "paused"} : SetMode(value)
    BY <1>4 DEF ModeSet
  <2>0. UNCHANGED <<file, pending, workMark>>
    BY <1>4 DEF ModeSet
  <2>1. CASE control.mode = value
    BY <2>0, <2>1 DEF SetMode, NotAudited
  <2>2. CASE control.mode # value
    <3>1. control' = [provisioned |-> control.provisioned, mode |-> value, fenced |-> control.fenced]
      BY <1>0, <2>2, ControlExcept DEF SetMode
    <3>2. mark' = mark + 1 /\ ~control.fenced /\ control.provisioned
      BY <2>2 DEF SetMode, Audited
    <3>3. StoreInv'
      BY <1>0, <2>0, <3>1, <3>2, ControlExcept DEF Control
    <3>4. Phase = control.mode /\ Phase' = value
      BY <2>0, <3>1, <3>2
    <3>5. [Run!Next]_(Run!vars)
      BY <1>0, <2>0, <2>2, <3>4, ControlExcept
    <3> QED BY <3>3, <3>5
  <2> QED BY <2>1, <2>2
<1>5. CASE Fenced
  <2>1. control' = [provisioned |-> control.provisioned, mode |-> control.mode, fenced |-> TRUE]
    BY <1>0, <1>5, ControlExcept DEF Fenced
  <2>2. control.provisioned /\ file = "made" /\ control.mode = "paused" /\ ~control.fenced
    BY <1>5 DEF Fenced, Quiescent
  <2>3. mark' = mark + 1 /\ UNCHANGED <<file, pending, workMark>>
    BY <1>5 DEF Fenced
  <2> QED BY <1>0, <2>1, <2>2, <2>3 DEF Control
<1>6. CASE Worked
  BY <1>6 DEF Worked
<1> QED BY <1>1, <1>2, <1>3, <1>4, <1>5, <1>6 DEF Touches

-----------------------------------------------------------------------------
(* The lock and the steps *)

\* A step of o changes no other process, takes the lock only when it is free and gives
\* up only its own.
Moves(o) ==
  /\ call' \in [Operator -> Call]
  /\ \A q \in Operator \ {o} : call'[q] = call[q]
  /\ call'[o].at \in Held => lock' = o
  /\ lock' = lock \/ (lock = None /\ lock' = o) \/ (lock = o /\ lock' = None)

LEMMA SetsCall ==
  ASSUME IInv, NEW o \in Operator, NEW c \in Call, call' = [call EXCEPT ![o] = c],
         c.at \in Held => lock' = o,
         lock' = lock \/ (lock = None /\ lock' = o) \/ (lock = o /\ lock' = None)
  PROVE  Moves(o) /\ call'[o] = c
BY DEF IInv, Moves

LEMMA GoMoves ==
  ASSUME IInv, NEW o \in Operator, NEW x \in Held, call[o].at \in Held, Go(o, x)
  PROVE  /\ Moves(o)
         /\ call'[o].cmd = call[o].cmd /\ call'[o].n = call[o].n
         /\ call'[o].flag = call[o].flag /\ call'[o].at = x
<1> DEFINE c == [call[o] EXCEPT !.at = x]
<1>1. call \in [Operator -> Call] /\ call[o] \in Call
  BY DEF IInv
<1>2. [call[o] EXCEPT !.at = x] \in Call
  BY <1>1 DEF Call
<1>3. c \in Call /\ c.cmd = call[o].cmd /\ c.n = call[o].n /\ c.flag = call[o].flag /\ c.at = x
  BY <1>1, <1>2 DEF Call
<1>4. call' = [call EXCEPT ![o] = c] /\ lock' = lock
  BY <1>1 DEF Go, Call
<1>5. lock = o
  BY DEF IInv, LockHeld
<1> HIDE DEF c
<1> QED BY <1>3, <1>4, <1>5, SetsCall

\* The next stage, or the next project to stop.
LEMMA NextMoves ==
  ASSUME IInv, NEW o \in Operator, NEW x \in Held, call[o].at \in Held, lock' = lock,
         call' = [call EXCEPT ![o].n = call[o].n + 1, ![o].at = x]
  PROVE  /\ Moves(o)
         /\ call'[o].cmd = call[o].cmd /\ call'[o].n = call[o].n + 1
         /\ call'[o].flag = call[o].flag /\ call'[o].at = x
<1> DEFINE c == [call[o] EXCEPT !.n = call[o].n + 1, !.at = x]
<1>1. call \in [Operator -> Call] /\ call[o] \in Call /\ call[o].n + 1 \in Nat
  BY DEF IInv, Call
<1>2. [call[o] EXCEPT !.n = call[o].n + 1, !.at = x] \in Call
  BY <1>1 DEF Call
<1>3. c \in Call /\ c.cmd = call[o].cmd /\ c.n = call[o].n + 1 /\ c.flag = call[o].flag /\ c.at = x
  BY <1>1, <1>2 DEF Call
<1>4. call' = [call EXCEPT ![o] = c]
  BY <1>1 DEF Call
<1>5. lock = o
  BY DEF IInv, LockHeld
<1> HIDE DEF c
<1> QED BY <1>3, <1>4, <1>5, SetsCall

LEMMA SameAt ==
  ASSUME IInv, NEW o \in Operator, NEW k, call' = [call EXCEPT ![o].n = k]
  PROVE  call' = [call EXCEPT ![o].n = k, ![o].at = call[o].at]
BY DEF IInv, Call

LEMMA EndsMoves ==
  ASSUME IInv, NEW o \in Operator, call[o].at \in Held, Ends(o)
  PROVE  Moves(o) /\ Own(o)'
<1>1. Idle \in Call /\ Idle.at = "idle"
  BY DEF Idle, Call, Free
<1>2. lock = o
  BY DEF IInv, LockHeld
<1>3. Moves(o) /\ call'[o] = Idle
  BY <1>1, <1>2, SetsCall DEF Ends, Held
<1> QED BY <1>1, <1>3 DEF Own, Held

LEMMA TakesMoves ==
  ASSUME IInv, NEW o \in Operator, lock = None, lock' = o,
         NEW cmd \in {"up", "pause", "down", "backup", "fence"}, NEW at \in Held,
         NEW n \in Nat, NEW flag \in BOOLEAN,
         call' = [call EXCEPT ![o] = [cmd |-> cmd, at |-> at, n |-> n, flag |-> flag]]
  PROVE  /\ Moves(o)
         /\ call'[o].cmd = cmd /\ call'[o].at = at /\ call'[o].n = n /\ call'[o].flag = flag
<1> DEFINE c == [cmd |-> cmd, at |-> at, n |-> n, flag |-> flag]
<1>1. c \in Call /\ c.cmd = cmd /\ c.at = at /\ c.n = n /\ c.flag = flag
  BY DEF Call
<1>2. call' = [call EXCEPT ![o] = c]
  OBVIOUS
<1> HIDE DEF c
<1> QED BY <1>1, <1>2, SetsCall

\* A disciplined step keeps the invariant if what its process knows afterwards is true
\* and it changes journal and steps only without another holder.
LEMMA MovesKeep ==
  ASSUME IInv, NEW o \in Operator, StoreInv', Moves(o), Own(o)', ReadyMeansVerified',
         step' \in [Stage -> {"pending", "started", "failed", "verified"}],
         lock \in {None, o} \/ UNCHANGED <<journal, step, raced>>
  PROVE  IInv'
<1>1. LockHeld'
  <2> SUFFICES ASSUME NEW q \in Operator, call'[q].at \in Held
               PROVE  lock' = q
    BY DEF LockHeld
  <2>1. CASE q = o
    BY <2>1 DEF Moves
  <2>2. CASE q # o
    BY <2>2 DEF Moves, IInv, LockHeld, NoneFresh
  <2> QED BY <2>1, <2>2
<1>2. ASSUME NEW q \in Operator
      PROVE  Own(q)'
  <2>1. CASE q = o
    BY <2>1
  <2>2. CASE q # o /\ call'[q].at \notin Held
    BY <2>2 DEF Own
  <2>3. CASE q # o /\ call'[q].at \in Held
    <3>1. call'[q] = call[q] /\ lock = q
      BY <2>3 DEF Moves, IInv, LockHeld
    <3>2. UNCHANGED <<journal, step, raced>>
      BY <2>3, <3>1 DEF IInv, NoneFresh
    <3>3. Own(q)
      BY DEF IInv
    <3> QED BY <3>1, <3>2, <3>3 DEF Own, AllVerified
  <2> QED BY <2>1, <2>2, <2>3
<1> QED BY <1>1, <1>2 DEF IInv, Moves, NoneFresh

\* Commands other than up and start know nothing of the steps.
LEMMA OthersOwn ==
  ASSUME NEW o \in Operator, call'[o].cmd \notin {"up", "start"}
  PROVE  Own(o)'
BY DEF Own

\* What the steps of up do.
LEMMA UpKeeps ==
  ASSUME IInv, StoreInv', NEW o \in Operator, UpStage(o) \/ UpApply(o) \/ UpProbe(o)
  PROVE  IInv'
<1> DEFINE i == call[o].n
<1>0. /\ call[o] \in Call /\ i \in Nat /\ Own(o) /\ ReadyMeansVerified
      /\ step \in [Stage -> {"pending", "started", "failed", "verified"}]
      /\ call[o].cmd = "up" /\ call[o].at \in Held /\ lock = o /\ raced' = raced
  BY DEF UpStage, UpApply, UpProbe, At, IInv, Held, Call, LockHeld
<1>1. /\ i >= 1 /\ \A j \in Stage : j < i => step[j] = "verified"
      /\ call[o].flag => journal = "STOPPED"
      /\ call[o].at \in {"apply", "probe"} => i \in Stage /\ step[i] = "started"
  BY <1>0 DEF Own
<1>2. CASE UpStage(o)
  <2>0. call[o].at = "stage"
    BY <1>2 DEF UpStage, At
  <2>1. CASE i > 7 /\ SetState("PROVISIONED_PAUSED") /\ Ends(o) /\ UNCHANGED step
    <3>1. AllVerified'
      BY <1>0, <1>1, <2>1, Stages DEF AllVerified
    <3>2. Moves(o) /\ Own(o)'
      BY <1>0, <2>1, EndsMoves
    <3> QED BY <1>0, <2>1, <3>1, <3>2, MovesKeep DEF ReadyMeansVerified
  <2>2. CASE /\ i <= 7 /\ step[i] = "verified" /\ Probe(i)
             /\ call' = [call EXCEPT ![o].n = i + 1]
             /\ UNCHANGED <<journal, step, lock>>
    <3>1. /\ Moves(o) /\ call'[o].n = i + 1 /\ call'[o].cmd = "up"
          /\ call'[o].flag = call[o].flag /\ call'[o].at = "stage"
      BY <1>0, <2>0, <2>2, SameAt, NextMoves
    <3>2. Own(o)'
      BY <1>0, <1>1, <2>2, <3>1, Stages DEF Own
    <3>3. ReadyMeansVerified'
      BY <1>0, <2>2 DEF ReadyMeansVerified, AllVerified
    <3> QED BY <1>0, <2>2, <3>1, <3>2, <3>3, MovesKeep
  <2>3. CASE Ends(o) /\ UNCHANGED <<journal, step>>
    <3>1. ReadyMeansVerified'
      BY <1>0, <2>3 DEF ReadyMeansVerified, AllVerified
    <3> QED BY <1>0, <2>3, <3>1, EndsMoves, MovesKeep
  <2>4. CASE /\ i <= 7 /\ (step[i] = "verified" => ~Probe(i) /\ call[o].flag)
             /\ StepBegins(i) /\ Go(o, "apply") /\ UNCHANGED journal
    <3>1. i \in Stage
      BY <1>0, <1>1, <2>4, Stages
    <3>2. step' = [step EXCEPT ![i] = "started"] /\ "apply" \in Held
      BY <2>4 DEF StepBegins, Held
    <3>3. /\ Moves(o) /\ call'[o].n = i /\ call'[o].cmd = "up"
          /\ call'[o].flag = call[o].flag /\ call'[o].at = "apply"
      BY <1>0, <2>4, <3>2, GoMoves
    <3>4. Own(o)'
      BY <1>0, <1>1, <2>4, <3>1, <3>2, <3>3, Stages DEF Own
    <3>5. ReadyMeansVerified'
      BY <1>0, <1>1, <2>4, <3>1 DEF ReadyMeansVerified, AllVerified
    <3> QED BY <1>0, <3>2, <3>3, <3>4, <3>5, MovesKeep
  <2> QED BY <1>2, <2>1, <2>2, <2>3, <2>4 DEF UpStage
<1>3. CASE UpApply(o)
  <2>0. call[o].at = "apply" /\ i \in Stage /\ step[i] = "started" /\ journal' = journal
    BY <1>1, <1>3 DEF UpApply, At
  <2>1. CASE Go(o, "probe") /\ UNCHANGED step
    <3>1. "probe" \in Held
      BY DEF Held
    <3>2. /\ Moves(o) /\ call'[o].n = i /\ call'[o].cmd = "up"
          /\ call'[o].flag = call[o].flag /\ call'[o].at = "probe"
      BY <1>0, <2>1, <3>1, GoMoves
    <3>3. Own(o)'
      BY <1>0, <1>1, <2>0, <2>1, <3>2 DEF Own
    <3>4. ReadyMeansVerified'
      BY <1>0, <2>0, <2>1 DEF ReadyMeansVerified, AllVerified
    <3> QED BY <1>0, <2>1, <3>2, <3>3, <3>4, MovesKeep
  <2>2. CASE StepFails(i) /\ Ends(o)
    <3>1. step' = [step EXCEPT ![i] = "failed"]
      BY <2>2 DEF StepFails
    <3>2. ReadyMeansVerified'
      BY <1>0, <2>0 DEF ReadyMeansVerified, AllVerified
    <3> QED BY <1>0, <2>2, <3>1, <3>2, EndsMoves, MovesKeep
  <2> QED BY <1>3, <2>1, <2>2 DEF UpApply
<1>4. CASE UpProbe(o)
  <2>0. call[o].at = "probe" /\ i \in Stage /\ step[i] = "started" /\ journal' = journal
    BY <1>1, <1>4 DEF UpProbe, At
  <2>1. ReadyMeansVerified'
    BY <1>0, <2>0 DEF ReadyMeansVerified, AllVerified
  <2>2. CASE /\ StepVerified(i) /\ call' = [call EXCEPT ![o].n = i + 1, ![o].at = "stage"]
             /\ UNCHANGED lock
    <3>1. step' = [step EXCEPT ![i] = "verified"] /\ "stage" \in Held
      BY <2>2 DEF StepVerified, Held
    <3>2. /\ Moves(o) /\ call'[o].n = i + 1 /\ call'[o].cmd = "up"
          /\ call'[o].flag = call[o].flag /\ call'[o].at = "stage"
      BY <1>0, <2>2, <3>1, NextMoves
    <3>3. Own(o)'
      BY <1>0, <1>1, <2>0, <3>1, <3>2, Stages DEF Own
    <3> QED BY <1>0, <2>1, <3>1, <3>2, <3>3, MovesKeep
  <2>3. CASE StepFails(i) /\ Ends(o)
    <3>1. step' = [step EXCEPT ![i] = "failed"]
      BY <2>3 DEF StepFails
    <3> QED BY <1>0, <2>1, <2>3, <3>1, EndsMoves, MovesKeep
  <2> QED BY <1>4, <2>2, <2>3 DEF UpProbe
<1> QED BY <1>2, <1>3, <1>4

\* Where the steps of start, from the lock on, and of the other commands lead.
LEMMA CommandsKeep ==
  ASSUME IInv, StoreInv', NEW o \in Operator,
         \/ StartRun(o) \/ StartWorker(o) \/ StartRecord(o) \/ StartCommit(o)
         \/ PauseMode(o) \/ DownStop(o) \/ DownCommit(o) \/ BackupDone(o) \/ FenceStop(o)
  PROVE  IInv'
<1>0. /\ call[o] \in Call /\ Own(o) /\ ReadyMeansVerified
      /\ step \in [Stage -> {"pending", "started", "failed", "verified"}]
      /\ call[o].at \in Held /\ lock = o /\ raced' = raced /\ step' = step
  BY DEF StartRun, StartWorker, StartRecord, StartCommit, PauseMode, DownStop, DownCommit,
     BackupDone, FenceStop, At, IInv, Held, LockHeld
<1>1. ReadyMeansVerified'
  <2>1. CASE journal' = journal
    BY <1>0, <2>1 DEF ReadyMeansVerified, AllVerified
  <2>2. CASE journal' \in {"STOPPED", "FENCED"}
    BY <2>2 DEF ReadyMeansVerified
  <2>3. CASE StartCommit(o)
    BY <1>0, <2>3 DEF StartCommit, At, Own, Held, ReadyMeansVerified, AllVerified
  <2>4. CASE PauseMode(o)
    BY <1>0, <2>4 DEF PauseMode, ReadyMeansVerified, AllVerified
  <2> QED
    BY <2>1, <2>2, <2>3, <2>4 DEF StartRun, StartWorker, StartRecord, DownStop, DownCommit,
       BackupDone, FenceStop, SetState
<1>2. \/ Ends(o)
      \/ call[o].cmd = "start" /\ journal' = journal /\ \E x \in {"spawn", "record", "commit"} : Go(o, x)
      \/ call[o].cmd = "down" /\ Go(o, "commit")
      \/ call[o].cmd = "down" /\ call' = [call EXCEPT ![o].n = call[o].n + 1] /\ lock' = lock
  BY DEF StartRun, StartWorker, StartRecord, StartCommit, PauseMode, DownStop, DownCommit,
     BackupDone, FenceStop, At
<1>3. Moves(o) /\ Own(o)'
  <2>1. CASE Ends(o)
    BY <1>0, <2>1, EndsMoves
  <2>2. CASE call[o].cmd = "start" /\ \E x \in {"spawn", "record", "commit"} : Go(o, x)
    <3> PICK x \in {"spawn", "record", "commit"} : Go(o, x)
      BY <2>2
    <3>1. x \in Held
      BY DEF Held
    <3>2. Moves(o) /\ call'[o].cmd = "start"
      BY <1>0, <2>2, <3>1, GoMoves
    <3> QED BY <1>0, <2>2, <3>2 DEF Own, AllVerified
  <2>3. CASE call[o].cmd = "down" /\ Go(o, "commit")
    <3>1. "commit" \in Held
      BY DEF Held
    <3> QED BY <1>0, <2>3, <3>1, GoMoves, OthersOwn
  <2>4. CASE call[o].cmd = "down" /\ call' = [call EXCEPT ![o].n = call[o].n + 1] /\ lock' = lock
    BY <1>0, <2>4, SameAt, NextMoves, OthersOwn
  <2> QED BY <1>2, <2>1, <2>2, <2>3, <2>4
<1> QED BY <1>0, <1>1, <1>3, MovesKeep

\* How commands begin, give up and are killed.
LEMMA BoundariesKeep ==
  ASSUME IInv, StoreInv', NEW o \in Operator,
         \/ UpBegin(o) \/ StartCheck(o) \/ StartLock(o) \/ LockTimeout(o) \/ Pause(o) \/ Down(o)
         \/ Backup(o) \/ Fence(o) \/ Crash(o)
  PROVE  IInv'
<1>0. /\ call[o] \in Call /\ call \in [Operator -> Call] /\ Own(o) /\ ReadyMeansVerified /\ step' = step
      /\ step \in [Stage -> {"pending", "started", "failed", "verified"}]
      /\ Idle \in Call /\ Idle.at = "idle" /\ mark \in Nat
  BY DEF UpBegin, StartCheck, StartLock, LockTimeout, Pause, Down, Backup, Fence, Crash, IInv,
     StoreInv, Idle, Call, Free
<1>1. CASE UpBegin(o)
  <2>1. lock = None /\ lock' = o /\ raced' = raced
        /\ call' = [call EXCEPT ![o] =
                      [cmd |-> "up", at |-> "stage", n |-> 1, flag |-> journal = "STOPPED"]]
    BY <1>1 DEF UpBegin, Takes
  <2>2. \E f \in BOOLEAN :
          /\ f => journal = "STOPPED"
          /\ call' = [call EXCEPT ![o] = [cmd |-> "up", at |-> "stage", n |-> 1, flag |-> f]]
    <3>1. CASE journal = "STOPPED"
      <4>1. call' = [call EXCEPT ![o] = [cmd |-> "up", at |-> "stage", n |-> 1, flag |-> TRUE]]
        BY <2>1, <3>1
      <4> QED BY <3>1, <4>1
    <3>2. CASE journal # "STOPPED"
      <4>1. call' = [call EXCEPT ![o] = [cmd |-> "up", at |-> "stage", n |-> 1, flag |-> FALSE]]
        BY <2>1, <3>2
      <4> QED BY <4>1
    <3> QED BY <3>1, <3>2
  <2> PICK f \in BOOLEAN :
        /\ f => journal = "STOPPED"
        /\ call' = [call EXCEPT ![o] = [cmd |-> "up", at |-> "stage", n |-> 1, flag |-> f]]
    BY <2>2
  <2>5. "stage" \in Held
    BY DEF Held
  <2>6. /\ Moves(o) /\ call'[o].cmd = "up" /\ call'[o].at = "stage" /\ call'[o].n = 1
        /\ call'[o].flag = f
    <3> DEFINE c == [cmd |-> "up", at |-> "stage", n |-> 1, flag |-> f]
    <3>1. c \in Call /\ c.cmd = "up" /\ c.at = "stage" /\ c.n = 1 /\ c.flag = f
      BY <2>5 DEF Call
    <3>2. call' = [call EXCEPT ![o] = c]
      OBVIOUS
    <3> HIDE DEF c
    <3> QED BY <2>1, <3>1, <3>2, SetsCall
  <2>3. Own(o)'
    BY <1>0, <1>1, <2>6, Stages DEF Own, UpBegin
  <2>4. ReadyMeansVerified'
    BY <1>0, <1>1, <2>1 DEF ReadyMeansVerified, AllVerified, UpBegin
  <2> QED BY <1>0, <2>1, <2>6, <2>3, <2>4, MovesKeep
<1>2. CASE StartCheck(o)
  <2>1. UNCHANGED <<lock, journal, raced>> /\ call' = [call EXCEPT ![o] = [Idle EXCEPT !.cmd = "start", !.at = "wait"]]
    BY <1>2 DEF StartCheck
  <2>2. [Idle EXCEPT !.cmd = "start", !.at = "wait"] \in Call
        /\ [Idle EXCEPT !.cmd = "start", !.at = "wait"].at = "wait"
    BY DEF Idle, Call, Free
  <2>3. Moves(o) /\ call'[o].at \notin Held
    BY <2>1, <2>2, SetsCall DEF Held
  <2>4. Own(o)' /\ ReadyMeansVerified'
    BY <1>0, <2>1, <2>3 DEF Own, ReadyMeansVerified, AllVerified
  <2> QED BY <1>0, <2>1, <2>3, <2>4, MovesKeep
<1>3. CASE StartLock(o)
  <2>1. /\ lock = None /\ lock' = o /\ journal' = journal /\ call[o].cmd = "start"
        /\ call' = [call EXCEPT ![o].at = "probe"]
        /\ raced' = ~(journal = "PROVISIONED_PAUSED" /\ AllVerified)
    BY <1>3 DEF StartLock, At
  <2> DEFINE c == [call[o] EXCEPT !.at = "probe"]
  <2>2. [call[o] EXCEPT !.at = "probe"] \in Call
    BY <1>0 DEF Call, Held
  <2>3. c \in Call /\ c.cmd = "start" /\ c.at = "probe" /\ call' = [call EXCEPT ![o] = c]
    BY <1>0, <2>1, <2>2 DEF Call
  <2> HIDE DEF c
  <2>4. Moves(o) /\ call'[o].cmd = "start"
    BY <2>1, <2>3, SetsCall
  <2>5. AllVerified' \/ raced'
    BY <1>0, <2>1 DEF AllVerified
  <2> QED BY <1>0, <2>1, <2>4, <2>5, MovesKeep DEF Own, ReadyMeansVerified
<1>4. CASE LockTimeout(o)
  <2>1. UNCHANGED <<lock, journal, raced>> /\ call' = [call EXCEPT ![o] = Idle]
    BY <1>4 DEF LockTimeout
  <2>2. Moves(o) /\ call'[o].at \notin Held
    BY <1>0, <2>1, SetsCall DEF Held
  <2>3. Own(o)' /\ ReadyMeansVerified'
    BY <1>0, <2>1, <2>2 DEF Own, ReadyMeansVerified, AllVerified
  <2> QED BY <1>0, <2>1, <2>2, <2>3, MovesKeep
<1>5. CASE Pause(o) \/ Down(o) \/ Backup(o) \/ Fence(o)
  <2>1. lock = None /\ lock' = o /\ UNCHANGED <<journal, raced>>
    BY <1>5 DEF Pause, Down, Backup, Fence, Takes
  <2>2. \E cmd \in {"pause", "down", "backup", "fence"}, at \in {"mode", "stop", "copy"},
           n \in Nat, flag \in BOOLEAN :
          call' = [call EXCEPT ![o] = [cmd |-> cmd, at |-> at, n |-> n, flag |-> flag]]
    BY <1>0, <1>5 DEF Pause, Down, Backup, Fence, Takes
  <2> PICK cmd \in {"pause", "down", "backup", "fence"}, at \in {"mode", "stop", "copy"},
           n \in Nat, flag \in BOOLEAN :
          call' = [call EXCEPT ![o] = [cmd |-> cmd, at |-> at, n |-> n, flag |-> flag]]
    BY <2>2
  <2>3. at \in Held
    BY DEF Held
  <2>4. Moves(o) /\ call'[o].cmd = cmd
    BY <2>1, <2>3, TakesMoves
  <2>5. Own(o)' /\ ReadyMeansVerified'
    BY <1>0, <2>1, <2>4, OthersOwn DEF ReadyMeansVerified, AllVerified
  <2> QED BY <1>0, <2>1, <2>4, <2>5, MovesKeep
<1>6. CASE Crash(o)
  <2>1. /\ UNCHANGED <<journal, raced>> /\ call' = [call EXCEPT ![o] = Idle]
        /\ lock' = IF lock = o THEN None ELSE lock
    BY <1>6 DEF Crash
  <2>2. Moves(o) /\ call'[o].at \notin Held
    BY <1>0, <2>1, SetsCall DEF Held
  <2>3. Own(o)' /\ ReadyMeansVerified'
    BY <1>0, <2>1, <2>2 DEF Own, ReadyMeansVerified, AllVerified
  <2> QED BY <1>0, <2>1, <2>2, <2>3, MovesKeep
<1> QED BY <1>1, <1>2, <1>3, <1>4, <1>5, <1>6

LEMMA NextIInv == IInv /\ [Next]_vars => IInv'
<1> SUFFICES ASSUME IInv, [Next]_vars
             PROVE  IInv'
  OBVIOUS
<1>1. StoreInv'
  BY StepTouches, TouchSound DEF IInv
<1>2. CASE (\E value \in {"running", "paused"} : CliMode(value)) \/ Work \/ Deliver
           \/ Checkpoint \/ Break \/ Repair \/ UNCHANGED vars
  <2>1. UNCHANGED <<call, lock, journal, step, raced>>
    BY <1>2 DEF CliMode, Work, Deliver, Checkpoint, Break, Repair, vars
  <2>2. ASSUME NEW o \in Operator
        PROVE  Own(o)'
    BY <2>1 DEF IInv, Own, AllVerified
  <2> QED
    BY <1>1, <2>1, <2>2 DEF IInv, NoneFresh, LockHeld, ReadyMeansVerified, AllVerified
<1> QED
  BY <1>1, <1>2, UpKeeps, CommandsKeep, BoundariesKeep DEF Next, CommandStep, UpStep

\* Whatever commands fail, are killed or interleave, the journal says that the event is
\* ready or running only with every stage verified, except after a start whose check was
\* overtaken (LocalStack.up, start, pause, down).
THEOREM ReadyIsVerified ==
  ASSUME NoneFresh
  PROVE  Spec => []ReadyMeansVerified
<1>1. Init => IInv
  BY InitIInv
<1>2. IInv => ReadyMeansVerified
  BY DEF IInv
<1> QED BY <1>1, <1>2, NextIInv, PTL DEF Spec

\* The lifecycle implements EventRun: an event is prepared once, works only while it
\* runs, runs only unfenced, and never moves after its fence.
THEOREM LifecycleRefines ==
  ASSUME NoneFresh
  PROVE  Spec => ImplementsEventRun
<1>1. Init => IInv
  BY InitIInv
<1>2. Init => Run!Init
  BY DEF Init, Run!Init, Phase
<1>3. IInv /\ [Next]_vars => [Run!Next]_(Run!vars)
  BY StepTouches, TouchSound DEF IInv
<1> QED BY <1>1, <1>2, <1>3, NextIInv, PTL DEF Spec, ImplementsEventRun, Run!Spec
=============================================================================
