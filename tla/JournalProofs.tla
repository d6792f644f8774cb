---------------------------- MODULE JournalProofs ----------------------------
(***************************************************************************)
(* Proof that a retried step finds its resource: for any number of         *)
(* processes, steps, journals and faults, no resource is ever created      *)
(* beside one that is there (Journal!OneResource).                         *)
(*                                                                         *)
(* ensure_resource asks the provider and creates afterwards, in two calls; *)
(* that nothing appears in between rests on the process lock.  The         *)
(* invariant therefore says who holds the lock and what the holder that is *)
(* about to create has seen.                                               *)
(***************************************************************************)
EXTENDS Journal, TLAPS

Locked == {"step", "ensure", "create resource", "record", "verify"}
Unlocked == {"idle", "create", "open", "commit", "wait"}

Call == [place : Locked \cup Unlocked, n : Nat, mine : Int]

AtType ==
  /\ at \in [Process -> Call]
  /\ born \in Int
  /\ lock \in Process \cup {None}

\* Whoever works on the plan holds the lock.
LockHeld == \A p \in Process : at[p].place \in Locked => lock = p

\* Nothing has appeared since the holder asked the provider.
StillMissing == \A p \in Process : at[p].place = "create resource" => at[p].n \notin present

\* The name that stands for a free lock is no process.
NoneFresh == None \notin Process

IInv == NoneFresh /\ AtType /\ LockHeld /\ StillMissing /\ OneResource

LEMMA InitIInv == NoneFresh /\ Init => IInv
<1>1. Idle \in Call /\ Idle.place = "idle"
  BY DEF Idle, Call, Unlocked
<1> SUFFICES ASSUME NoneFresh, Init
             PROVE  IInv
  OBVIOUS
<1>2. AtType
  BY <1>1 DEF Init, AtType
<1>3. \A p \in Process : at[p].place = "idle"
  BY <1>1 DEF Init
<1>4. OneResource
  BY DEF Init, OneResource
<1> QED
  BY <1>2, <1>3, <1>4 DEF IInv, LockHeld, StillMissing, Locked

\* The lock discipline: a step of p changes no other process, takes the lock only when
\* it is free and gives up only its own.
Moves(p) ==
  /\ at' \in [Process -> Call]
  /\ \A q \in Process \ {p} : at'[q] = at[q]
  /\ at'[p].place \in Locked => lock' = p
  /\ lock' = lock \/ (lock = None /\ lock' = p) \/ (lock = p /\ lock' = None)
  /\ born' \in Int

LEMMA PlaceMoves ==
  ASSUME IInv, NEW p \in Process, NEW x \in Locked \cup Unlocked, Place(p, x), born' \in Int,
         \/ x \in Locked /\ at[p].place \in Locked /\ lock' = lock
         \/ x \notin Locked /\ lock' = lock
         \/ lock = None /\ lock' = p
  PROVE  Moves(p)
<1>1. [at[p] EXCEPT !.place = x] \in Call /\ [at[p] EXCEPT !.place = x].place = x
  BY DEF IInv, AtType, Call
<1>2. at' = [at EXCEPT ![p] = [at[p] EXCEPT !.place = x]]
  BY DEF Place
<1> DEFINE c == [at[p] EXCEPT !.place = x]
<1>3. c \in Call /\ c.place = x /\ at' = [at EXCEPT ![p] = c]
  BY <1>1, <1>2
<1> HIDE DEF c
<1>4. at \in [Process -> Call]
  BY DEF IInv, AtType, Call
<1> QED
  BY <1>3, <1>4 DEF Moves, IInv, LockHeld

LEMMA EndsMoves ==
  ASSUME IInv, NEW p \in Process, Ends(p), born' \in Int
  PROVE  Moves(p) /\ at'[p].place = "idle"
<1>1. Idle \in Call /\ Idle.place \notin Locked
  BY DEF Idle, Call, Locked, Unlocked
<1>2. at \in [Process -> Call]
  BY DEF IInv, AtType, Call
<1> QED
  BY <1>1, <1>2 DEF Ends, Moves, Idle

LEMMA LeavesMoves ==
  ASSUME IInv, NEW p \in Process, at' = [at EXCEPT ![p] = Idle], lock' = lock, born' \in Int
  PROVE  Moves(p) /\ at'[p].place = "idle"
<1>1. Idle \in Call /\ Idle.place \notin Locked
  BY DEF Idle, Call, Locked, Unlocked
<1>2. at \in [Process -> Call]
  BY DEF IInv, AtType, Call
<1> QED
  BY <1>1, <1>2 DEF Moves, Idle

LEMMA NextStepMoves ==
  ASSUME IInv, NEW p \in Process, at[p].place \in Locked, NextStep(p), born' \in Int
  PROVE  Moves(p) /\ at'[p].place = "step"
<1> DEFINE c == [at[p] EXCEPT !.n = @ + 1, !.place = "step"]
<1>1. at' = [at EXCEPT ![p].n = @ + 1, ![p].place = "step"] /\ lock' = lock
  BY DEF NextStep
<1>2. at \in [Process -> Call]
  BY DEF IInv, AtType, Call
<1>3. at' = [at EXCEPT ![p] = c]
  BY <1>1, <1>2 DEF Call
<1>4. c \in Call /\ c.place = "step"
  <2>1. at[p] \in Call /\ at[p].n + 1 \in Nat
    BY <1>2 DEF Call
  <2>2. [at[p] EXCEPT !.n = at[p].n + 1, !.place = "step"] \in Call
    BY <2>1 DEF Call, Locked
  <2> QED BY <2>1, <2>2 DEF Call
<1> HIDE DEF c
<1> QED
  BY <1>1, <1>2, <1>3, <1>4 DEF Moves, IInv, LockHeld, Locked

\* A disciplined step that creates nothing but what its process had found missing keeps
\* the invariant.
LEMMA MovesKeep ==
  ASSUME IInv, NEW p \in Process, Moves(p), OneResource',
         at'[p].place = "create resource" => at'[p].n \notin present',
         \/ present' \subseteq present
         \/ at[p].place \in Locked
  PROVE  IInv'
<1>1. AtType'
  BY DEF Moves, AtType, IInv, Call
<1>2. LockHeld'
  <2> SUFFICES ASSUME NEW q \in Process, at'[q].place \in Locked
               PROVE  lock' = q
    BY DEF LockHeld
  <2>1. CASE q = p
    BY <2>1 DEF Moves
  <2>2. CASE q # p
    BY <2>2 DEF Moves, IInv, LockHeld, AtType, NoneFresh
  <2> QED BY <2>1, <2>2
<1>3. StillMissing'
  <2> SUFFICES ASSUME NEW q \in Process, at'[q].place = "create resource"
               PROVE  at'[q].n \notin present'
    BY DEF StillMissing
  <2>1. CASE q = p
    BY <2>1
  <2>2. CASE q # p
    <3>1. at'[q] = at[q] /\ lock = q
      BY <2>2 DEF Moves, IInv, LockHeld, Locked
    <3>2. present' \subseteq present
      BY <2>2, <3>1 DEF IInv, LockHeld
    <3> QED BY <3>1, <3>2 DEF IInv, StillMissing
  <2> QED BY <2>1, <2>2
<1> QED BY <1>1, <1>2, <1>3 DEF IInv, NoneFresh

LEMMA ProcessStep ==
  ASSUME IInv, NEW p \in Process,
         \/ Up(p) \/ CreateSchema(p) \/ CreateCommit(p) \/ Open(p) \/ Lock(p) \/ LockTimeout(p)
         \/ BeginStep(p) \/ ProbeResource(p) \/ CreateResource(p) \/ RecordResource(p)
         \/ CompleteStep(p) \/ LosesJournal(p) \/ Stop(p) \/ Kill(p)
  PROVE  IInv'
<1> USE DEF Locked, Unlocked
<1>0. born \in Int /\ OneResource /\ at \in [Process -> Call]
  BY DEF IInv, AtType, Call
<1>1. CASE Up(p)
  <2>1. \E x \in {"create", "open"} : Place(p, x) /\ at'[p].place = x
    BY <1>0, <1>1 DEF Up, Place, Call
  <2>2. Moves(p) /\ UNCHANGED <<present, surplus>> /\ at'[p].place # "create resource"
    BY <1>0, <1>1, <2>1, PlaceMoves DEF Up, fileVars
  <2> QED BY <1>0, <2>2, MovesKeep DEF OneResource
<1>2. CASE CreateSchema(p)
  <2>1. Moves(p) /\ at'[p].place # "create resource"
    <3>1. CASE file = "absent"
      <4> DEFINE c == [at[p] EXCEPT !.place = "commit", !.mine = born + 1]
      <4>1. at' = [at EXCEPT ![p] = c]
        BY <1>0, <1>2, <3>1 DEF CreateSchema, Call
      <4>2. c \in Call /\ c.place = "commit"
        <5>1. at[p] \in Call /\ born + 1 \in Int
          BY <1>0
        <5>2. [at[p] EXCEPT !.place = "commit", !.mine = born + 1] \in Call
          BY <5>1 DEF Call
        <5> QED BY <5>1, <5>2 DEF Call
      <4>3. lock' = lock /\ born' \in Int
        BY <1>0, <1>2, <3>1 DEF CreateSchema
      <4> HIDE DEF c
      <4> QED BY <1>0, <4>1, <4>2, <4>3 DEF Moves
    <3>2. CASE file # "absent"
      <4>1. at' = [at EXCEPT ![p] = Idle] /\ lock' = lock /\ born' = born
        BY <1>2, <3>2 DEF CreateSchema
      <4> QED BY <1>0, <4>1, LeavesMoves DEF Idle
    <3> QED BY <3>1, <3>2
  <2>2. UNCHANGED <<present, surplus>>
    BY <1>2 DEF CreateSchema
  <2> QED BY <1>0, <2>1, <2>2, MovesKeep DEF OneResource
<1>3. CASE CreateCommit(p)
  <2>1. Moves(p) /\ at'[p].place = "wait" /\ UNCHANGED <<present, surplus>>
    BY <1>0, <1>3, PlaceMoves DEF CreateCommit, Place, Call
  <2> QED BY <1>0, <2>1, MovesKeep DEF OneResource
<1>4. CASE Open(p)
  <2>1. UNCHANGED <<present, surplus, lock, born>>
    BY <1>4 DEF Open
  <2>2. \/ Place(p, "wait") /\ at'[p].place = "wait"
        \/ at' = [at EXCEPT ![p] = Idle]
    BY <1>0, <1>4 DEF Open, CheckFingerprints, Place, Call
  <2>3. Moves(p) /\ at'[p].place # "create resource"
    BY <1>0, <2>1, <2>2, PlaceMoves, LeavesMoves DEF Idle
  <2> QED BY <1>0, <2>1, <2>3, MovesKeep DEF OneResource
<1>5. CASE Lock(p)
  <2>1. Moves(p) /\ at'[p].place = "step" /\ UNCHANGED <<present, surplus>>
    BY <1>0, <1>5, PlaceMoves DEF Lock, Place, Call, fileVars
  <2> QED BY <1>0, <2>1, MovesKeep DEF OneResource
<1>6. CASE LockTimeout(p)
  <2>1. Moves(p) /\ at'[p].place # "create resource" /\ UNCHANGED <<present, surplus>>
    BY <1>0, <1>6, LeavesMoves DEF LockTimeout, Idle, fileVars
  <2> QED BY <1>0, <2>1, MovesKeep DEF OneResource
<1>7. CASE BeginStep(p)
  <2>1. at[p].place = "step" /\ born' = born /\ UNCHANGED <<present, surplus>>
    BY <1>7 DEF BeginStep, fileVars
  <2>2. \/ Ends(p)
        \/ NextStep(p)
        \/ Place(p, "ensure") /\ lock' = lock
    BY <1>7 DEF BeginStep, Bereft
  <2>3. Moves(p) /\ at'[p].place # "create resource"
    <3>1. CASE Ends(p)
      BY <1>0, <2>1, <3>1, EndsMoves DEF Idle
    <3>2. CASE NextStep(p)
      BY <1>0, <2>1, <3>2, NextStepMoves
    <3>3. CASE Place(p, "ensure") /\ lock' = lock
      <4>1. at'[p].place = "ensure"
        BY <1>0, <3>3 DEF Place, Call
      <4> QED BY <1>0, <2>1, <3>3, <4>1, PlaceMoves
    <3> QED BY <2>2, <3>1, <3>2, <3>3
  <2> QED BY <1>0, <2>1, <2>3, MovesKeep DEF OneResource
<1>8. CASE ProbeResource(p)
  <2>1. at[p].place = "ensure" /\ UNCHANGED <<present, surplus, lock, born>>
    BY <1>8 DEF ProbeResource, fileVars
  <2>2. \/ Place(p, "record") /\ at'[p].place = "record"
        \/ /\ Place(p, "create resource") /\ at'[p].n = at[p].n
           /\ at[p].n \notin present
    BY <1>0, <1>8 DEF ProbeResource, Probe, Place, Call
  <2>3. Moves(p)
    BY <1>0, <2>1, <2>2, PlaceMoves
  <2> QED BY <1>0, <2>1, <2>2, <2>3, MovesKeep DEF OneResource
<1>9. CASE CreateResource(p)
  <2>1. at[p].place = "create resource" /\ born' = born
    BY <1>9 DEF CreateResource, fileVars
  <2>2. OneResource'
    BY <1>0, <1>9, <2>1 DEF CreateResource, OneResource, IInv, StillMissing
  <2>3. Ends(p) \/ (Place(p, "record") /\ lock' = lock)
    BY <1>9 DEF CreateResource
  <2>4. Moves(p) /\ at'[p].place # "create resource"
    <3>1. CASE Ends(p)
      BY <1>0, <2>1, <3>1, EndsMoves DEF Idle
    <3>2. CASE Place(p, "record") /\ lock' = lock
      <4>1. at'[p].place = "record"
        BY <1>0, <3>2 DEF Place, Call
      <4> QED BY <1>0, <2>1, <3>2, <4>1, PlaceMoves
    <3> QED BY <2>3, <3>1, <3>2
  <2> QED BY <2>1, <2>2, <2>4, MovesKeep
<1>10. CASE RecordResource(p)
  <2>1. at[p].place = "record" /\ UNCHANGED <<present, surplus, lock, born>> /\ Place(p, "verify")
    BY <1>10 DEF RecordResource, fileVars
  <2>2. at'[p].place = "verify"
    BY <1>0, <2>1 DEF Place, Call
  <2>3. Moves(p)
    BY <1>0, <2>1, PlaceMoves
  <2> QED BY <1>0, <2>1, <2>2, <2>3, MovesKeep DEF OneResource
<1>11. CASE CompleteStep(p)
  <2>1. at[p].place = "verify" /\ UNCHANGED <<present, surplus, born>>
    BY <1>11 DEF CompleteStep, fileVars
  <2>2. Ends(p) \/ NextStep(p)
    BY <1>11 DEF CompleteStep
  <2>3. Moves(p) /\ at'[p].place # "create resource"
    BY <1>0, <2>1, <2>2, EndsMoves, NextStepMoves DEF Idle
  <2> QED BY <1>0, <2>1, <2>3, MovesKeep DEF OneResource
<1>12. CASE LosesJournal(p)
  <2>1. Ends(p) /\ UNCHANGED <<present, surplus, born>>
    BY <1>12 DEF LosesJournal, Bereft, fileVars
  <2>2. Moves(p) /\ at'[p].place # "create resource"
    BY <1>0, <2>1, EndsMoves DEF Idle
  <2> QED BY <1>0, <2>1, <2>2, MovesKeep DEF OneResource
<1>13. CASE Stop(p)
  <2>1. UNCHANGED <<at, lock, born, surplus>> /\ present' \subseteq present
    BY <1>13 DEF Stop, fileVars
  <2> QED BY <2>1 DEF IInv, AtType, LockHeld, StillMissing, OneResource, NoneFresh
<1>14. CASE Kill(p)
  <2>1. Ends(p) /\ UNCHANGED <<present, surplus, born>>
    BY <1>14 DEF Kill, fileVars
  <2>2. Moves(p) /\ at'[p].place # "create resource"
    BY <1>0, <2>1, EndsMoves DEF Idle
  <2> QED BY <1>0, <2>1, <2>2, MovesKeep DEF OneResource
<1> QED
  BY <1>1, <1>2, <1>3, <1>4, <1>5, <1>6, <1>7, <1>8, <1>9, <1>10, <1>11, <1>12, <1>13, <1>14

LEMMA NextIInv == IInv /\ [Next]_vars => IInv'
<1> SUFFICES ASSUME IInv, [Next]_vars
             PROVE  IInv'
  OBVIOUS
<1>1. CASE Rebuild \/ Remove \/ UNCHANGED vars
  <2>1. UNCHANGED <<at, lock, born, surplus, present>>
    BY <1>1 DEF Rebuild, Remove, vars, fileVars
  <2> QED BY <2>1 DEF IInv, AtType, LockHeld, StillMissing, OneResource, NoneFresh
<1> QED BY <1>1, ProcessStep DEF Next

\* A retried step adopts the resource an earlier try had created, whatever was killed,
\* lost or rebuilt in between (Journal.ensure_resource, Provider.probe and create).
THEOREM RetriesAdopt ==
  ASSUME NoneFresh
  PROVE  Spec => []OneResource
<1>1. IInv => OneResource
  BY DEF IInv
<1>2. Init => IInv
  BY InitIInv
<1> QED BY <1>1, <1>2, NextIInv, PTL DEF Spec
=============================================================================
