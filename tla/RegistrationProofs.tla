------------------------- MODULE RegistrationProofs -------------------------
(* Theorems about registration, for every capacity and any number of workers, *)
(* registrations, attempts and faults.                                        *)
EXTENDS Registration, FiniteSetTheorems, WellFoundedInduction, TLAPS

-----------------------------------------------------------------------------
(* Type correctness. *)

\* The bounds are numbers.
LEMMA Bounds == MaxFaults \in Nat /\ MaxAttempts \in Nat /\ 0 \in 0..MaxFaults
  BY CapacityAssumption

LEMMA InitType == Init => RTypeOK
<1> SUFFICES ASSUME Init PROVE RTypeOK
  OBVIOUS
<1>1. worker \in [Worker -> Call]
  BY DEF Init, Idle, Call
<1>2. slotStatus \in [Slot -> {"available", "reserved", "running"}] /\ owner \in [Slot -> Reg \cup {0}]
  BY DEF Init
<1> QED BY <1>1, <1>2, Bounds DEF Init, RTypeOK

LEMMA PageType ==
  ASSUME RTypeOK, NEW r \in Reg, Register(r) \/ Cancel(r) \/ Retry(r)
  PROVE  RTypeOK'
<1> USE DEF RTypeOK, hostVars
<1>1. CASE Register(r)
  BY <1>1 DEF Register, Allocations, Available
<1>2. CASE Cancel(r)
  BY <1>2 DEF Cancel
<1>3. CASE Retry(r)
  BY <1>3 DEF Retry, slotVars
<1> QED BY <1>1, <1>2, <1>3

LEMMA TimeType ==
  ASSUME RTypeOK, NEW r \in Reg, Lapse(r) \/ RetryFalls(r)
  PROVE  RTypeOK'
  BY CapacityAssumption DEF RTypeOK, hostVars, slotVars, Lapse, RetryFalls, Fault

LEMMA ClaimType ==
  ASSUME RTypeOK, NEW w \in Worker, NEW r \in Reg, Claim(w, r)
  PROVE  RTypeOK'
<1>1. worker' \in [Worker -> Call]
  BY DEF RTypeOK, Claim, Call
<1>2. status' \in [Reg -> {"none", "pending", "provisioning", "ready", "needs_operator", "cancelled"}]
  BY DEF RTypeOK, Claim
<1>3. token' \in [Reg -> Nat] /\ attempts' \in [Reg -> Nat]
  BY DEF RTypeOK, Claim
<1>4. overlap' \in BOOLEAN
  BY DEF RTypeOK, Claim
<1> QED BY <1>1, <1>2, <1>3, <1>4 DEF RTypeOK, Claim, hostVars, slotVars

\* What becomes of a worker's call.
LEMMA CallType ==
  ASSUME RTypeOK, NEW w \in Worker
  PROVE  /\ \A stage \in Trying \cup {"completing", "failing", "stopping"} :
              Goes(w, stage) => worker' \in [Worker -> Call]
         /\ worker' = [worker EXCEPT ![w] = Idle] => worker' \in [Worker -> Call]
<1>1. ASSUME NEW stage \in Trying \cup {"completing", "failing", "stopping"}, Goes(w, stage)
      PROVE  worker' \in [Worker -> Call]
  <2>1. [worker[w] EXCEPT !.at = stage] \in Call
    BY <1>1 DEF RTypeOK, Call
  <2> QED BY <1>1, <2>1 DEF RTypeOK, Goes
<1>2. Idle \in Call
  BY DEF Idle, Call
<1> QED BY <1>1, <1>2 DEF RTypeOK

LEMMA HostType ==
  ASSUME RTypeOK, NEW w \in Worker, Mine(w) \in Reg,
         StartDesktops(w) \/ RegisterCtfd(w) \/ RegisterIris(w) \/ Grant(w) \/ ReadConfig(w)
           \/ KeepConfig(w) \/ TruncateConfig(w) \/ WriteConfig(w) \/ JoinController(w)
           \/ StopDesktops(w)
  PROVE  RTypeOK'
<1> USE DEF RTypeOK, rowVars, slotVars
<1>1. CASE StartDesktops(w)
  BY <1>1, CallType DEF StartDesktops, Started, Trying
<1>2. CASE RegisterCtfd(w)
  BY <1>2, CallType DEF RegisterCtfd, Trying
<1>3. CASE RegisterIris(w)
  BY <1>3, CallType DEF RegisterIris, Trying
<1>4. CASE Grant(w)
  <2>1. {Mine(w)} \X slots[Mine(w)] \subseteq Reg \X Slot
    OBVIOUS
  <2> QED BY <1>4, <2>1, CallType DEF Grant, Trying
<1>5. CASE ReadConfig(w)
  <2>1. [worker[w] EXCEPT !.at = "writing", !.read = config] \in Call
    BY DEF Call, Trying
  <2>2. worker' \in [Worker -> Call]
    BY <1>5, <2>1, CallType DEF ReadConfig, Trying
  <2> QED BY <1>5, <2>2 DEF ReadConfig, hostVars
<1>6. CASE KeepConfig(w) \/ WriteConfig(w)
  <2>1. [worker[w] EXCEPT !.at = "joining", !.read = {}] \in Call
    BY DEF Call, Trying
  <2>2. worker' \in [Worker -> Call]
    BY <1>6, <2>1 DEF KeepConfig, WriteConfig
  <2>3. worker[w].read \subseteq Reg
    BY DEF Call
  <2>4. config' \subseteq Reg /\ text' \in {"whole", "empty", "torn"}
    BY <1>6, <2>3 DEF KeepConfig, WriteConfig, hostVars
  <2> QED BY <1>6, <2>2, <2>4 DEF KeepConfig, WriteConfig, hostVars
<1>9. CASE TruncateConfig(w)
  BY <1>9, CallType DEF TruncateConfig, Trying
<1>7. CASE JoinController(w)
  BY <1>7, CallType DEF JoinController
<1>8. CASE StopDesktops(w)
  BY <1>8, CallType DEF StopDesktops
<1> QED BY <1>1, <1>2, <1>3, <1>4, <1>5, <1>6, <1>7, <1>8, <1>9

LEMMA OutcomeType ==
  ASSUME RTypeOK, NEW w \in Worker, Mine(w) \in Reg,
         Activate(w) \/ Complete(w) \/ Requeue(w) \/ StepFails(w) \/ Crash(w)
  PROVE  RTypeOK'
<1> USE DEF RTypeOK, hostVars
<1>1. CASE Activate(w)
  BY <1>1, CallType DEF Activate, rowVars, slotVars, Trying
<1>2. CASE Complete(w)
  <2>1. worker' \in [Worker -> Call]
    BY <1>2, CallType DEF Complete
  <2>2. worker[w].token \in Nat
    BY DEF Call
  <2> QED BY <1>2, <2>1, <2>2 DEF Complete
<1>3. CASE Requeue(w)
  <2>1. worker' \in [Worker -> Call]
    BY <1>3, CallType DEF Requeue
  <2>2. worker[w].token \in Nat
    BY DEF Call
  <2> QED BY <1>3, <2>1, <2>2 DEF Requeue, Outcome, slotVars
<1>4. CASE StepFails(w)
  BY <1>4, CallType, Bounds DEF StepFails, Fault, CutOff, rowVars, slotVars
<1>5. CASE Crash(w)
  <2>1. worker' \in [Worker -> Call]
    BY <1>5, CallType DEF Crash
  <2>2. faults' \in 0..MaxFaults
    BY <1>5, Bounds DEF Crash, Fault
  <2> QED BY <1>5, <2>1, <2>2 DEF Crash, CutOff, rowVars, slotVars
<1> QED BY <1>1, <1>2, <1>3, <1>4, <1>5

\* A worker that is not idle is at work on a registration.
Busy == \A w \in Worker : ~At(w, "idle") => Mine(w) \in Reg

LEMMA BusyStep == RTypeOK /\ Busy /\ [Next]_vars => Busy'
<1> SUFFICES ASSUME RTypeOK, Busy, [Next]_vars PROVE Busy'
  OBVIOUS
<1> USE DEF Busy, At, Mine, RTypeOK
<1>1. ASSUME NEW w \in Worker, NEW r \in Reg, Claim(w, r) PROVE Busy'
  BY <1>1 DEF Claim
<1>2. ASSUME NEW w \in Worker, NEW stage, ~At(w, "idle"), Goes(w, stage) PROVE Busy'
  BY <1>2 DEF Goes
<1>3. ASSUME NEW w \in Worker, worker' = [worker EXCEPT ![w] = Idle] PROVE Busy'
  BY <1>3 DEF Idle
<1>4. ASSUME UNCHANGED worker PROVE Busy'
  BY <1>4
<1>5. ASSUME NEW w \in Worker, Step(w) \/ StepFails(w) \/ Crash(w) PROVE Busy'
  <2> DEFINE s == IF At(w, "reading") THEN "writing" ELSE "joining"
             r == IF At(w, "reading") THEN config ELSE {}
  <2>1. CASE worker' = [worker EXCEPT ![w].at = s, ![w].read = r] /\ ~At(w, "idle")
    BY <2>1
  <2>2. CASE ReadConfig(w) \/ KeepConfig(w) \/ WriteConfig(w)
    BY <1>2, <2>1, <2>2 DEF ReadConfig, KeepConfig, WriteConfig
  <2>3. CASE ~(ReadConfig(w) \/ KeepConfig(w) \/ WriteConfig(w))
    BY <1>2, <1>3, <1>5, <2>3 DEF Step, Activate, StartDesktops, RegisterCtfd, RegisterIris,
       Grant, TruncateConfig, JoinController, Complete, Requeue, StopDesktops, StepFails,
       Crash, Trying
  <2> QED BY <2>1, <2>2, <2>3
<1>6. ASSUME NEW r \in Reg, Register(r) \/ Cancel(r) \/ Retry(r) \/ Lapse(r) \/ RetryFalls(r)
      PROVE  Busy'
  BY <1>4, <1>6 DEF Register, Cancel, Retry, Lapse, RetryFalls
<1> QED BY <1>1, <1>4, <1>5, <1>6 DEF Next, vars

LEMMA NextType == RTypeOK /\ Busy /\ [Next]_vars => RTypeOK'
<1> SUFFICES ASSUME RTypeOK, Busy, [Next]_vars PROVE RTypeOK'
  OBVIOUS
<1>1. CASE UNCHANGED vars
  BY <1>1 DEF vars, rowVars, slotVars, hostVars, RTypeOK
<1>2. ASSUME NEW w \in Worker, Step(w) \/ StepFails(w) \/ Crash(w) PROVE RTypeOK'
  <2>1. ~At(w, "idle")
    BY <1>2 DEF At, Step, Activate, StartDesktops, RegisterCtfd, RegisterIris, Grant, ReadConfig,
       KeepConfig, TruncateConfig, WriteConfig, JoinController, Complete, Requeue, StopDesktops,
       StepFails, Crash, Trying
  <2>2. Mine(w) \in Reg
    BY <2>1 DEF Busy
  <2> QED BY <1>2, <2>2, HostType, OutcomeType DEF Step
<1> QED BY <1>1, <1>2, PageType, TimeType, ClaimType DEF Next

-----------------------------------------------------------------------------
(* The two tables.  Seven operations touch them. *)

LEMMA TableSteps ==
  ASSUME [Next]_vars
  PROVE  \/ \E r \in Reg : Register(r) \/ Cancel(r) \/ Retry(r)
         \/ \E w \in Worker, r \in Reg : Claim(w, r)
         \/ \E w \in Worker : Complete(w) \/ Requeue(w)
         \/ UNCHANGED <<status, slots, attempts, token, decidedBy, slotVars>>
<1>1. CASE UNCHANGED vars
  BY <1>1 DEF vars, rowVars
<1>2. ASSUME NEW w \in Worker, Step(w) \/ StepFails(w) \/ Crash(w), ~Complete(w), ~Requeue(w)
      PROVE  UNCHANGED <<status, slots, attempts, token, decidedBy, slotVars>>
  BY <1>2 DEF Step, Activate, StartDesktops, RegisterCtfd, RegisterIris, Grant, ReadConfig,
     KeepConfig, TruncateConfig, WriteConfig, JoinController, StopDesktops, StepFails, Crash,
     rowVars
<1>3. ASSUME NEW r \in Reg, Lapse(r) \/ RetryFalls(r)
      PROVE  UNCHANGED <<status, slots, attempts, token, decidedBy, slotVars>>
  BY <1>3 DEF Lapse, RetryFalls
<1> QED BY <1>1, <1>2, <1>3 DEF Next

LEMMA TablesStep == RTypeOK /\ Busy /\ SlotsConsistent /\ [Next]_vars => SlotsConsistent'
<1> SUFFICES ASSUME RTypeOK, Busy, SlotsConsistent, [Next]_vars PROVE SlotsConsistent'
  OBVIOUS
<1>0. 0 \notin Reg
  BY DEF Reg
<1> USE DEF SlotsConsistent, Counted, RTypeOK
<1>1. ASSUME NEW r \in Reg, Register(r) PROVE SlotsConsistent'
  <2>1. PICK mine \in Allocations :
          /\ slots' = [slots EXCEPT ![r] = mine]
          /\ slotStatus' = [s \in Slot |-> IF s \in mine THEN "reserved" ELSE slotStatus[s]]
          /\ owner' = [s \in Slot |-> IF s \in mine THEN r ELSE owner[s]]
    BY <1>1 DEF Register
  <2>2. \A s \in mine : s \in Slot /\ owner[s] = 0
    BY DEF Allocations, Available
  <2>3. status[r] = "none" /\ status' = [status EXCEPT ![r] = "pending"]
    BY <1>1 DEF Register
  <2> QED BY <1>0, <2>1, <2>2, <2>3
<1>2. ASSUME NEW r \in Reg, Cancel(r) PROVE SlotsConsistent'
  <2>1. MayCancel(r) /\ status[r] = "pending"
    BY <1>2 DEF Cancel, MayCancel
  <2>2. {s \in slots[r] : owner[s] = r /\ slotStatus[s] = "reserved"} = slots[r]
    BY <1>0, <2>1
  <2> QED BY <1>0, <1>2, <2>1, <2>2 DEF Cancel
<1>3. ASSUME NEW r \in Reg, Retry(r) PROVE SlotsConsistent'
  BY <1>3 DEF Retry, slotVars
<1>4. ASSUME NEW w \in Worker, NEW r \in Reg, Claim(w, r) PROVE SlotsConsistent'
  <2>1. \A q \in Reg : \/ status'[q] = status[q]
                       \/ /\ status[q] \in {"pending", "provisioning"}
                          /\ status'[q] \in {"pending", "provisioning"}
    BY <1>4 DEF Claim, Due, Expired
  <2> QED BY <1>4, <2>1 DEF Claim, slotVars
<1>5. ASSUME NEW w \in Worker, Complete(w) PROVE SlotsConsistent'
  <2>1. Mine(w) \in Reg
    BY <1>5 DEF Complete, Busy, At
  <2>2. CASE Holds(w)
    <3>1. status[Mine(w)] = "provisioning"
      BY <2>2 DEF Holds
    <3> QED BY <1>0, <1>5, <2>1, <2>2, <3>1 DEF Complete
  <2>3. CASE ~Holds(w)
    BY <1>5, <2>3 DEF Complete
  <2> QED BY <2>2, <2>3
<1>6. ASSUME NEW w \in Worker, Requeue(w) PROVE SlotsConsistent'
  <2>1. Mine(w) \in Reg
    BY <1>6 DEF Requeue, Busy, At
  <2>2. CASE Holds(w)
    <3>1. status[Mine(w)] = "provisioning"
      BY <2>2 DEF Holds
    <3> QED BY <1>6, <2>1, <2>2, <3>1 DEF Requeue, Outcome, slotVars
  <2>3. CASE ~Holds(w)
    BY <1>6, <2>3 DEF Requeue, slotVars
  <2> QED BY <2>2, <2>3
<1>7. CASE UNCHANGED <<status, slots, attempts, token, decidedBy, slotVars>>
  BY <1>7 DEF slotVars
<1> QED BY <1>1, <1>2, <1>3, <1>4, <1>5, <1>6, <1>7, TableSteps

-----------------------------------------------------------------------------
(* Who decides.  The token of a row that is being provisioned is that of    *)
(* its latest claim.                                                        *)

Claimed == \A r \in Reg : status[r] = "provisioning" => token[r] = attempts[r]

LEMMA DecisionStep ==
  RTypeOK /\ Busy /\ Claimed /\ LatestClaimDecides /\ [Next]_vars
    => Claimed' /\ LatestClaimDecides'
<1> SUFFICES ASSUME RTypeOK, Busy, Claimed, LatestClaimDecides, [Next]_vars
             PROVE  Claimed' /\ LatestClaimDecides'
  OBVIOUS
<1> USE DEF Claimed, LatestClaimDecides, RTypeOK
<1>1. ASSUME NEW r \in Reg, Register(r) PROVE Claimed' /\ LatestClaimDecides'
  BY <1>1 DEF Register
<1>2. ASSUME NEW r \in Reg, Cancel(r) \/ Retry(r) PROVE Claimed' /\ LatestClaimDecides'
  BY <1>2 DEF Cancel, Retry
<1>3. ASSUME NEW w \in Worker, NEW r \in Reg, Claim(w, r)
      PROVE  Claimed' /\ LatestClaimDecides'
  BY <1>3 DEF Claim, Due, Expired
<1>4. ASSUME NEW w \in Worker, Complete(w) PROVE Claimed' /\ LatestClaimDecides'
  <2>1. Mine(w) \in Reg
    BY <1>4 DEF Complete, Busy, At
  <2> QED BY <1>4, <2>1 DEF Complete, Holds
<1>5. ASSUME NEW w \in Worker, Requeue(w) PROVE Claimed' /\ LatestClaimDecides'
  <2>1. Mine(w) \in Reg
    BY <1>5 DEF Requeue, Busy, At
  <2> QED BY <1>5, <2>1 DEF Requeue, Outcome, Holds
<1>6. CASE UNCHANGED <<status, slots, attempts, token, decidedBy, slotVars>>
  BY <1>6
<1> QED BY <1>1, <1>2, <1>3, <1>4, <1>5, <1>6, TableSteps

-----------------------------------------------------------------------------
(* Places.  The slots are cut into places of PerTeam each; as long as every *)
(* team has a whole place, the first PerTeam available slots are one.       *)

LEMMA WellOrdered ==
  \E R : /\ IsWellFoundedOn(R, Nat)
         /\ \A x, y \in Nat : y < x => <<y, x>> \in R
<1>1. IsWellFoundedOn(OpToRel(<, Nat), Nat)
  BY NatLessThanWellFounded
<1>2. \A y \in Nat, x \in Nat : y < x => <<y, x>> \in OpToRel(<, Nat)
  BY DEF OpToRel
<1> QED BY <1>1, <1>2

\* A set of numbers has a least element.
LEMMA Least ==
  ASSUME NEW S \in SUBSET Nat, S # {}
  PROVE  \E x \in S : \A y \in S : x <= y
<1>1. PICK R : /\ IsWellFoundedOn(R, Nat)
               /\ \A x, y \in Nat : y < x => <<y, x>> \in R
  BY WellOrdered
<1>2. S \subseteq Nat
  OBVIOUS
<1>3. \E x \in S : \A y \in S : ~ (<<y, x>> \in R)
  BY <1>1, <1>2, WFMin, Zenon
<1>4. PICK x \in S : \A y \in S : ~ (<<y, x>> \in R)
  BY <1>3
<1>5. ASSUME NEW y \in S PROVE x <= y
  <2>1. ~ (y < x)
    BY <1>1, <1>2, <1>4
  <2>2. x \in Nat /\ y \in Nat
    BY <1>2
  <2> QED BY <2>1, <2>2
<1> QED BY <1>5

LEMMA ProductGrows ==
  ASSUME NEW a \in Nat, NEW b \in Nat, a <= b
  PROVE  PerTeam * a \in Nat /\ PerTeam * b \in Nat /\ PerTeam * a <= PerTeam * b
<1>1. PerTeam \in Nat
  BY CapacityAssumption
<1>2. PICK d \in Nat : b = a + d
  <2>1. b - a \in Nat /\ b = a + (b - a)
    OBVIOUS
  <2> QED BY <2>1
<1>3. PerTeam * b = PerTeam * a + PerTeam * d
  BY <1>1, <1>2
<1>4. PerTeam * d \in Nat /\ PerTeam * a \in Nat
  BY <1>1
<1> QED BY <1>3, <1>4

\* Every slot lies in a place, a place has PerTeam slots, and places are disjoint.
LEMMA Places ==
  /\ \A s \in Slot : \E i \in 1..MaxTeams : s \in Place(i)
  /\ \A i \in 1..MaxTeams : /\ Place(i) \subseteq Slot
                            /\ IsFiniteSet(Place(i)) /\ Cardinality(Place(i)) = PerTeam
  /\ \A i, j \in 1..MaxTeams : Place(i) \cap Place(j) # {} => i = j
<1>0. PerTeam \in Nat \ {0} /\ MaxTeams \in Nat \ {0}
  BY CapacityAssumption
<1>1. ASSUME NEW s \in Slot PROVE \E i \in 1..MaxTeams : s \in Place(i)
  <2> DEFINE S == {i \in Nat : s <= PerTeam * i}
  <2>1. MaxTeams \in S /\ s \in Nat \ {0}
    <3>1. MaxTeams * PerTeam = PerTeam * MaxTeams /\ PerTeam * MaxTeams \in Nat
      BY <1>0
    <3> QED BY <1>0, <3>1 DEF Slot
  <2>2. PICK i \in S : \A j \in S : i <= j
    <3> HIDE DEF S
    <3>1. S \in SUBSET Nat
      BY DEF S
    <3> QED BY <2>1, <3>1, Least
  <2>3. i # 0
    BY <1>0, <2>1, <2>2
  <2>4. i - 1 \in Nat /\ i - 1 \notin S
    BY <2>2, <2>3
  <2>5. PerTeam * (i - 1) \in Nat /\ PerTeam * i \in Nat
    BY <1>0, <2>4
  <2>6. PerTeam * (i - 1) < s /\ s <= PerTeam * i
    BY <2>1, <2>2, <2>4, <2>5
  <2>7. i \in 1..MaxTeams
    BY <1>0, <2>1, <2>2, <2>3
  <2> QED BY <2>1, <2>5, <2>6, <2>7 DEF Place
<1>2. ASSUME NEW i \in 1..MaxTeams
      PROVE  /\ Place(i) \subseteq Slot
             /\ IsFiniteSet(Place(i)) /\ Cardinality(Place(i)) = PerTeam
  <2>1. /\ PerTeam * (i - 1) \in Nat /\ PerTeam * i \in Nat
        /\ PerTeam * i = PerTeam * (i - 1) + PerTeam
    BY <1>0
  <2>2. PerTeam * i <= PerTeam * MaxTeams /\ PerTeam * MaxTeams = MaxTeams * PerTeam
    BY <1>0, ProductGrows
  <2>3. Place(i) \subseteq Slot
    BY <1>0, <2>1, <2>2 DEF Place, Slot
  <2>4. IsFiniteSet(Place(i)) /\ Cardinality(Place(i)) = PerTeam
    <3> DEFINE a == PerTeam * (i - 1) + 1
               b == PerTeam * i
    <3>1. a \in Int /\ b \in Int /\ a <= b /\ b - a + 1 = PerTeam
      BY <1>0, <2>1
    <3>2. Place(i) = a..b
      BY DEF Place
    <3> HIDE DEF a, b
    <3>3. IsFiniteSet(a..b) /\ Cardinality(a..b) = b - a + 1
      BY <3>1, FS_Interval
    <3> QED BY <3>1, <3>2, <3>3
  <2> QED BY <2>3, <2>4
<1>3. ASSUME NEW i \in 1..MaxTeams, NEW j \in 1..MaxTeams, i < j
      PROVE  Place(i) \cap Place(j) = {}
  <2>1. PerTeam * i <= PerTeam * (j - 1) /\ PerTeam * i \in Nat /\ PerTeam * (j - 1) \in Nat
    <3>1. i \in Nat /\ j - 1 \in Nat /\ i <= j - 1
      BY <1>3
    <3> QED BY <3>1, ProductGrows
  <2> QED BY <2>1 DEF Place
<1>4. \A i, j \in 1..MaxTeams : i < j \/ j < i \/ i = j
  BY <1>0
<1> QED BY <1>1, <1>2, <1>3, <1>4

LEMMA FirstSlotsArePlace ==
  ASSUME RTypeOK, SlotsConsistent, RolesInOrder, NEW mine \in Allocations
  PROVE  \E i \in 1..MaxTeams : mine = Place(i)
<1>0. PerTeam \in Nat \ {0} /\ 0 \notin Reg
  BY CapacityAssumption DEF Reg
<1>1. /\ mine \subseteq Available /\ mine \subseteq Slot /\ mine \subseteq Nat
      /\ Cardinality(mine) = PerTeam
      /\ \A s \in mine, u \in Available \ mine : s < u
  BY DEF Allocations, Available, Slot
<1>2. mine # {}
  BY <1>0, <1>1, FS_EmptySet
<1>3. PICK first \in mine : \A s \in mine : first <= s
  BY <1>1, <1>2, Least
<1>4. PICK i \in 1..MaxTeams : first \in Place(i)
  BY <1>1, Places
<1>5. Place(i) \subseteq Available
  <2> SUFFICES ASSUME NEW u \in Place(i), owner[u] # 0 PROVE FALSE
    BY Places DEF SlotsConsistent, Available
  <2>1. u \in Slot /\ owner[u] \in Reg
    BY Places DEF RTypeOK
  <2>2. PICK q \in Reg : owner[u] = q /\ q \in Counted /\ u \in slots[q]
    BY <2>1 DEF SlotsConsistent
  <2>3. PICK j \in 1..MaxTeams : slots[q] = Place(j)
    BY <2>2 DEF RolesInOrder
  <2>4. i = j
    BY <2>2, <2>3, Places
  <2>5. owner[first] = q
    BY <1>1, <1>4, <2>2, <2>3, <2>4 DEF SlotsConsistent
  <2> QED BY <1>0, <1>1, <2>5 DEF SlotsConsistent, Available
<1>6. Place(i) \subseteq mine
  <2> SUFFICES ASSUME NEW u \in Place(i), u \notin mine PROVE FALSE
    OBVIOUS
  <2>1. \A s \in mine : first <= s /\ s < u
    BY <1>1, <1>3, <1>5
  <2>2. mine \subseteq Place(i) \ {u}
    <3>1. /\ PerTeam * (i - 1) \in Int /\ PerTeam * i \in Int
      BY <1>0
    <3> QED BY <1>1, <1>3, <1>4, <2>1, <3>1 DEF Place
  <2>3. IsFiniteSet(Place(i) \ {u}) /\ Cardinality(Place(i) \ {u}) = PerTeam - 1
    BY Places, FS_RemoveElement
  <2>4. Cardinality(mine) <= PerTeam - 1
    BY <2>2, <2>3, FS_Subset
  <2> QED BY <1>0, <1>1, <2>4
<1>7. IsFiniteSet(mine)
  <2>1. IsFiniteSet(Slot)
    <3>1. MaxTeams * PerTeam \in Int
      BY CapacityAssumption
    <3> QED BY <3>1, FS_Interval DEF Slot
  <2> QED BY <1>1, <2>1, FS_Subset
<1>8. Place(i) = mine
  BY <1>1, <1>6, <1>7, Places, FS_Subset
<1> QED BY <1>8

LEMMA RolesStep ==
  RTypeOK /\ SlotsConsistent /\ RolesInOrder /\ [Next]_vars => RolesInOrder'
<1> SUFFICES ASSUME RTypeOK, SlotsConsistent, RolesInOrder, [Next]_vars PROVE RolesInOrder'
  OBVIOUS
<1>1. ASSUME NEW r \in Reg, Register(r) PROVE RolesInOrder'
  <2>1. PICK mine \in Allocations : slots' = [slots EXCEPT ![r] = mine]
    BY <1>1 DEF Register
  <2>2. status' = [status EXCEPT ![r] = "pending"]
    BY <1>1 DEF Register
  <2>3. PICK i \in 1..MaxTeams : mine = Place(i)
    BY FirstSlotsArePlace
  <2> QED BY <2>1, <2>2, <2>3 DEF RolesInOrder, Counted, RTypeOK
<1>2. CASE slots' = slots /\ Counted' \subseteq Counted
  BY <1>2 DEF RolesInOrder
<1>3. ASSUME NEW r \in Reg, Cancel(r) \/ Retry(r) PROVE slots' = slots /\ Counted' \subseteq Counted
  BY <1>3 DEF Cancel, Retry, Counted, RTypeOK
<1>4. ASSUME NEW w \in Worker, NEW r \in Reg, Claim(w, r)
      PROVE  slots' = slots /\ Counted' \subseteq Counted
  BY <1>4 DEF Claim, Due, Expired, Counted, RTypeOK
<1>5. ASSUME NEW w \in Worker, Complete(w) \/ Requeue(w)
      PROVE  slots' = slots /\ Counted' \subseteq Counted
  BY <1>5 DEF Complete, Requeue, Holds, Counted, RTypeOK
<1>6. CASE UNCHANGED <<status, slots, attempts, token, decidedBy, slotVars>>
  BY <1>2, <1>6 DEF Counted
<1> QED BY <1>1, <1>2, <1>3, <1>4, <1>5, <1>6, TableSteps

-----------------------------------------------------------------------------
(* The inductive invariant. *)

RegIInv ==
  /\ RTypeOK /\ Busy
  /\ SlotsConsistent /\ RolesInOrder
  /\ Claimed /\ LatestClaimDecides

LEMMA InitRegIInv == Init => RegIInv
<1> SUFFICES ASSUME Init PROVE RegIInv
  OBVIOUS
<1>1. Busy
  BY DEF Init, Busy, At, Idle
<1>2. SlotsConsistent
  <2>1. 0 \notin Reg
    BY DEF Reg
  <2> QED BY <2>1 DEF Init, SlotsConsistent, Counted
<1>3. Claimed /\ LatestClaimDecides
  BY DEF Init, Claimed, LatestClaimDecides
<1>4. RolesInOrder
  BY DEF Init, RolesInOrder, Counted
<1> QED BY <1>1, <1>2, <1>3, <1>4, InitType DEF RegIInv

LEMMA NextRegIInv == RegIInv /\ [Next]_vars => RegIInv'
  BY NextType, BusyStep, TablesStep, RolesStep, DecisionStep DEF RegIInv

\* The invariant holds of every reachable state of registration.
THEOREM RegInvariance == Spec => []RegIInv
<1> QED BY InitRegIInv, NextRegIInv, PTL DEF Spec

\* Every reachable state of registration is well typed.
THEOREM RegTypeCorrect == Spec => []RTypeOK
<1>1. RegIInv => RTypeOK
  BY DEF RegIInv
<1> QED BY <1>1, RegInvariance, PTL

\* Desktops are free, reserved or running as their owners' registrations say, and
\* no desktop is in two registrations that count, for any number of workers.
THEOREM TablesAgree == Spec => []SlotsConsistent
<1>1. RegIInv => SlotsConsistent
  BY DEF RegIInv
<1> QED BY <1>1, RegInvariance, PTL

\* Every team has one whole place, its roles in order, after any sequence of
\* registrations and cancellations and for any number of places.
THEOREM TriplesStayWhole == Spec => []RolesInOrder
<1>1. RegIInv => RolesInOrder
  BY DEF RegIInv
<1> QED BY <1>1, RegInvariance, PTL

\* Only the latest claim of a registration decides what becomes of it.
THEOREM TakenOverClaimsPowerless == Spec => []LatestClaimDecides
<1>1. RegIInv => LatestClaimDecides
  BY DEF RegIInv
<1> QED BY <1>1, RegInvariance, PTL

-----------------------------------------------------------------------------
(* What a handout promises.  As long as no two workers were at work at a    *)
(* time, the stage of the one worker says what its team has already.        *)

Writing == {"reading", "writing", "filling", "joining", "completing"}

Progress(w) ==
  LET r     == Mine(w)
      stage == worker[w].at
  IN  /\ stage # "idle" => status[r] # "none"
      /\ stage \in {"ctfd", "iris", "granting"} \cup Writing => slots[r] \subseteq desktops
      /\ stage \in {"iris", "granting"} \cup Writing => r \in ctfd
      /\ stage \in {"granting"} \cup Writing => r \in iris
      /\ stage \in Writing => {r} \X slots[r] \subseteq grants
      /\ stage = "writing" => text = "whole" /\ worker[w].read = config
      /\ stage = "filling" =>
           text = "empty" /\ \A q \in Reg : status[q] = "ready" => q \in worker[w].read
      /\ stage \in {"joining", "completing"} /\ text = "whole" => r \in config
      /\ stage = "completing" => r \in teams
      /\ stage = "stopping" => \A q \in Reg : status[q] = "ready" => slots[q] \cap slots[r] = {}

Alone(w) == \A x \in Worker : x # w => At(x, "idle")

Serial ==
  ~overlap => \A w \in Worker : ~At(w, "idle") => Alone(w) /\ Progress(w)

\* The stages of a worker that is at work.
LEMMA AtWork ==
  ASSUME NEW w \in Worker, Step(w) \/ StepFails(w) \/ Crash(w)
  PROVE  ~At(w, "idle")
  BY DEF At, Step, Activate, StartDesktops, RegisterCtfd, RegisterIris, Grant, ReadConfig,
     KeepConfig, TruncateConfig, WriteConfig, JoinController, Complete, Requeue, StopDesktops,
     StepFails, Crash, Trying

\* Steps of the page, the operator and the clock leave the hosts alone.
LEMMA PageServes ==
  ASSUME RegIInv, Serial, ReadyIsServed, NEW r \in Reg,
         Register(r) \/ Cancel(r) \/ Retry(r) \/ Lapse(r) \/ RetryFalls(r)
  PROVE  Serial' /\ ReadyIsServed'
<1>1. UNCHANGED <<worker, desktops, ctfd, iris, grants, config, text, teams, overlap>>
  BY DEF Register, Cancel, Retry, Lapse, RetryFalls, hostVars
<1>2. \A q \in Reg : /\ status[q] # "none" => status'[q] # "none" /\ slots'[q] = slots[q]
                     /\ status'[q] = "ready" => status[q] = "ready"
  BY DEF RegIInv, RTypeOK, Register, Cancel, Retry, Lapse, RetryFalls
<1>3. ReadyIsServed'
  BY <1>1, <1>2 DEF ReadyIsServed
<1>4. ASSUME NEW w \in Worker, ~overlap, ~At(w, "idle") PROVE Alone(w)' /\ Progress(w)'
  <2>1. Alone(w) /\ Progress(w) /\ Mine(w) \in Reg
    BY <1>4 DEF Serial, RegIInv, Busy
  <2>2. Alone(w)'
    BY <1>1, <2>1 DEF Alone, At
  <2>3. Progress(w)'
    BY <1>1, <1>2, <1>4, <2>1 DEF Progress, Writing, Mine, At
  <2> QED BY <2>2, <2>3
<1> QED BY <1>1, <1>3, <1>4 DEF Serial, At

LEMMA ClaimServes ==
  ASSUME RegIInv, Serial, ReadyIsServed, NEW w \in Worker, NEW r \in Reg, Claim(w, r)
  PROVE  Serial' /\ ReadyIsServed'
<1>1. /\ UNCHANGED <<slots, desktops, ctfd, iris, grants, config, text, teams>>
      /\ overlap' = (overlap \/ \E x \in Worker : ~At(x, "idle"))
      /\ worker' = [worker EXCEPT ![w] =
            [at |-> "activating", reg |-> r, token |-> attempts[r] + 1, read |-> {}]]
  BY DEF Claim, hostVars
<1>2. \A q \in Reg : /\ status[q] # "none" => status'[q] # "none"
                     /\ status'[q] = "ready" => status[q] = "ready"
  BY DEF Claim, Due, Expired, RegIInv, RTypeOK
<1>3. ReadyIsServed'
  BY <1>1, <1>2 DEF ReadyIsServed
<1>4. Serial'
  <2>1. status'[r] # "none"
    BY DEF Claim, RegIInv, RTypeOK
  <2> QED BY <1>1, <2>1 DEF Serial, Alone, Progress, Writing, At, Mine, RegIInv, RTypeOK
<1> QED BY <1>3, <1>4

\* A step of the one worker at work: the others stay idle.
LEMMA OneWorker ==
  ASSUME RTypeOK, Serial, NEW w \in Worker, Step(w) \/ StepFails(w) \/ Crash(w), ~overlap
  PROVE  /\ \A x \in Worker : x # w => At(x, "idle")'
         /\ Progress(w) /\ overlap' = overlap
         /\ (~At(w, "idle") => Progress(w))' => Serial'
<1>1. ~At(w, "idle") /\ Alone(w) /\ Progress(w)
  BY AtWork DEF Serial
<1>2. overlap' = overlap /\ \A x \in Worker : x # w => worker'[x] = worker[x]
  BY DEF RTypeOK, Step, Activate, StartDesktops, RegisterCtfd, RegisterIris, Grant, ReadConfig,
     KeepConfig, TruncateConfig, WriteConfig, JoinController, Complete, Requeue, StopDesktops,
     StepFails, Crash, Goes
<1>3. \A x \in Worker : x # w => At(x, "idle")'
  BY <1>1, <1>2 DEF Alone, At
<1> QED BY <1>1, <1>2, <1>3 DEF Serial, Alone

LEMMA StepServes ==
  ASSUME RegIInv, Serial, ReadyIsServed, NEW w \in Worker, Step(w) \/ StepFails(w) \/ Crash(w)
  PROVE  Serial' /\ ReadyIsServed'
<1>0. CASE overlap
  <2>1. overlap' = overlap
    BY DEF Step, Activate, StartDesktops, RegisterCtfd, RegisterIris, Grant, ReadConfig,
       KeepConfig, TruncateConfig, WriteConfig, JoinController, Complete, Requeue, StopDesktops,
       StepFails, Crash
  <2> QED BY <1>0, <2>1 DEF Serial, ReadyIsServed
<1> SUFFICES ASSUME ~overlap PROVE Serial' /\ ReadyIsServed'
  BY <1>0
<1>1. Progress(w) /\ ~At(w, "idle") /\ Mine(w) \in Reg
  BY AtWork, OneWorker DEF RegIInv, Busy
<1> SUFFICES (~At(w, "idle") => Progress(w))' /\ ReadyIsServed'
  BY OneWorker DEF RegIInv
<1> USE DEF Progress, Writing, ReadyIsServed, At, Mine, RegIInv, RTypeOK
<1>2. CASE Activate(w)
  <2>1. UNCHANGED <<status, slots, desktops, ctfd, iris, grants, config, text, teams, overlap>>
    BY <1>2 DEF Activate, rowVars, hostVars
  <2>2. worker'[w] = Idle \/ worker'[w] = [worker[w] EXCEPT !.at = "starting"]
    BY <1>2 DEF Activate, Goes
  <2>3. (~At(w, "idle") => Progress(w))'
    BY <1>1, <2>1, <2>2 DEF Idle, Call
  <2> QED BY <2>1, <2>3
<1>3. CASE StartDesktops(w)
  BY <1>1, <1>3 DEF StartDesktops, Started, Goes, rowVars
<1>4. CASE RegisterCtfd(w)
  BY <1>1, <1>4 DEF RegisterCtfd, Goes, rowVars
<1>5. CASE RegisterIris(w)
  BY <1>1, <1>5 DEF RegisterIris, Goes, rowVars
<1>6. CASE Grant(w)
  BY <1>1, <1>6 DEF Grant, Goes, rowVars
<1>7. CASE ReadConfig(w) \/ KeepConfig(w)
  <2>1. UNCHANGED <<status, slots, desktops, ctfd, iris, grants, config, text, teams, overlap>>
    BY <1>7 DEF ReadConfig, KeepConfig, rowVars, hostVars
  <2>2. CASE worker' = [worker EXCEPT ![w].at = "failing"]
    BY <1>1, <2>1, <2>2
  <2>3. CASE ReadConfig(w) /\ text = "whole"
    <3>1. worker[w].at = "reading" /\ worker'[w] = [worker[w] EXCEPT !.at = "writing", !.read = config]
      BY <2>3 DEF ReadConfig
    <3>2. worker'[w].at = "writing" /\ worker'[w].read = config /\ Mine(w)' = Mine(w)
      BY <3>1 DEF Call
    <3> QED BY <1>1, <2>1, <2>3, <3>1, <3>2
  <2>4. CASE KeepConfig(w)
    <3>1. worker[w].at = "writing" /\ Mine(w) \in worker[w].read
          /\ worker'[w] = [worker[w] EXCEPT !.at = "joining", !.read = {}]
      BY <2>4 DEF KeepConfig
    <3>2. worker'[w].at = "joining" /\ Mine(w)' = Mine(w)
      BY <3>1 DEF Call
    <3> QED BY <1>1, <2>1, <3>1, <3>2
  <2> QED BY <1>7, <2>2, <2>3, <2>4 DEF ReadConfig, Goes
<1>8. CASE TruncateConfig(w) \/ WriteConfig(w)
  <2>1. CASE TruncateConfig(w)
    BY <1>1, <2>1 DEF TruncateConfig, Goes, rowVars
  <2>2. CASE WriteConfig(w)
    BY <1>1, <2>2 DEF WriteConfig, rowVars
  <2> QED BY <1>8, <2>1, <2>2
<1>9. CASE JoinController(w)
  BY <1>1, <1>9 DEF JoinController, Goes, rowVars
<1>10. CASE Complete(w)
  <2>1. UNCHANGED <<slots, desktops, ctfd, iris, grants, config, text, teams, overlap>>
    BY <1>10 DEF Complete, hostVars
  <2>2. CASE Holds(w)
    <3>1. worker' = [worker EXCEPT ![w] = Idle] /\ status' = [status EXCEPT ![Mine(w)] = "ready"]
      BY <1>10, <2>2 DEF Complete
    <3>2. worker[w].at = "completing"
      BY <1>10 DEF Complete
    <3> QED BY <1>1, <2>1, <3>1, <3>2 DEF Idle
  <2>3. CASE ~Holds(w)
    <3>1. worker'[w] = [worker[w] EXCEPT !.at = "failing"] /\ status' = status
      BY <1>10, <2>3 DEF Complete, Goes
    <3>2. worker'[w].at = "failing" /\ Mine(w)' = Mine(w)
      BY <3>1 DEF Call
    <3> QED BY <1>1, <2>1, <3>1, <3>2
  <2> QED BY <2>2, <2>3
<1>11. CASE Requeue(w)
  <2>1. CASE ~Holds(w)
    BY <1>1, <1>11, <2>1 DEF Requeue, Idle, hostVars
  <2>2. CASE Holds(w)
    <3>1. status[Mine(w)] = "provisioning"
      BY <2>2 DEF Holds
    <3>2. \A q \in Reg : status[q] = "ready" => slots[q] \cap slots[Mine(w)] = {}
      BY <1>1, <3>1 DEF SlotsConsistent, Counted
    <3>3. \A q \in Reg : status'[q] = "ready" => status[q] = "ready"
      BY <1>11, <2>2 DEF Requeue, Outcome
    <3>4. worker' = [worker EXCEPT ![w].at = "stopping"] /\ UNCHANGED <<slots, hostVars, overlap>>
      BY <1>11, <2>2 DEF Requeue, Goes
    <3>5. status'[Mine(w)] # "none"
      BY <1>1, <1>11, <2>2 DEF Requeue, Outcome
    <3> QED BY <1>1, <3>2, <3>3, <3>4, <3>5 DEF hostVars
  <2> QED BY <2>1, <2>2
<1>12. CASE StopDesktops(w)
  BY <1>1, <1>12 DEF StopDesktops, Idle, rowVars
<1>13. CASE StepFails(w)
  BY <1>1, <1>13 DEF StepFails, CutOff, Goes, rowVars
<1>14. CASE Crash(w)
  BY <1>1, <1>14 DEF Crash, CutOff, Idle, rowVars
<1> QED
  BY <1>2, <1>3, <1>4, <1>5, <1>6, <1>7, <1>8, <1>9, <1>10, <1>11, <1>12, <1>13, <1>14 DEF Step

\* A ready team has everything its handout lists, as long as one worker was at
\* work at a time, whatever failed, expired or was cancelled on the way - its place in
\* config.json as long as that file is whole: a write of it that is under way or was cut
\* off takes all of them (register_once, _register_controller_team).
THEOREM ReadyKeepsPromise == Spec => []ReadyIsServed
<1>1. Init => Serial /\ ReadyIsServed
  BY DEF Init, Serial, ReadyIsServed, At, Idle
<1>2. RegIInv /\ Serial /\ ReadyIsServed /\ [Next]_vars => Serial' /\ ReadyIsServed'
  <2> SUFFICES ASSUME RegIInv, Serial, ReadyIsServed, [Next]_vars PROVE Serial' /\ ReadyIsServed'
    OBVIOUS
  <2>1. CASE UNCHANGED vars
    BY <2>1 DEF vars, rowVars, hostVars, Serial, Alone, Progress, Writing, Mine, At,
       ReadyIsServed
  <2> QED BY <2>1, PageServes, ClaimServes, StepServes DEF Next
<1> QED BY <1>1, <1>2, RegInvariance, PTL DEF Spec

=============================================================================
