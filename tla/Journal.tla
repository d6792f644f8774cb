------------------------------- MODULE Journal -------------------------------
(***************************************************************************)
(* The deployment journal (ridge/deploy/journal.py), the process lock      *)
(* beside it (ridge/deploy/locking.py) and the provider contract           *)
(* (ridge/deploy/providers.py): processes create or open the journal, take *)
(* the lock and work through the steps of a plan, each of which has one    *)
(* resource; they may be killed at any point, and a provider may create a  *)
(* resource and fail to say so.  Creating, opening and migrating the       *)
(* journal come before the lock is asked for (LocalStack._journal).        *)
(*                                                                         *)
(* The journal is one file: a process that replaced it has left the others *)
(* with a file of their own that no name leads to.                         *)
(***************************************************************************)
EXTENDS Integers

CONSTANTS
  Process,
  None,
  Steps,      \* number of steps of the plan
  MaxJournals, \* bound on the journals begun
  MaxFaults   \* bound on kills, lost acknowledgments and rebuilds together

VARIABLES
  file,      \* "absent" (or empty), "schema" (no row yet) or "made"
  born,      \* number of journals created: tells the present file from earlier ones
  state,     \* meta.state
  release,   \* meta.release_fingerprint
  source,    \* the fingerprint of the working tree
  step,      \* steps.state
  recorded,  \* steps whose resource is in the resources table
  present,   \* steps whose resource the provider has
  surplus,   \* history: a resource was created beside one that was there
  lock,
  at,        \* what each process does: its place, the step, the journal it began
  bereft,    \* history: a process found no journal where it had made or opened one
  faults

fileVars == <<file, born, release, source>>
stepVars == <<state, step, recorded>>
vars == <<fileVars, stepVars, present, surplus, lock, at, bereft, faults>>

Step == 1..Steps
Idle == [place |-> "idle", n |-> 1, mine |-> 0]

Init ==
  /\ file = "absent" /\ born = 0 /\ state = "NEW" /\ release = 0 /\ source = 1
  /\ step = [i \in Step |-> "pending"] /\ recorded = {} /\ present = {} /\ surplus = FALSE
  /\ lock = None /\ at = [p \in Process |-> Idle] /\ bereft = FALSE /\ faults = 0

Fault == faults < MaxFaults /\ faults' = faults + 1
NoFault == UNCHANGED faults

Place(p, place) == at' = [at EXCEPT ![p].place = place]
Ends(p) == at' = [at EXCEPT ![p] = Idle] /\ lock' = IF lock = p THEN None ELSE lock

\* sqlite makes an empty file where there is none, in which no table is found.
Bereft(p) == Ends(p) /\ bereft' = TRUE

-----------------------------------------------------------------------------
(* Journal.create and Journal.open, before the lock *)

Up(p) ==
  /\ at[p] = Idle /\ (file = "absent" => born < MaxJournals)
  /\ Place(p, IF file = "absent" THEN "create" ELSE "open")
  /\ UNCHANGED <<fileVars, stepVars, present, surplus, lock, bereft, faults>>

\* The tables are created, unless another process was faster: the error's handler
\* removes the file, whosever it is.
CreateSchema(p) ==
  /\ at[p].place = "create"
  /\ IF file = "absent"
       THEN /\ file' = "schema" /\ born' = born + 1
            /\ at' = [at EXCEPT ![p].place = "commit", ![p].mine = born + 1]
       ELSE file' = "absent" /\ at' = [at EXCEPT ![p] = Idle] /\ UNCHANGED born
  /\ UNCHANGED <<release, source, stepVars, present, surplus, lock, bereft, faults>>

\* The rows go into the file the process has open.
CreateCommit(p) ==
  /\ at[p].place = "commit"
  /\ Place(p, "wait")
  /\ IF file = "schema" /\ born = at[p].mine
       THEN /\ file' = "made" /\ state' = "NEW" /\ release' = source
            /\ step' = [i \in Step |-> "pending"] /\ recorded' = {}
       ELSE UNCHANGED <<file, release, stepVars>>
  /\ UNCHANGED <<born, source, present, surplus, lock, bereft, faults>>

\* check_fingerprints: a changed release is refused, or migrated to when the journal
\* is NEW (and there is no controller state yet).
CheckFingerprints(p) ==
  IF release = source THEN Place(p, "wait") /\ UNCHANGED <<release, step>>
  ELSE IF state = "NEW"
    THEN Place(p, "wait") /\ release' = source /\ step' = [i \in Step |-> "pending"]
    ELSE at' = [at EXCEPT ![p] = Idle] /\ UNCHANGED <<release, step>>

Open(p) ==
  /\ at[p].place = "open"
  /\ IF file = "made" THEN CheckFingerprints(p)
                      ELSE at' = [at EXCEPT ![p] = Idle] /\ UNCHANGED <<release, step>>
  /\ UNCHANGED <<file, born, source, state, recorded, present, surplus, lock, bereft, faults>>

-----------------------------------------------------------------------------
(* The steps, under the lock *)

Lock(p) ==
  /\ at[p].place = "wait" /\ lock = None
  /\ lock' = p /\ Place(p, "step")
  /\ UNCHANGED <<fileVars, stepVars, present, surplus, bereft, faults>>

LockTimeout(p) ==
  /\ at[p].place = "wait" /\ lock # None
  /\ at' = [at EXCEPT ![p] = Idle]
  /\ UNCHANGED <<fileVars, stepVars, present, surplus, lock, bereft, faults>>

NextStep(p) == at' = [at EXCEPT ![p].n = @ + 1, ![p].place = "step"] /\ UNCHANGED lock

\* A verified step whose resource is there is passed over, and one whose resource is
\* not there ends the command; after the last step the state is set.
BeginStep(p) ==
  /\ at[p].place = "step"
  /\ LET i == at[p].n IN
     \/ file # "made" /\ Bereft(p) /\ UNCHANGED <<state, step>>
     \/ /\ file = "made" /\ UNCHANGED bereft
        /\ \/ i > Steps /\ state' = "RESOURCES_VERIFIED" /\ Ends(p) /\ UNCHANGED step
           \/ /\ i <= Steps /\ step[i] = "verified" /\ UNCHANGED <<state, step>>
              /\ IF i \in present THEN NextStep(p) ELSE Ends(p)
           \/ /\ i <= Steps /\ step[i] # "verified"
              /\ step' = [step EXCEPT ![i] = "started"]
              /\ Place(p, "ensure") /\ UNCHANGED <<state, lock>>
  /\ UNCHANGED <<fileVars, recorded, present, surplus, faults>>

\* Seeded fault (OneResource): what the journal does not record is taken not to exist.
ProbeRecorded(i) == i \in recorded

Probe(i) == i \in present

\* ensure_resource: the provider is asked before anything is created.
ProbeResource(p) ==
  /\ at[p].place = "ensure"
  /\ Place(p, IF Probe(at[p].n) THEN "record" ELSE "create resource")
  /\ UNCHANGED <<fileVars, stepVars, present, surplus, lock, bereft, faults>>

\* The provider's acknowledgment may be lost.
CreateResource(p) ==
  /\ at[p].place = "create resource"
  /\ LET i == at[p].n IN
     /\ surplus' = (surplus \/ i \in present)
     /\ present' = present \cup {i}
     /\ \/ Place(p, "record") /\ UNCHANGED <<step, lock>> /\ NoFault
        \/ Fault /\ step' = [step EXCEPT ![i] = IF file = "made" THEN "failed" ELSE @] /\ Ends(p)
  /\ UNCHANGED <<fileVars, state, recorded, bereft>>

RecordResource(p) ==
  /\ at[p].place = "record" /\ file = "made"
  /\ recorded' = recorded \cup {at[p].n}
  /\ Place(p, "verify")
  /\ UNCHANGED <<fileVars, state, step, present, surplus, lock, bereft, faults>>

\* A step that is no longer started, for a migration has reset it, is not completed.
CompleteStep(p) ==
  /\ at[p].place = "verify" /\ file = "made"
  /\ LET i == at[p].n IN
     IF i \in present /\ step[i] = "started"
       THEN step' = [step EXCEPT ![i] = "verified"] /\ NextStep(p)
       ELSE step' = [step EXCEPT ![i] = "failed"] /\ Ends(p)
  /\ UNCHANGED <<fileVars, state, recorded, present, surplus, bereft, faults>>

LosesJournal(p) ==
  /\ at[p].place \in {"record", "verify"} /\ file # "made"
  /\ Bereft(p)
  /\ UNCHANGED <<fileVars, stepVars, present, surplus, faults>>

-----------------------------------------------------------------------------

\* Every resource the journal records is stopped, by its recorded handle.
Stop(p) ==
  /\ at[p] = Idle /\ lock = None /\ file = "made"
  /\ present' = present \ recorded /\ state' = "STOPPED"
  /\ UNCHANGED <<fileVars, step, recorded, surplus, lock, at, bereft, faults>>

Kill(p) ==
  /\ at[p] # Idle /\ Fault
  /\ Ends(p)
  /\ UNCHANGED <<fileVars, stepVars, present, surplus, bereft>>

Rebuild ==
  /\ Fault /\ source' = source + 1
  /\ UNCHANGED <<file, born, release, stepVars, present, surplus, lock, at, bereft>>

\* The operator removes what neither create nor open accepts.
Remove ==
  /\ file = "schema" /\ \A p \in Process : at[p] = Idle
  /\ file' = "absent"
  /\ UNCHANGED <<born, release, source, stepVars, present, surplus, lock, at, bereft, faults>>

Next ==
  \/ \E p \in Process :
       \/ Up(p) \/ CreateSchema(p) \/ CreateCommit(p) \/ Open(p) \/ Lock(p) \/ LockTimeout(p)
       \/ BeginStep(p) \/ ProbeResource(p) \/ CreateResource(p) \/ RecordResource(p)
       \/ CompleteStep(p) \/ LosesJournal(p) \/ Stop(p) \/ Kill(p)
  \/ Rebuild \/ Remove

Spec == Init /\ [][Next]_vars

-----------------------------------------------------------------------------
(* Properties *)

\* A lost acknowledgment, a kill between create and record, or even a lost journal
\* reconciles to one resource (ensure_resource's docstring).
OneResource == ~surplus

\* Processes that create and open the journal at once serialise or time out, as the
\* lock's docstring says (journal.py:160): none loses the journal it works with.
JournalSurvives == ~bereft

=============================================================================
