--------------------------- MODULE RecoveryProofs ---------------------------
(***************************************************************************)
(* Proof that a completed export is of one instant (ridge/export_run.py),  *)
(* for any number of changes, exports and faults.                          *)
(*                                                                         *)
(* The copy of the store and the look at the receipts are two steps, and   *)
(* the barrier may be cancelled and set again between them by others.      *)
(* What keeps them together is that a token is never used twice: as long   *)
(* as the barrier bears an exporter's own token, nothing has changed since *)
(* it was set (Shielded).                                                  *)
(***************************************************************************)
EXTENDS Recovery, TLAPS

Output == [store : Int, apps : Int, complete : BOOLEAN]
Inside == {"store", "receipts", "complete"}
Export == [at : Inside \cup {"idle", "begin", "release", "done", "failed"}, token : Nat]

TypeInv ==
  /\ store \in Int /\ apps \in Int
  /\ token \in Nat /\ tokens \in Nat /\ token <= tokens
  /\ exporter \in [Exporter -> Export]
  /\ output \in [Exporter -> Output]

\* An exporter inside its barrier has a token of its own, given out already, and an
\* output that does not claim to be complete.
Begun(e) ==
  exporter[e].at \in Inside =>
    exporter[e].token \in 1..tokens /\ ~output[e].complete

\* While the barrier bears its token, what it has copied is the present.
Shielded(e) ==
  token = exporter[e].token =>
    /\ exporter[e].at = "store" => apps = store
    /\ exporter[e].at = "receipts" => apps = store /\ output[e].store = store
    /\ exporter[e].at = "complete" => output[e].store = output[e].apps

Own(e) == Begun(e) /\ Shielded(e)

IInv == TypeInv /\ (\A e \in Exporter : Own(e)) /\ ExportIsOneInstant

LEMMA InitIInv == Init => IInv
<1> SUFFICES ASSUME Init
             PROVE  IInv
  OBVIOUS
<1>1. [at |-> "idle", token |-> 0] \in Export /\ NoOutput \in Output /\ ~NoOutput.complete
  BY DEF Export, NoOutput, Output
<1>2. TypeInv
  BY <1>1 DEF Init, TypeInv
<1>3. ASSUME NEW e \in Exporter
      PROVE  exporter[e].at = "idle" /\ ~output[e].complete
  BY <1>1, <1>3 DEF Init
<1> QED
  BY <1>2, <1>3 DEF IInv, Own, Begun, Shielded, ExportIsOneInstant, Inside

-----------------------------------------------------------------------------
\* Steps that leave exporters and outputs alone, give out no token, and change the
\* systems only while no barrier is set or towards each other.
LEMMA WorldKeeps ==
  ASSUME IInv, UNCHANGED <<tokens, exporter, output>>, token' \in {0, token},
         store' \in Int, apps' \in Int,
         UNCHANGED <<store, apps>> \/ token = 0 \/ apps # store
  PROVE  IInv'
<1>1. TypeInv'
  BY DEF IInv, TypeInv
<1>2. ASSUME NEW e \in Exporter
      PROVE  Own(e)'
  <2>1. exporter[e] \in Export /\ output[e] \in Output /\ Begun(e) /\ Shielded(e)
    BY DEF IInv, TypeInv, Own
  <2>2. Begun(e)'
    BY <2>1 DEF Begun
  <2>a. exporter'[e] = exporter[e] /\ output'[e] = output[e]
    OBVIOUS
  <2>3. CASE exporter[e].at \notin Inside
    BY <2>2, <2>a, <2>3 DEF Own, Shielded, Inside
  <2>5. CASE token' # exporter[e].token
    BY <2>2, <2>a, <2>5 DEF Own, Shielded
  <2>4. CASE exporter[e].at \in Inside /\ token' = exporter[e].token
    <3>1. token # 0 /\ token = exporter[e].token
      BY <2>1, <2>4 DEF Begun, IInv, TypeInv
    <3>2. CASE UNCHANGED <<store, apps>>
      BY <2>1, <2>2, <2>a, <2>4, <3>1, <3>2 DEF Own, Shielded
    <3>3. CASE apps # store
      BY <2>1, <2>2, <2>a, <2>4, <3>1, <3>3 DEF Own, Shielded
    <3> QED BY <3>1, <3>2, <3>3
  <2> QED BY <2>3, <2>4, <2>5
<1>3. ExportIsOneInstant'
  BY DEF IInv, ExportIsOneInstant
<1> QED BY <1>1, <1>2, <1>3 DEF IInv

\* Steps of one exporter, which leave the systems alone.
LEMMA ExporterKeeps ==
  ASSUME IInv, NEW e \in Exporter, NEW c \in Export, NEW r \in Output,
         exporter' = [exporter EXCEPT ![e] = c], output' = [output EXCEPT ![e] = r],
         UNCHANGED <<store, apps>>,
         tokens' \in Nat, tokens' >= tokens, token' <= tokens', token' \in Nat,
         token' \in {0, token} \/ token' > tokens,
         Own(e)', r.complete => r.store = r.apps
  PROVE  IInv'
<1>1. TypeInv'
  BY DEF IInv, TypeInv
<1>2. ASSUME NEW f \in Exporter \ {e}
      PROVE  Own(f)'
  <2>1. exporter'[f] = exporter[f] /\ output'[f] = output[f] /\ exporter[f] \in Export
        /\ output[f] \in Output /\ Begun(f) /\ Shielded(f) /\ token \in Nat /\ tokens \in Nat
    BY DEF IInv, TypeInv, Own
  <2>2. Begun(f)'
    BY <2>1 DEF Begun
  <2>3. CASE exporter[f].at \notin Inside
    BY <2>1, <2>2, <2>3 DEF Own, Shielded, Inside
  <2>5. CASE token' # exporter[f].token
    BY <2>1, <2>2, <2>5 DEF Own, Shielded
  <2>4. CASE exporter[f].at \in Inside /\ token' = exporter[f].token
    <3>1. token = exporter[f].token
      BY <2>1, <2>4 DEF Begun
    <3> QED BY <2>1, <2>2, <2>4, <3>1 DEF Own, Shielded
  <2> QED BY <2>3, <2>4, <2>5
<1>3. ExportIsOneInstant'
  BY DEF IInv, TypeInv, ExportIsOneInstant
<1> QED BY <1>1, <1>2, <1>3 DEF IInv

\* A step that only moves an exporter on.
LEMMA GoesTo ==
  ASSUME IInv, NEW e \in Exporter, NEW x \in {"idle", "begin", "release", "done", "failed"},
         Goes(e, x), UNCHANGED <<store, apps, tokens, output>>, token' \in {0, token}
  PROVE  IInv'
<1> DEFINE c == [exporter[e] EXCEPT !.at = x]
<1>1. exporter[e] \in Export /\ exporter \in [Exporter -> Export] /\ output \in [Exporter -> Output]
      /\ output[e] \in Output /\ token \in Nat /\ tokens \in Nat /\ token <= tokens
  BY DEF IInv, TypeInv
<1>2. [exporter[e] EXCEPT !.at = x] \in Export
  BY <1>1 DEF Export
<1>3. c \in Export /\ c.at = x /\ exporter' = [exporter EXCEPT ![e] = c]
  BY <1>1, <1>2 DEF Goes, Export
<1> HIDE DEF c
<1>4. output' = [output EXCEPT ![e] = output[e]]
  BY <1>1
<1>5. exporter'[e].at = x
  BY <1>1, <1>3
<1>6. Own(e)'
  BY <1>5 DEF Own, Begun, Shielded, Inside
<1>7. output[e].complete => output[e].store = output[e].apps
  BY DEF IInv, ExportIsOneInstant
<1>8. /\ UNCHANGED <<store, apps>> /\ tokens' \in Nat /\ tokens' >= tokens
      /\ token' <= tokens' /\ token' \in Nat /\ (token' \in {0, token} \/ token' > tokens)
  BY <1>1
<1> QED BY <1>1, <1>3, <1>4, <1>6, <1>7, <1>8, ExporterKeeps

LEMMA BeginKeeps ==
  ASSUME IInv, NEW e \in Exporter, ExportBegin(e)
  PROVE  IInv'
<1>1. token \in Nat /\ tokens \in Nat /\ token <= tokens
      /\ exporter \in [Exporter -> Export] /\ output \in [Exporter -> Output]
  BY DEF IInv, TypeInv
<1>2. CASE token = 0 /\ mode = "paused" /\ apps = store
  <2> DEFINE c == [at |-> "store", token |-> tokens + 1]
  <2>1. c \in Export /\ c.at = "store" /\ c.token = tokens + 1
    BY <1>1 DEF Export, Inside
  <2>2. NoOutput \in Output /\ ~NoOutput.complete
    BY DEF NoOutput, Output
  <2>3. /\ exporter' = [exporter EXCEPT ![e] = c] /\ output' = [output EXCEPT ![e] = NoOutput]
        /\ tokens' = tokens + 1 /\ token' = tokens + 1 /\ UNCHANGED <<store, apps>>
    BY <1>2 DEF ExportBegin
  <2> HIDE DEF c
  <2>4. exporter'[e] = c /\ output'[e] = NoOutput
    BY <1>1, <2>3
  <2>5. Own(e)'
    BY <1>1, <1>2, <2>1, <2>2, <2>3, <2>4 DEF Own, Begun, Shielded
  <2>6. tokens' \in Nat /\ tokens' >= tokens /\ token' <= tokens' /\ token' \in Nat /\ token' > tokens
    BY <1>1, <2>3
  <2> QED BY <2>1, <2>2, <2>3, <2>5, <2>6, ExporterKeeps
<1>3. CASE ~(token = 0 /\ mode = "paused" /\ apps = store)
  <2>1. Goes(e, "failed") /\ UNCHANGED <<store, apps, token, tokens, output>>
    BY <1>3 DEF ExportBegin
  <2> QED BY <2>1, GoesTo
<1> QED BY <1>2, <1>3

\* The steps inside the barrier.
LEMMA InsideKeeps ==
  ASSUME IInv, NEW e \in Exporter, ExportStore(e) \/ ExportReceipts(e) \/ ExportComplete(e)
  PROVE  IInv'
<1>1. /\ token \in Nat /\ tokens \in Nat /\ token <= tokens /\ store \in Int /\ apps \in Int
      /\ exporter \in [Exporter -> Export] /\ output \in [Exporter -> Output]
      /\ exporter[e] \in Export /\ output[e] \in Output
      /\ UNCHANGED <<store, apps, token, tokens>>
  BY DEF IInv, TypeInv, ExportStore, ExportReceipts, ExportComplete
<1>2. exporter[e].at \in Inside /\ exporter[e].token \in 1..tokens /\ ~output[e].complete /\ Shielded(e)
  BY DEF IInv, Own, Begun, Inside, ExportStore, ExportReceipts, ExportComplete
<1>7. /\ UNCHANGED <<store, apps>> /\ tokens' \in Nat /\ tokens' >= tokens
      /\ token' <= tokens' /\ token' \in Nat /\ (token' \in {0, token} \/ token' > tokens)
  BY <1>1
<1>3. ASSUME NEW x \in Inside \cup {"release"}
      PROVE  LET c == [exporter[e] EXCEPT !.at = x]
             IN  c \in Export /\ c.at = x /\ c.token = exporter[e].token
  <2>1. [exporter[e] EXCEPT !.at = x] \in Export
    BY <1>1, <1>3 DEF Export
  <2> QED BY <1>1, <2>1 DEF Export
<1>4. CASE ExportStore(e)
  <2> DEFINE c == [exporter[e] EXCEPT !.at = "receipts"]
             r == [output[e] EXCEPT !.store = store]
  <2>1. c \in Export /\ c.at = "receipts" /\ c.token = exporter[e].token
    BY <1>3 DEF Inside
  <2>2. [output[e] EXCEPT !.store = store] \in Output
    BY <1>1 DEF Output
  <2>3. r \in Output /\ r.store = store /\ ~r.complete
    BY <1>1, <1>2, <2>2 DEF Output
  <2>4. exporter' = [exporter EXCEPT ![e] = c] /\ output' = [output EXCEPT ![e] = r]
    BY <1>1, <1>4 DEF ExportStore, Goes, Export, Output
  <2> HIDE DEF c, r
  <2>5. exporter'[e] = c /\ output'[e] = r /\ exporter[e].at = "store"
    BY <1>1, <1>4, <2>4 DEF ExportStore
  <2>6. Own(e)'
    BY <1>1, <1>2, <2>1, <2>3, <2>5 DEF Own, Begun, Shielded
  <2> QED BY <1>7, <2>1, <2>3, <2>4, <2>6, ExporterKeeps
<1>5. CASE ExportReceipts(e)
  <2>0. PICK x \in {"complete", "release"} : Goes(e, x)
    BY <1>5 DEF ExportReceipts
  <2> DEFINE c == [exporter[e] EXCEPT !.at = x]
             r == [output[e] EXCEPT !.apps = apps]
  <2>1. c \in Export /\ c.at = x /\ c.token = exporter[e].token
    BY <1>3 DEF Inside
  <2>2. [output[e] EXCEPT !.apps = apps] \in Output
    BY <1>1 DEF Output
  <2>3. r \in Output /\ r.store = output[e].store /\ r.apps = apps /\ ~r.complete
    BY <1>1, <1>2, <2>2 DEF Output
  <2>9. exporter' = [exporter EXCEPT ![e] = c]
    BY <1>1, <2>0 DEF Goes, Export
  <2>4. exporter' = [exporter EXCEPT ![e] = c] /\ output' = [output EXCEPT ![e] = r]
    <3>1. output' = [output EXCEPT ![e].apps = apps]
      BY <1>5 DEF ExportReceipts
    <3> QED BY <1>1, <2>9, <3>1
  <2> HIDE DEF c, r
  <2>5. exporter'[e] = c /\ output'[e] = r /\ exporter[e].at = "receipts"
    BY <1>1, <1>5, <2>4 DEF ExportReceipts
  <2>6. Own(e)'
    BY <1>1, <1>2, <2>1, <2>3, <2>5 DEF Own, Begun, Shielded
  <2> QED BY <1>7, <2>1, <2>3, <2>4, <2>6, ExporterKeeps
<1>6. CASE ExportComplete(e)
  <2> DEFINE done == token = exporter[e].token
             c == [exporter[e] EXCEPT !.at = "release"]
             r == [output[e] EXCEPT !.complete = done]
  <2>1. c \in Export /\ c.at = "release"
    BY <1>3
  <2>2. done \in BOOLEAN
    OBVIOUS
  <2>3. done => output[e].store = output[e].apps
    BY <1>2, <1>6 DEF ExportComplete, Shielded
  <2>4. exporter' = [exporter EXCEPT ![e] = c] /\ output' = [output EXCEPT ![e] = r]
    BY <1>1, <1>6 DEF ExportComplete, Goes, Export, Output
  <2> HIDE DEF done, c
  <2>5. [output[e] EXCEPT !.complete = done] \in Output
    BY <1>1, <2>2 DEF Output
  <2>6. r \in Output /\ (r.complete => r.store = r.apps)
    BY <1>1, <2>3, <2>5 DEF Output
  <2> HIDE DEF r
  <2>7. exporter'[e].at = "release"
    BY <1>1, <2>1, <2>4
  <2>8. Own(e)'
    BY <2>7 DEF Own, Begun, Shielded, Inside
  <2> QED BY <1>7, <2>1, <2>4, <2>6, <2>8, ExporterKeeps
<1> QED BY <1>4, <1>5, <1>6

LEMMA NextIInv == IInv /\ [Next]_vars => IInv'
<1> SUFFICES ASSUME IInv, [Next]_vars
             PROVE  IInv'
  OBVIOUS
<1> USE DEF exportVars, createVars, restoreVars
<1>0. store \in Int /\ apps \in Int /\ token \in Nat
  BY DEF IInv, TypeInv
<1>1. CASE SetMode \/ Change \/ Drain \/ CancelExport
  BY <1>0, <1>1, WorldKeeps DEF SetMode, Change, Drain, CancelExport
<1>2. CASE ExportByHand \/ CreateBegin \/ CreateExported
  <2>1. /\ \E e \in Exporter, x \in {"begin", "idle"} : Goes(e, x)
        /\ UNCHANGED <<store, apps, token, tokens, output>>
    BY <1>2 DEF ExportByHand, CreateBegin, CreateExported, Exporter
  <2> QED BY <2>1, GoesTo
<1>3. ASSUME NEW e \in Exporter, ExportRelease(e) \/ ExportKilled(e)
      PROVE  IInv'
  <2>1. /\ \E x \in {"done", "failed"} : Goes(e, x)
        /\ UNCHANGED <<store, apps, tokens, output>> /\ token' \in {0, token}
    BY <1>3 DEF ExportRelease, ExportKilled
  <2> QED BY <2>1, GoesTo
<1>4. CASE CreateCopy \/ CreateComplete \/ CreateFails \/ Damage \/ RestoreTry \/ RestoreStep
           \/ RestoreFails \/ UNCHANGED vars
  <2>1. UNCHANGED <<store, apps, token, tokens, exporter, output>>
    BY <1>4 DEF CreateCopy, CreateComplete, CreateFails, Damage, RestoreTry, RestoreBegin,
       CleanUp, RestoreStep, RestoreMaterialize, RestoreLoad, RestoreUp, RestoreFails, vars
  <2> QED BY <1>0, <2>1, WorldKeeps
<1> QED
  BY <1>1, <1>2, <1>3, <1>4, BeginKeeps, InsideKeeps DEF Next, ExportStep, CreateStep

\* A completed export holds the store and the applications at one instant, whoever
\* cancels, repeats or kills exports meanwhile (export_run.export).
THEOREM ExportsAreCoherent == Spec => []ExportIsOneInstant
<1>1. IInv => ExportIsOneInstant
  BY DEF IInv
<1> QED BY InitIInv, NextIInv, <1>1, PTL DEF Spec
=============================================================================
