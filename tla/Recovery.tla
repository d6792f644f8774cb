------------------------------- MODULE Recovery -------------------------------
(***************************************************************************)
(* Recovery sets (ridge/deploy/recovery.py): create, which runs the        *)
(* coherent three-system export (ridge/export_run.py) and then copies the  *)
(* parts of the event one after the other; verify_set; and restore onto a  *)
(* clean destination.  The event goes on under them: its mode and its      *)
(* store are changed by other processes, which the export's barrier holds  *)
(* back and nothing else does.                                             *)
(*                                                                         *)
(* A part is stood for by the instant it was copied at, which is the       *)
(* number of changes the store had accepted by then.                       *)
(***************************************************************************)
EXTENDS Integers, Sequences

CONSTANTS
  MaxChanges, \* bound on the changes the store accepts
  MaxTokens,  \* bound on the exports begun
  MaxFaults   \* bound on kills, failed calls and damaged files

VARIABLES
  mode, store, apps,    \* run.mode; changes accepted; changes IRIS and CTFd have
  token, tokens,        \* control.export_token (0: none), and the last one made
  exporter, output,     \* the export job of a backup and one run by hand, and what
                        \* the directory of each holds
  creator, set,         \* the backup command; the directory it fills
  restorer, dest,       \* the restore command; the destination it fills
  faults

exportVars == <<token, tokens, exporter, output>>
createVars == <<creator, set>>
restoreVars == <<restorer, dest>>
vars == <<mode, store, apps, exportVars, createVars, restoreVars, faults>>

\* The parts in the order create copies them ("files" stands for journal, inventories,
\* documents, volumes, assets and secrets); the completion marker comes last.
PARTS == <<"export", "state", "databases", "files", "manifest">>
\* What verify_set requires by name, besides the sums of all files there were.
Required == {"state", "databases", "files", "manifest"}

Exporter == {"job", "hand"}
NoOutput == [store |-> -1, apps |-> -1, complete |-> FALSE]
NoSet == [parts |-> <<>>, mode |-> "paused", sums |-> FALSE, damaged |-> FALSE, marker |-> FALSE]

Init ==
  /\ mode \in {"paused", "running"} /\ store = 0 /\ apps = 0
  /\ token = 0 /\ tokens = 0 /\ exporter = [e \in Exporter |-> [at |-> "idle", token |-> 0]]
  /\ output = [e \in Exporter |-> NoOutput]
  /\ creator = "idle" /\ set = NoSet
  /\ restorer = "idle" /\ dest = "clean"
  /\ faults = 0

Fault == faults < MaxFaults /\ faults' = faults + 1
NoFault == UNCHANGED faults

-----------------------------------------------------------------------------
(* The live event *)

\* State.mode, which the barrier freezes.
SetMode ==
  /\ token = 0
  /\ mode' = IF mode = "paused" THEN "running" ELSE "paused"
  /\ UNCHANGED <<store, apps, exportVars, createVars, restoreVars, faults>>

\* Work of the teams while the event runs, an announcement or a recovery by the
\* facilitators also while it is paused.
Change ==
  /\ token = 0 /\ store < MaxChanges
  /\ store' = store + 1
  /\ UNCHANGED <<mode, apps, exportVars, createVars, restoreVars, faults>>

\* The outbox is drained: a delivery needs no mutation, so no barrier stops it.
Drain ==
  /\ apps < store /\ apps' = store
  /\ UNCHANGED <<mode, store, exportVars, createVars, restoreVars, faults>>

\* ridge.cli cancel-export, for an export taken to be abandoned.
CancelExport ==
  /\ token # 0 /\ token' = 0
  /\ UNCHANGED <<mode, store, apps, tokens, exporter, output, createVars, restoreVars, faults>>

-----------------------------------------------------------------------------
(* export_run.export, once inside a backup and once by hand *)

Goes(e, at) == exporter' = [exporter EXCEPT ![e].at = at]

ExportByHand ==
  /\ exporter["hand"].at \in {"idle", "done", "failed"}
  /\ Goes("hand", "begin")
  /\ UNCHANGED <<mode, store, apps, token, tokens, output, createVars, restoreVars, faults>>

ExportBegin(e) ==
  /\ exporter[e].at = "begin" /\ tokens < MaxTokens
  /\ IF token = 0 /\ mode = "paused" /\ apps = store
       THEN /\ tokens' = tokens + 1 /\ token' = tokens + 1
            /\ exporter' = [exporter EXCEPT ![e] = [at |-> "store", token |-> tokens + 1]]
            /\ output' = [output EXCEPT ![e] = NoOutput]
       ELSE Goes(e, "failed") /\ UNCHANGED <<token, tokens, output>>
  /\ UNCHANGED <<mode, store, apps, createVars, restoreVars, faults>>

ExportStore(e) ==
  /\ exporter[e].at = "store"
  /\ output' = [output EXCEPT ![e].store = store]
  /\ Goes(e, "receipts")
  /\ UNCHANGED <<mode, store, apps, token, tokens, createVars, restoreVars, faults>>

\* The receipts of IRIS and CTFd must show every delivery of the store's outbox;
\* receipts the outbox does not know are no difference.
ExportReceipts(e) ==
  /\ exporter[e].at = "receipts"
  /\ output' = [output EXCEPT ![e].apps = apps]
  /\ \/ apps >= output[e].store /\ Goes(e, "complete") /\ NoFault
     \/ Goes(e, "release") /\ Fault
  /\ UNCHANGED <<mode, store, apps, token, tokens, createVars, restoreVars>>

\* Seeded fault (ExportIsOneInstant): any barrier will do.
CompleteUnderAnyToken(e) ==
  /\ exporter[e].at = "complete"
  /\ output' = [output EXCEPT ![e].complete = (token # 0)]
  /\ Goes(e, "release")
  /\ UNCHANGED <<mode, store, apps, token, tokens, createVars, restoreVars, faults>>

\* Completion and cancellation are serialised by the write transaction.
ExportComplete(e) ==
  /\ exporter[e].at = "complete"
  /\ output' = [output EXCEPT ![e].complete = (token = exporter[e].token)]
  /\ Goes(e, "release")
  /\ UNCHANGED <<mode, store, apps, token, tokens, createVars, restoreVars, faults>>

\* The barrier is released by its own token only.
ExportRelease(e) ==
  /\ exporter[e].at = "release"
  /\ token' = IF token = exporter[e].token THEN 0 ELSE token
  /\ Goes(e, IF output[e].complete THEN "done" ELSE "failed")
  /\ UNCHANGED <<mode, store, apps, tokens, output, createVars, restoreVars, faults>>

\* A killed export leaves its barrier behind.
ExportKilled(e) ==
  /\ exporter[e].at \in {"store", "receipts", "complete", "release"} /\ Fault
  /\ Goes(e, "failed")
  /\ UNCHANGED <<mode, store, apps, token, tokens, output, createVars, restoreVars>>

ExportStep(e) ==
  ExportBegin(e) \/ ExportStore(e) \/ ExportReceipts(e) \/ ExportComplete(e) \/ ExportRelease(e)

-----------------------------------------------------------------------------
(* create *)

Quiescent == mode = "paused" /\ apps = store

CreateBegin ==
  /\ creator = "idle" /\ restorer = "idle" /\ Quiescent
  /\ creator' = "export" /\ set' = NoSet
  /\ Goes("job", "begin")
  /\ UNCHANGED <<mode, store, apps, token, tokens, output, restoreVars, faults>>

CreateExported ==
  /\ creator = "export" /\ exporter["job"].at \in {"done", "failed"}
  /\ Goes("job", "idle")
  /\ IF exporter["job"].at = "done"
       THEN creator' = "copy" /\ set' = [set EXCEPT !.parts = <<output["job"].store>>]
       ELSE creator' = "idle" /\ UNCHANGED set
  /\ UNCHANGED <<mode, store, apps, token, tokens, output, restoreVars, faults>>

\* The database dumps hold what the applications have by then.
Copied(part) == IF part = "databases" THEN apps ELSE store

\* The next part: the store's copy holds its mode as well.
CreateCopy ==
  /\ creator = "copy" /\ Len(set.parts) < Len(PARTS)
  /\ LET part == PARTS[Len(set.parts) + 1] IN
     set' = [set EXCEPT !.parts = Append(@, Copied(part)),
                        !.mode  = IF part = "state" THEN mode ELSE @]
  /\ UNCHANGED <<mode, store, apps, exportVars, creator, restoreVars, faults>>

\* verify_sums_only.
SumsHold == set.sums /\ ~set.damaged

\* The sums are written and verified, then the marker.
CreateComplete ==
  /\ creator = "copy" /\ Len(set.parts) = Len(PARTS)
  /\ \/ ~set.sums /\ set' = [set EXCEPT !.sums = TRUE] /\ UNCHANGED creator
     \/ SumsHold /\ set' = [set EXCEPT !.marker = TRUE] /\ creator' = "idle"
     \/ set.sums /\ ~SumsHold /\ creator' = "idle" /\ UNCHANGED set
  /\ UNCHANGED <<mode, store, apps, exportVars, restoreVars, faults>>

\* A part's copy fails, or the command is killed, export job and all.
CreateFails ==
  /\ creator = "copy" /\ Fault
  /\ creator' = "idle"
  /\ UNCHANGED <<mode, store, apps, exportVars, set, restoreVars>>

Damage ==
  /\ set.sums /\ ~set.damaged /\ Fault
  /\ set' = [set EXCEPT !.damaged = TRUE]
  /\ UNCHANGED <<mode, store, apps, exportVars, creator, restoreVars>>

\* verify_set: the marker, the required names among the sums, and every hash.
Present == {PARTS[i] : i \in DOMAIN set.parts}
Verified == set.marker /\ SumsHold /\ Required \subseteq Present

-----------------------------------------------------------------------------
(* restore *)

\* The runtime holds nothing but local.json, and no container or volume is left.
RestoreBegin ==
  /\ restorer = "idle" /\ creator = "idle" /\ Verified /\ dest = "clean"
  /\ restorer' = "materialize"
  /\ UNCHANGED <<mode, store, apps, exportVars, createVars, dest, faults>>

\* Secrets, state and inventories are put in place; then databases, volumes and
\* documents are loaded, and up brings the stages to PROVISIONED_PAUSED, whose
\* probe wants the restored store paused.
RestoreMaterialize ==
  /\ restorer = "materialize" /\ dest' = "partial" /\ restorer' = "load"
  /\ UNCHANGED <<mode, store, apps, exportVars, createVars, faults>>

RestoreLoad ==
  /\ restorer = "load" /\ restorer' = "up"
  /\ UNCHANGED <<mode, store, apps, exportVars, createVars, dest, faults>>

RestoreUp ==
  /\ restorer = "up" /\ restorer' = "idle"
  /\ dest' = IF set.mode = "paused" THEN "restored" ELSE dest
  /\ UNCHANGED <<mode, store, apps, exportVars, createVars, faults>>

\* Seeded fault (RestoreConverges): a failed restore keeps its hold of the destination.
RestoreFailsHolding ==
  /\ restorer \in {"load", "up"} /\ Fault /\ restorer' = "failed"
  /\ UNCHANGED <<mode, store, apps, exportVars, createVars, dest>>

\* A failure stops the containers restore started, and leaves the rest.
RestoreFails ==
  /\ restorer \in {"load", "up"} /\ Fault /\ restorer' = "idle"
  /\ UNCHANGED <<mode, store, apps, exportVars, createVars, dest>>

\* The operator prepares another runtime and removes the volumes by hand.
CleanUp ==
  /\ restorer = "idle" /\ dest = "partial" /\ dest' = "clean"
  /\ UNCHANGED <<mode, store, apps, exportVars, createVars, restorer, faults>>

RestoreStep == RestoreMaterialize \/ RestoreLoad \/ RestoreUp

CreateStep == CreateExported \/ CreateCopy \/ CreateComplete
RestoreTry == RestoreBegin \/ CleanUp

Next ==
  \/ SetMode \/ Change \/ Drain \/ CancelExport \/ ExportByHand
  \/ \E e \in Exporter : ExportStep(e) \/ ExportKilled(e)
  \/ CreateBegin \/ CreateStep \/ CreateFails \/ Damage
  \/ RestoreTry \/ RestoreStep \/ RestoreFails

Spec == Init /\ [][Next]_vars

\* Commands go on once begun; a restore is tried again whenever nothing else runs, after the
\* operator removed what the failed one left.
Fairness ==
  /\ WF_vars(CreateStep) /\ \A e \in Exporter : WF_vars(ExportStep(e))
  /\ SF_vars(RestoreTry) /\ WF_vars(RestoreStep)

FairSpec == Spec /\ Fairness

-----------------------------------------------------------------------------
(* Properties *)

\* A completed export holds the store and the applications at one instant, whoever
\* cancels its barrier, begins another export or changes the event under it
\* (ridge/export_run.py: completion only under the token the export began with).
ExportIsOneInstant == \A e \in Exporter : output[e].complete => output[e].store = output[e].apps

\* A recovery set that verifies, and was taken of a paused store, is restored at
\* last if its files stay whole: every failed try can be made good by clearing the
\* destination (recovery.restore, "already-live destination refusal").
Restorable == Verified /\ set.mode = "paused" /\ dest # "restored"
RestoreConverges == Restorable ~> ~Restorable

=============================================================================
