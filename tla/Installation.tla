----------------------------- MODULE Installation -----------------------------
(***************************************************************************)
(* An offline bundle becomes a directory an event can be run from:         *)
(* ridge/distribution.py fetches the source distribution, and               *)
(* ridge/offline_install.py verifies a bundle against it, unpacks it into a *)
(* staging directory beside the destination, loads the images and renames. *)
(*                                                                         *)
(* Two people may install at once, each from a bundle of his own, into one *)
(* destination: its staging directory is named after the destination, so   *)
(* they share it.  A process may be killed at any step.                    *)
(***************************************************************************)
EXTENDS Integers, FiniteSets

CONSTANTS
  Installer,  \* each installs the bundle called by its own name
  MaxFaults   \* bound on kills and damaged bundles together

VARIABLES
  damaged,    \* bundles whose files no longer match SHA256SUMS.json
  expected,   \* the bundle whose commit the fetched distribution.json names; None
  staging,    \* which bundles' files each part of the staging directory holds; Absent
  dest,       \* the same for the destination; Absent
  tags,       \* the bundle whose images the daemon's tags name; None
  at,         \* what each installer does next
  overlapped, \* history: two installers have been past the first checks at once
  faults

vars == <<damaged, expected, staging, dest, tags, at, overlapped, faults>>

None == "none"
Part == {"source", "assets", "archive", "receipts", "receipt"}
Empty == [p \in Part |-> {}]
Absent == [p \in Part |-> {None}]

Init ==
  /\ damaged = {} /\ expected = None /\ staging = Absent /\ dest = Absent /\ tags = None
  /\ at = [i \in Installer |-> "idle"] /\ overlapped = FALSE /\ faults = 0

Fault == faults < MaxFaults /\ faults' = faults + 1

\* A part unpacked over what is there; makedirs brings a missing directory back.
Unpacked(p, i) ==
  LET there == IF staging = Absent THEN Empty ELSE staging
  IN  [there EXCEPT ![p] = @ \cup {i}]

-----------------------------------------------------------------------------
(* Before anything is written *)

Damage(i) ==
  /\ Fault /\ damaged' = damaged \cup {i}
  /\ UNCHANGED <<expected, staging, dest, tags, at, overlapped>>

\* distribution.fetch: into a scratch directory, verified there, and renamed.
Fetch(i) ==
  /\ expected = None /\ expected' = i
  /\ UNCHANGED <<damaged, staging, dest, tags, at, overlapped, faults>>

\* The bundle is hashed and its commit compared with the distribution's, if one is given.
VerifyBundle(i) ==
  /\ at[i] = "idle"
  /\ i \notin damaged /\ expected \in {None, i}
  /\ at' = [at EXCEPT ![i] = "exists"]
  /\ UNCHANGED <<damaged, expected, staging, dest, tags, overlapped, faults>>

\* Room on the disk, and a destination that does not exist.
CheckDestination(i) ==
  /\ at[i] = "exists"
  /\ at' = [at EXCEPT ![i] = IF dest = Absent THEN "clear" ELSE "idle"]
  /\ overlapped' = (overlapped \/ \E j \in Installer \ {i} : at[j] \notin {"idle", "exists", "done"})
  /\ UNCHANGED <<damaged, expected, staging, dest, tags, faults>>

-----------------------------------------------------------------------------
(* The staging directory *)

\* Seeded fault (InstallIsWhole): what a killed installer left is unpacked over.
ClearStagingKept(i) ==
  /\ at[i] = "clear"
  /\ staging' = IF staging = Absent THEN Empty ELSE staging
  /\ at' = [at EXCEPT ![i] = "source"]
  /\ UNCHANGED <<damaged, expected, dest, tags, overlapped, faults>>

ClearStaging(i) ==
  /\ at[i] = "clear"
  /\ staging' = Absent
  /\ at' = [at EXCEPT ![i] = "make"]
  /\ UNCHANGED <<damaged, expected, dest, tags, overlapped, faults>>

\* mkdir refuses a directory another installer has made meanwhile.
MakeStaging(i) ==
  /\ at[i] = "make"
  /\ staging' = IF staging = Absent THEN Empty ELSE staging
  /\ at' = [at EXCEPT ![i] = IF staging = Absent THEN "source" ELSE "idle"]
  /\ UNCHANGED <<damaged, expected, dest, tags, overlapped, faults>>

ExtractSource(i) ==
  /\ at[i] = "source"
  /\ staging' = Unpacked("source", i) /\ at' = [at EXCEPT ![i] = "assets"]
  /\ UNCHANGED <<damaged, expected, dest, tags, overlapped, faults>>

MaterializeAssets(i) ==
  /\ at[i] = "assets"
  /\ staging' = Unpacked("assets", i) /\ at' = [at EXCEPT ![i] = "archive"]
  /\ UNCHANGED <<damaged, expected, dest, tags, overlapped, faults>>

\* Any failure but a kill removes the staging directory, whosever it is.
Abandon(i) == staging' = Absent /\ at' = [at EXCEPT ![i] = "idle"]

\* The parts of the image archive, in order, into one file, truncated first.
AssembleArchive(i) ==
  /\ at[i] = "archive"
  /\ IF staging = Absent THEN Abandon(i)
     ELSE staging' = [staging EXCEPT !["archive"] = {i}] /\ at' = [at EXCEPT ![i] = "load"]
  /\ UNCHANGED <<damaged, expected, dest, tags, overlapped, faults>>

\* docker load of the file as it is now.
LoadImages(i) ==
  /\ at[i] = "load"
  /\ IF staging["archive"] \in {{j} : j \in Installer}
       THEN /\ tags' = CHOOSE j \in Installer : staging["archive"] = {j}
            /\ at' = [at EXCEPT ![i] = "tags"] /\ UNCHANGED staging
       ELSE Abandon(i) /\ UNCHANGED tags
  /\ UNCHANGED <<damaged, expected, dest, overlapped, faults>>

\* The receipts a build on this host would have left.
WriteBuildReceipts(i) ==
  staging' = Unpacked("receipts", i) /\ at' = [at EXCEPT ![i] = "receipt"]

\* Every tag must name the image of the manifest.
VerifyTags(i) ==
  /\ at[i] = "tags"
  /\ IF tags = i THEN WriteBuildReceipts(i) ELSE Abandon(i)
  /\ UNCHANGED <<damaged, expected, dest, tags, overlapped, faults>>

WriteReceipt(i) ==
  /\ at[i] = "receipt"
  /\ IF staging = Absent THEN Abandon(i)
     ELSE staging' = [staging EXCEPT !["receipt"] = {i}] /\ at' = [at EXCEPT ![i] = "replace"]
  /\ UNCHANGED <<damaged, expected, dest, tags, overlapped, faults>>

\* os.replace refuses a destination that is there by now.
Replace(i) ==
  /\ at[i] = "replace"
  /\ IF staging = Absent \/ dest # Absent THEN Abandon(i) /\ UNCHANGED dest
     ELSE dest' = staging /\ staging' = Absent /\ at' = [at EXCEPT ![i] = "done"]
  /\ UNCHANGED <<damaged, expected, tags, overlapped, faults>>

Kill(i) ==
  /\ at[i] \notin {"idle", "done"} /\ Fault
  /\ at' = [at EXCEPT ![i] = "idle"]
  /\ UNCHANGED <<damaged, expected, staging, dest, tags, overlapped>>

Next ==
  \E i \in Installer :
    \/ Damage(i) \/ Fetch(i) \/ VerifyBundle(i) \/ CheckDestination(i)
    \/ ClearStaging(i) \/ MakeStaging(i) \/ ExtractSource(i) \/ MaterializeAssets(i)
    \/ AssembleArchive(i) \/ LoadImages(i) \/ VerifyTags(i) \/ WriteReceipt(i) \/ Replace(i)
    \/ Kill(i)

Spec == Init /\ [][Next]_vars

-----------------------------------------------------------------------------
(* Properties *)

\* What the destination holds is whole and of one bundle, however many attempts were
\* killed before ("atomically install") - unless two installers were at it at once:
\* their one staging directory has no lock.
InstallIsWhole ==
  dest # Absent /\ ~overlapped => \E i \in Installer : dest = [p \in Part |-> {i}]

=============================================================================
