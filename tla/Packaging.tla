------------------------------ MODULE Packaging ------------------------------
(***************************************************************************)
(* The preparation host: images are built under a receipt                  *)
(* (ridge/deploy/__main__.py), an offline store is assembled from them     *)
(* (scripts/assemble_offline_store.py), and a bundle and a distribution    *)
(* are packed (ridge/bundle.py, ridge/distribution.py), while somebody     *)
(* edits and commits the checkout all of them read.                        *)
(*                                                                         *)
(* The content of the sources is stood for by a number that grows with     *)
(* every edit (an edit that is taken back is a new content); an image, by  *)
(* the content it was built from.  Two contents may have the same layout:  *)
(* the files that the packer compares.                                     *)
(***************************************************************************)
EXTENDS Integers

CONSTANTS
  Component,  \* the images built here
  Work,       \* work directories, each with its receipts and its build.lock
  MaxTree,    \* bound on the edits: no edit of this content or a later one
  Edits,      \* the edits to choose from, each to a content of its own
  Layout,     \* of each content, the files under LAYOUTS: not the Dockerfiles
  MaxFaults   \* bound on kills, polluted bases and lost images together

VARIABLES
  tree, head,  \* the content of the working tree, and of the commit checked out
  base,        \* the base images' tags: "pulled" from a registry or "local"
  image,       \* what each component's tag names; 0: nothing
  receipt,     \* what each work directory's receipts say; Nothing
  builder,     \* the build that holds each directory's lock
  manifest,    \* the assembled manifest
  packer,      \* what bundle.pack is at
  bundle, distribution,
  touched,     \* history: what changed under a check already made ("checkout", "base")
  faults

vars == <<tree, head, base, image, receipt, builder, manifest, packer, bundle, distribution,
          touched, faults>>

\* An image made of the content t on a polluted base.
Foreign(t) == -t
Content(i) == IF i < 0 THEN -i ELSE i

Nothing == [image |-> 0, source |-> 0]
NoBuild == [at |-> "idle", component |-> CHOOSE c \in Component : TRUE, source |-> 0, image |-> 0]
NoBundle == [commit |-> 0, source |-> 0, images |-> [c \in Component |-> 0], fingerprint |-> 0,
             done |-> FALSE]
NoDistribution == [at |-> "idle", commit |-> 0, source |-> 0]

Init ==
  /\ tree = 1 /\ head = 1 /\ base = "pulled" /\ image = [c \in Component |-> 0]
  /\ receipt = [w \in Work |-> [c \in Component |-> Nothing]]
  /\ builder = [w \in Work |-> NoBuild]
  /\ manifest = [commit |-> 0, images |-> [c \in Component |-> 0]]
  /\ packer = [at |-> "idle", checked |-> {}] /\ bundle = NoBundle /\ distribution = NoDistribution
  /\ touched = {} /\ faults = 0

Fault == faults < MaxFaults /\ faults' = faults + 1

Packing == packer.at # "idle" \/ distribution.at = "archive"

-----------------------------------------------------------------------------
(* The checkout and the daemon *)

Edit ==
  /\ tree < MaxTree /\ \E n \in 1 .. Edits : tree' = tree + n
  /\ touched' = IF Packing THEN touched \cup {"checkout"} ELSE touched
  /\ UNCHANGED <<head, base, image, receipt, builder, manifest, packer, bundle, distribution, faults>>

Commit ==
  /\ head # tree /\ head' = tree
  /\ touched' = IF Packing THEN touched \cup {"checkout"} ELSE touched
  /\ UNCHANGED <<tree, base, image, receipt, builder, manifest, packer, bundle, distribution, faults>>

\* A finished image is saved over a base's tag (issue 184), or a tag is lost.
Disturb ==
  /\ Fault
  /\ \/ /\ base' = "local" /\ UNCHANGED image
        /\ touched' = IF \E w \in Work : builder[w].at = "docker" THEN touched \cup {"base"} ELSE touched
     \/ \E c \in Component : image' = [image EXCEPT ![c] = 0] /\ UNCHANGED <<base, touched>>
  /\ UNCHANGED <<tree, head, receipt, builder, manifest, packer, bundle, distribution>>

\* docker rmi, as the refusal says.
RemoveBase ==
  /\ base = "local" /\ base' = "pulled"
  /\ UNCHANGED <<tree, head, image, receipt, builder, manifest, packer, bundle, distribution,
                 touched, faults>>

-----------------------------------------------------------------------------
(* build *)

\* The sources as the working tree has them now.
Fingerprint == tree

\* A cached base carries a digest of its own repository.
RegistryPull == base = "pulled"

\* Nobody else builds into the directory; the receipt goes first, so that a failed
\* build leaves none, and the sources' fingerprint is taken.
BuildBegin(w, c) ==
  /\ builder[w].at = "idle"
  /\ receipt' = [receipt EXCEPT ![w][c] = Nothing]
  /\ builder' = [builder EXCEPT ![w] = [at |-> "base", component |-> c, source |-> Fingerprint, image |-> 0]]
  /\ UNCHANGED <<tree, head, base, image, manifest, packer, bundle, distribution, touched, faults>>

VerifyBase(w) ==
  /\ builder[w].at = "base"
  /\ LET b == builder[w] IN
     builder' = [builder EXCEPT ![w] = IF RegistryPull THEN [b EXCEPT !.at = "docker"] ELSE NoBuild]
  /\ UNCHANGED <<tree, head, base, image, receipt, manifest, packer, bundle, distribution, touched, faults>>

\* The daemon reads the working tree, and whatever the base's tag names by then.
DockerBuild(w) ==
  /\ builder[w].at = "docker"
  /\ image' = [image EXCEPT ![builder[w].component] = IF base = "pulled" THEN tree ELSE Foreign(tree)]
  /\ builder' = [builder EXCEPT ![w].at = "inspect"]
  /\ UNCHANGED <<tree, head, base, receipt, manifest, packer, bundle, distribution, touched, faults>>

\* The tag is asked for its image: another directory's build may have moved it.
InspectImage(w) ==
  /\ builder[w].at = "inspect"
  /\ LET b == builder[w]
         found == image[b.component] IN
     builder' = [builder EXCEPT ![w] =
       IF found = 0 THEN NoBuild ELSE [b EXCEPT !.at = "receipt", !.image = found]]
  /\ UNCHANGED <<tree, head, base, image, receipt, manifest, packer, bundle, distribution, touched, faults>>

\* Seeded fault (UpRunsOneSource): the inputs are not compared at the end.
UnchangedAssumed(w) == TRUE

Unchanged(w) == builder[w].source = Fingerprint

\* The receipt is written only if the inputs are what they were at the beginning.
WriteReceipt(w) ==
  /\ builder[w].at = "receipt"
  /\ LET b == builder[w] IN
     receipt' = IF Unchanged(w)
                  THEN [receipt EXCEPT ![w][b.component] = [image |-> b.image, source |-> b.source]]
                  ELSE receipt
  /\ builder' = [builder EXCEPT ![w] = NoBuild]
  /\ UNCHANGED <<tree, head, base, image, manifest, packer, bundle, distribution, touched, faults>>

BuildKilled(w) ==
  /\ builder[w].at # "idle" /\ Fault
  /\ builder' = [builder EXCEPT ![w] = NoBuild]
  /\ UNCHANGED <<tree, head, base, image, receipt, manifest, packer, bundle, distribution, touched>>

\* _release_fingerprint: the receipts name one source, which up hands to the journal.
Release(w) ==
  LET sources == {receipt[w][c].source : c \in Component}
  IN  IF 0 \notin sources /\ \A s, t \in sources : s = t THEN CHOOSE s \in sources : TRUE ELSE 0

\* _probe_artifacts, the first stage of up and a gate of start: every tag names the
\* image of its receipt.
ProbeArtifacts(w) ==
  \A c \in Component : receipt[w][c] # Nothing /\ image[c] = receipt[w][c].image

-----------------------------------------------------------------------------
(* The offline store, the bundle and the distribution *)

\* The images' identities are taken from the daemon, the commit from the checkout.
Assemble ==
  /\ packer.at = "idle" /\ \A c \in Component : image[c] # 0
  /\ manifest' = [commit |-> head, images |-> image]
  /\ UNCHANGED <<tree, head, base, image, receipt, builder, packer, bundle, distribution, touched, faults>>

Clean == tree = head

PackBegin ==
  /\ packer.at = "idle" /\ ~bundle.done
  /\ Clean /\ manifest.commit = head
  /\ packer' = [at |-> "images", checked |-> {}]
  /\ bundle' = [NoBundle EXCEPT !.commit = manifest.commit]
  /\ UNCHANGED <<tree, head, base, image, receipt, builder, manifest, distribution, touched, faults>>

\* Seeded fault (BundleIsOneSource): an image is taken for a build of the working tree.
SameLayoutAssumed(i) == TRUE

\* The files an image has where LAYOUTS points are those the working tree has there.
SameLayout(i) == Layout[Content(i)] = Layout[tree]

\* image_sources: the compared files of one component's image against the working tree's.
\* How the image was made is not looked at; a base may have brought files along there.
PackImageSources(c) ==
  /\ packer.at = "images" /\ c \notin packer.checked
  /\ LET i == manifest.images[c] IN
     \/ /\ SameLayout(i)
        /\ packer' = [at      |-> IF packer.checked \cup {c} = Component THEN "archive" ELSE "images",
                      checked |-> packer.checked \cup {c}]
     \/ /\ ~SameLayout(i) \/ i < 0
        /\ packer' = [at |-> "idle", checked |-> {}]
  /\ UNCHANGED <<tree, head, base, image, receipt, builder, manifest, bundle, distribution, touched, faults>>

\* git archive HEAD; a pointer of its large files is replaced by the bytes it names.
Archived == head

PackArchive ==
  /\ packer.at = "archive"
  /\ bundle' = [bundle EXCEPT !.source = Archived]
  /\ packer' = [packer EXCEPT !.at = "save"]
  /\ UNCHANGED <<tree, head, base, image, receipt, builder, manifest, distribution, touched, faults>>

\* The tags saved must still name the manifest's images.
SaveRefs == image = manifest.images

PackSave ==
  /\ packer.at = "save"
  /\ IF SaveRefs
       THEN bundle' = [bundle EXCEPT !.images = image] /\ packer' = [packer EXCEPT !.at = "fingerprint"]
       ELSE packer' = [at |-> "idle", checked |-> {}] /\ UNCHANGED bundle
  /\ UNCHANGED <<tree, head, base, image, receipt, builder, manifest, distribution, touched, faults>>

\* The fingerprint the installed receipts will carry is the working tree's; the sums
\* are written last.
PackFingerprint ==
  /\ packer.at = "fingerprint"
  /\ bundle' = [bundle EXCEPT !.fingerprint = Fingerprint, !.done = TRUE]
  /\ packer' = [at |-> "idle", checked |-> {}]
  /\ UNCHANGED <<tree, head, base, image, receipt, builder, manifest, distribution, touched, faults>>

DistributionBegin ==
  /\ distribution.at = "idle" /\ Clean
  /\ distribution' = [at |-> "archive", commit |-> head, source |-> 0]
  /\ UNCHANGED <<tree, head, base, image, receipt, builder, manifest, packer, bundle, touched, faults>>

\* The tracked files are read from the working tree; the stage is renamed when whole.
TrackedFiles == tree

DistributionArchive ==
  /\ distribution.at = "archive"
  /\ distribution' = [distribution EXCEPT !.at = "done", !.source = TrackedFiles]
  /\ UNCHANGED <<tree, head, base, image, receipt, builder, manifest, packer, bundle, touched, faults>>

Next ==
  \/ Edit \/ Commit \/ Disturb \/ RemoveBase
  \/ \E w \in Work :
       \/ \E c \in Component : BuildBegin(w, c)
       \/ VerifyBase(w) \/ DockerBuild(w) \/ InspectImage(w) \/ WriteReceipt(w) \/ BuildKilled(w)
  \/ Assemble \/ PackBegin \/ PackArchive \/ PackSave \/ PackFingerprint
  \/ \E c \in Component : PackImageSources(c)
  \/ DistributionBegin \/ DistributionArchive

Spec == Init /\ [][Next]_vars

-----------------------------------------------------------------------------
(* Properties *)

\* Whenever up would accept the receipts and the images of a directory, every image
\* was built from the one source the release is called by - whatever edits, kills,
\* other builds and lost tags came in between - but for a base tag taken over under a
\* running build, which is not looked for again.
UpRunsOneSource ==
  "base" \notin touched =>
    \A w \in Work : Release(w) # 0 /\ ProbeArtifacts(w) => \A c \in Component : image[c] = Release(w)

\* A bundle's source archive and the fingerprint of its receipts are one content, that of
\* its commit, and its images run that commit's files; a distribution's content is its
\* commit's - unless the checkout was changed while it was packed, which is not looked for
\* again.  An image may be of an older content with the same files, or of a polluted base.
BundleIsOneSource ==
  "checkout" \notin touched =>
    /\ bundle.done =>
         /\ bundle.source = bundle.commit /\ bundle.fingerprint = bundle.commit
         /\ \A c \in Component : Layout[Content(bundle.images[c])] = Layout[bundle.commit]
    /\ distribution.at = "done" => distribution.source = distribution.commit

=============================================================================
