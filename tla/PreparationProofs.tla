-------------------------- MODULE PreparationProofs --------------------------
(***************************************************************************)
(* Proofs about what is made before the participants come: the packages    *)
(* and the destinations they are installed to, the files and accounts of   *)
(* up, the participant edge, the rehearsal board, and the profile all of   *)
(* it follows.  Each section is about one module, which it instantiates;   *)
(* the modules share no variable, and where two use one name it is told    *)
(* apart here.                                                             *)
(*                                                                         *)
(* Every section has the same shape: the invariant and what its parts are  *)
(* for, its base case, one lemma for a group of actions that disturb the   *)
(* same parts, and the theorem.                                            *)
(***************************************************************************)
EXTENDS Integers, Sequences, WellFoundedInduction, FiniteSetTheorems, TLAPS

CONSTANTS
  Component, Work, MaxTree, Edits, Layout,  \* Packaging
  Installer,                 \* Installation
  MaxKey,                    \* Provisioning
  Port, Target, MaxChanges,  \* Edge
  Controller, Request, MaxHandlers, MaxTime, MaxEvents,  \* Rehearsal
  Name, Service, Slot, Synthesized, TeamName, MaxServices, Written, RelayPort,  \* Profile
  MaxFaults,                 \* bound on the faults of Packaging, of Edge and of Rehearsal
  MaxLosses                  \* bound on the faults of Installation and of Provisioning

VARIABLES
  tree, head, base, image, receipt, builder, manifest, packer, bundle, distribution, touched,
  packFaults,
  damaged, expected, staging, dest, tags, installing, overlapped, installFaults,
  file, volume, verified, running, at, done, key, hurt, setupFaults,
  local, source, internal, pair, conf, served, rule, proxy, proc, changes, edgeFaults,
  now, ledger, log, public, boardStaging, lock, database, comments, command, request, cut, late,
  boardFaults,
  profile, relay, override, journal, settled, started, profileLate

Pack == INSTANCE Packaging WITH faults <- packFaults
Inst == INSTANCE Installation WITH MaxFaults <- MaxLosses, at <- installing,
  faults <- installFaults
Prov == INSTANCE Provisioning WITH MaxFaults <- MaxLosses, faults <- setupFaults
Edge == INSTANCE Edge WITH faults <- edgeFaults
Board == INSTANCE Rehearsal WITH staging <- boardStaging, faults <- boardFaults
Profile == INSTANCE Profile WITH late <- profileLate

-----------------------------------------------------------------------------
(***************************************************************************)
(* Packaging.  A build reads the tree before it builds and again after; an *)
(* image that is there was made in between, so that a receipt written over *)
(* an unchanged tree names the source its image is of (BuildInv).  A       *)
(* packer, and a distribution, are of the commit as long as nothing        *)
(* disturbs the checkout under them (PackInv).                             *)
(***************************************************************************)

\* A build that has not begun has no component; it is typed by one all the same.
AnyComponent == Component \cup {CHOOSE c \in Component : TRUE}

Build == [at : {"idle", "base", "docker", "inspect", "receipt"}, component : AnyComponent,
          source : Int, image : Int]

BuildTyped ==
  /\ tree \in Int /\ image \in [Component -> Int]
  /\ receipt \in [Work -> [Component -> [image : Int, source : Int]]]
  /\ builder \in [Work -> Build]
  /\ \A w \in Work : builder[w].at # "idle" => builder[w].component \in Component

\* An image that is there was made of sources no older than the build's, and of none newer
\* than the tree: it is the tree's if the tree has not moved.
Between(b, made) == b.source <= made /\ made <= tree

\* What a build has established at each of its steps.
BuildOf(w) ==
  LET b == builder[w] IN
  /\ b.at # "idle" => b.source <= tree
  /\ b.at = "docker" => base = "pulled"
  /\ b.at = "inspect" => image[b.component] = 0 \/ Between(b, image[b.component])
  /\ b.at = "receipt" => Between(b, b.image)

ReceiptTrue(w, c) == receipt[w][c] # Pack!Nothing => receipt[w][c].image = receipt[w][c].source

BuildInv ==
  /\ BuildTyped
  /\ "base" \notin touched =>
       \A w \in Work : BuildOf(w) /\ \A c \in Component : ReceiptTrue(w, c)

LEMMA NoBuildTyped == Pack!NoBuild \in Build
BY DEF Pack!NoBuild, Build, AnyComponent

LEMMA BuildInit == Pack!Init => BuildInv
<1> SUFFICES ASSUME Pack!Init PROVE BuildInv
  OBVIOUS
<1>1. Pack!NoBuild.at = "idle"
  BY DEF Pack!NoBuild
<1>2. \A w \in Work : builder[w].at = "idle" /\ \A c \in Component : receipt[w][c] = Pack!Nothing
  BY <1>1 DEF Pack!Init
<1>3. BuildTyped
  BY <1>2, NoBuildTyped DEF Pack!Init, BuildTyped, Pack!Nothing
<1> QED BY <1>2, <1>3 DEF BuildInv, BuildOf, ReceiptTrue

\* The tree only moves on, images are built from it or lost.
LEMMA CheckoutKeeps ==
  ASSUME BuildInv, Pack!Edit \/ Pack!Commit \/ Pack!Disturb \/ Pack!RemoveBase
  PROVE  BuildInv'
<1>1. BuildTyped' /\ tree <= tree' /\ UNCHANGED <<receipt, builder>>
  BY DEF Pack!Edit, Pack!Commit, Pack!Disturb, Pack!RemoveBase, BuildInv, BuildTyped
<1>2. \A c \in Component : image'[c] \in {0, image[c]}
  BY DEF Pack!Edit, Pack!Commit, Pack!Disturb, Pack!RemoveBase, BuildInv, BuildTyped
<1>3. ASSUME "base" \notin touched', NEW w \in Work
      PROVE  BuildOf(w)' /\ \A c \in Component : ReceiptTrue(w, c)'
  <2>1. "base" \notin touched /\ (builder[w].at = "docker" => base' = "pulled" \/ base' = base)
    BY <1>3 DEF Pack!Edit, Pack!Commit, Pack!Disturb, Pack!RemoveBase
  <2>2. BuildOf(w) /\ \A c \in Component : ReceiptTrue(w, c)
    BY <2>1 DEF BuildInv
  <2>3. builder[w].source \in Int /\ builder[w].image \in Int /\ tree \in Int /\ tree' \in Int
    BY <1>1 DEF BuildInv, BuildTyped, Build
  <2>4. \A c \in Component : image[c] \in Int
    BY DEF BuildInv, BuildTyped
  <2>5. builder[w].at # "idle" => builder[w].component \in Component
    BY DEF BuildInv, BuildTyped
  <2>6. builder[w].at = "inspect" =>
          image'[builder[w].component] = 0 \/ Between(builder[w], image[builder[w].component])
    BY <1>2, <2>2, <2>5 DEF BuildOf
  <2>7. BuildOf(w)'
    BY <1>1, <1>2, <2>1, <2>2, <2>3, <2>4, <2>5, <2>6 DEF BuildOf, Between
  <2> QED BY <1>1, <2>2, <2>7 DEF ReceiptTrue
<1> QED BY <1>1, <1>3 DEF BuildInv

\* Steps that leave the builds alone.
LEMMA PackingKeepsBuilds ==
  ASSUME BuildInv, UNCHANGED <<tree, base, image, receipt, builder, touched>>
  PROVE  BuildInv'
BY DEF BuildInv, BuildTyped, BuildOf, Between, ReceiptTrue

\* A step of one build: b becomes n, its receipts stay or one is written.
LEMMA BuildStep ==
  ASSUME BuildInv, NEW w \in Work, NEW n \in Build, n.at # "idle" => n.component \in Component,
         builder' = [builder EXCEPT ![w] = n],
         UNCHANGED <<tree, base, touched>>,
         image' \in [Component -> Int],
         receipt' \in [Work -> [Component -> [image : Int, source : Int]]],
         "base" \notin touched =>
           /\ \A c \in Component : image'[c] \in {0, image[c], tree}
           /\ BuildOf(w)'
           /\ \A v \in Work, c \in Component : ReceiptTrue(v, c)'
  PROVE  BuildInv'
<1>1. BuildTyped'
  BY DEF BuildInv, BuildTyped
<1>2. ASSUME "base" \notin touched', NEW v \in Work, v # w
      PROVE  BuildOf(v)'
  <2>1. BuildOf(v) /\ builder'[v] = builder[v]
    BY <1>2 DEF BuildInv, BuildTyped
  <2>2. builder[v].source \in Int /\ tree \in Int /\ \A c \in Component : image[c] \in Int
    BY DEF BuildInv, BuildTyped, Build
  <2>3. builder[v].at # "idle" => builder[v].component \in Component
    BY DEF BuildInv, BuildTyped
  <2>4. \A c \in Component : image'[c] \in {0, image[c], tree}
    BY <1>2
  <2>5. builder[v].at = "inspect" =>
          image'[builder[v].component] = 0 \/ Between(builder[v], image'[builder[v].component])
    <3> SUFFICES ASSUME builder[v].at = "inspect", NEW c, c = builder[v].component, image'[c] # 0
                 PROVE  Between(builder[v], image'[c])
      OBVIOUS
    <3>1. c \in Component /\ image'[c] \in {image[c], tree}
      BY <2>3, <2>4
    <3>2. builder[v].source <= tree /\ (image[c] = 0 \/ Between(builder[v], image[c]))
      BY <2>1 DEF BuildOf
    <3> QED BY <2>2, <3>1, <3>2 DEF Between
  <2> QED BY <2>1, <2>5 DEF BuildOf, Between
<1> QED BY <1>1, <1>2 DEF BuildInv

LEMMA BuildKeeps ==
  ASSUME BuildInv, NEW w \in Work,
         (\E c \in Component : Pack!BuildBegin(w, c)) \/ Pack!VerifyBase(w) \/ Pack!DockerBuild(w)
         \/ Pack!InspectImage(w) \/ Pack!WriteReceipt(w) \/ Pack!BuildKilled(w)
  PROVE  BuildInv'
<1> DEFINE b == builder[w]
<1>1. b \in Build /\ tree \in Int /\ \A c \in Component : image[c] \in Int
  BY DEF BuildInv, BuildTyped
<1>2. "base" \notin touched => BuildOf(w) /\ \A v \in Work, c \in Component : ReceiptTrue(v, c)
  BY DEF BuildInv
<1>3. CASE \E c \in Component : Pack!BuildBegin(w, c)
  <2>1. PICK c \in Component : Pack!BuildBegin(w, c)
    BY <1>3
  <2> DEFINE n == [at |-> "base", component |-> c, source |-> tree, image |-> 0]
  <2>2. n \in Build /\ n.component \in Component /\ Pack!Nothing \in [image : Int, source : Int]
    BY <1>1 DEF Build, AnyComponent, Pack!Nothing
  <2>3. builder' = [builder EXCEPT ![w] = n] /\ receipt' = [receipt EXCEPT ![w][c] = Pack!Nothing]
        /\ UNCHANGED <<tree, base, touched, image>>
    BY <2>1 DEF Pack!BuildBegin, Pack!Fingerprint
  <2>4. builder'[w] = n
    BY <2>3 DEF BuildInv, BuildTyped
  <2>5. BuildOf(w)'
    BY <1>1, <2>3, <2>4 DEF BuildOf
  <2>6. receipt' \in [Work -> [Component -> [image : Int, source : Int]]]
    BY <2>2, <2>3 DEF BuildInv, BuildTyped
  <2>7. \A v \in Work, d \in Component : receipt'[v][d] \in {Pack!Nothing, receipt[v][d]}
    BY <2>3 DEF BuildInv, BuildTyped
  <2>8. "base" \notin touched => \A v \in Work, d \in Component : ReceiptTrue(v, d)'
    BY <1>2, <2>7 DEF ReceiptTrue
  <2>9. image' \in [Component -> Int]
    BY <2>3 DEF BuildInv, BuildTyped
  <2> HIDE DEF n
  <2> QED BY <2>2, <2>3, <2>5, <2>6, <2>8, <2>9, BuildStep
<1>4. CASE Pack!VerifyBase(w)
  <2> DEFINE n == IF Pack!RegistryPull THEN [b EXCEPT !.at = "docker"] ELSE Pack!NoBuild
  <2>0. b.at = "base" /\ b.component \in Component
    BY <1>4 DEF Pack!VerifyBase, BuildInv, BuildTyped
  <2>1. n \in Build /\ (n.at # "idle" => n.component \in Component)
    BY <1>1, <2>0, NoBuildTyped DEF Build, Pack!NoBuild
  <2>2. builder' = [builder EXCEPT ![w] = n]
        /\ UNCHANGED <<tree, base, touched, image, receipt>> /\ b.at = "base"
    BY <1>4 DEF Pack!VerifyBase
  <2>3. builder'[w] = n
    BY <2>2 DEF BuildInv, BuildTyped
  <2>4. "base" \notin touched => BuildOf(w)'
    BY <1>1, <1>2, <2>2, <2>3 DEF BuildOf, Build, Pack!RegistryPull, Pack!NoBuild
  <2>5. "base" \notin touched => \A v \in Work, d \in Component : ReceiptTrue(v, d)'
    BY <1>2, <2>2 DEF ReceiptTrue
  <2>6. image' \in [Component -> Int] /\ receipt' \in [Work -> [Component -> [image : Int, source : Int]]]
    BY <2>2 DEF BuildInv, BuildTyped
  <2> HIDE DEF n
  <2> QED BY <2>1, <2>2, <2>4, <2>5, <2>6, BuildStep
<1>5. CASE Pack!DockerBuild(w)
  <2> DEFINE n == [b EXCEPT !.at = "inspect"]
  <2>0. b.at = "docker" /\ b.component \in Component
    BY <1>5 DEF Pack!DockerBuild, BuildInv, BuildTyped
  <2>1. n \in Build /\ n.component \in Component
    BY <1>1, <2>0 DEF Build
  <2>2. /\ builder' = [builder EXCEPT ![w] = n] /\ UNCHANGED <<tree, base, touched, receipt>>
        /\ b.at = "docker"
        /\ image' = [image EXCEPT ![b.component] = IF base = "pulled" THEN tree ELSE Pack!Foreign(tree)]
    BY <1>5 DEF Pack!DockerBuild
  <2>3. builder'[w] = n /\ n.component = b.component /\ n.source = b.source /\ n.at = "inspect"
    BY <1>1, <2>2 DEF BuildInv, BuildTyped, Build
  <2>4. image' \in [Component -> Int]
    BY <1>1, <2>2 DEF BuildInv, BuildTyped, Pack!Foreign
  <2>5. ASSUME "base" \notin touched
        PROVE  BuildOf(w)' /\ \A c \in Component : image'[c] \in {image[c], tree}
    <3>1. base = "pulled" /\ b.component \in Component /\ b.source <= tree
      BY <1>2, <2>0, <2>2, <2>5 DEF BuildOf
    <3>2. image' = [image EXCEPT ![b.component] = tree]
      BY <2>2, <3>1
    <3>3. image'[b.component] = tree /\ \A c \in Component : image'[c] \in {image[c], tree}
      BY <3>1, <3>2 DEF BuildInv, BuildTyped
    <3> QED BY <1>1, <2>2, <2>3, <3>1, <3>3 DEF BuildOf, Between
  <2>6. "base" \notin touched => \A v \in Work, d \in Component : ReceiptTrue(v, d)'
    BY <1>2, <2>2 DEF ReceiptTrue
  <2>7. receipt' \in [Work -> [Component -> [image : Int, source : Int]]]
    BY <2>2 DEF BuildInv, BuildTyped
  <2> HIDE DEF n
  <2> QED BY <2>1, <2>2, <2>4, <2>5, <2>6, <2>7, BuildStep
<1>6. CASE Pack!InspectImage(w)
  <2> DEFINE found == image[b.component]
             n == IF found = 0 THEN Pack!NoBuild ELSE [b EXCEPT !.at = "receipt", !.image = found]
  <2>1. builder' = [builder EXCEPT ![w] = n]
        /\ UNCHANGED <<tree, base, touched, image, receipt>> /\ b.at = "inspect"
    BY <1>6 DEF Pack!InspectImage
  <2>2. b.component \in Component /\ found \in Int
    BY <2>1 DEF BuildInv, BuildTyped
  <2>3. n \in Build /\ (n.at # "idle" => n.component \in Component)
    BY <1>1, <2>2, NoBuildTyped DEF Build, Pack!NoBuild
  <2>4. builder'[w] = n
    BY <2>1 DEF BuildInv, BuildTyped
  <2>5. "base" \notin touched => BuildOf(w)'
    BY <1>1, <1>2, <2>1, <2>2, <2>4 DEF BuildOf, Between, Build, Pack!NoBuild
  <2>6. "base" \notin touched => \A v \in Work, d \in Component : ReceiptTrue(v, d)'
    BY <1>2, <2>1 DEF ReceiptTrue
  <2>7. image' \in [Component -> Int] /\ receipt' \in [Work -> [Component -> [image : Int, source : Int]]]
    BY <2>1 DEF BuildInv, BuildTyped
  <2> HIDE DEF n
  <2> QED BY <2>1, <2>3, <2>5, <2>6, <2>7, BuildStep
<1>7. CASE Pack!WriteReceipt(w) \/ Pack!BuildKilled(w)
  <2>1. builder' = [builder EXCEPT ![w] = Pack!NoBuild] /\ UNCHANGED <<tree, base, touched, image>>
    BY <1>7 DEF Pack!WriteReceipt, Pack!BuildKilled
  <2>2. Pack!NoBuild.at = "idle" /\ builder'[w].at = "idle" /\ image' \in [Component -> Int]
    BY <2>1 DEF BuildInv, BuildTyped, Pack!NoBuild
  <2>3. CASE receipt' = receipt
    BY <1>2, <2>1, <2>2, <2>3, NoBuildTyped, BuildStep DEF BuildInv, BuildTyped, ReceiptTrue,
       BuildOf
  <2>4. CASE receipt' # receipt
    <3> DEFINE r == [image |-> b.image, source |-> b.source]
    <3>1. b.at = "receipt" /\ b.source = tree /\ receipt' = [receipt EXCEPT ![w][b.component] = r]
      BY <1>7, <2>4 DEF Pack!WriteReceipt, Pack!BuildKilled, Pack!Unchanged, Pack!Fingerprint
    <3>2. r \in [image : Int, source : Int]
      BY <1>1 DEF Build
    <3>3. receipt' \in [Work -> [Component -> [image : Int, source : Int]]]
      BY <3>1, <3>2 DEF BuildInv, BuildTyped
    <3>4. \A v \in Work, c \in Component : receipt'[v][c] \in {r, receipt[v][c]}
      BY <3>1 DEF BuildInv, BuildTyped
    <3>5. "base" \notin touched => b.image = b.source
      BY <1>1, <1>2, <3>1 DEF BuildOf, Between, Build
    <3>6. "base" \notin touched => \A v \in Work, c \in Component : ReceiptTrue(v, c)'
      BY <1>2, <3>4, <3>5 DEF ReceiptTrue
    <3> QED BY <2>1, <2>2, <3>3, <3>6, NoBuildTyped, BuildStep DEF BuildOf
  <2> QED BY <2>3, <2>4
<1> QED BY <1>3, <1>4, <1>5, <1>6, <1>7

LEMMA BuildNext == BuildInv /\ [Pack!Next]_Pack!vars => BuildInv'
<1> SUFFICES ASSUME BuildInv, [Pack!Next]_Pack!vars PROVE BuildInv'
  OBVIOUS
<1>1. CASE \/ Pack!Assemble \/ Pack!PackBegin \/ Pack!PackArchive \/ Pack!PackSave \/ Pack!PackFingerprint
           \/ (\E c \in Component : Pack!PackImageSources(c))
           \/ Pack!DistributionBegin \/ Pack!DistributionArchive
           \/ UNCHANGED Pack!vars
  <2>1. UNCHANGED <<tree, base, image, receipt, builder, touched>>
    BY <1>1 DEF Pack!Assemble, Pack!PackBegin, Pack!PackArchive, Pack!PackSave,
       Pack!PackFingerprint, Pack!PackImageSources,
       Pack!DistributionBegin, Pack!DistributionArchive, Pack!vars
  <2> QED BY <2>1, PackingKeepsBuilds
<1> QED BY <1>1, CheckoutKeeps, BuildKeeps DEF Pack!Next

\* What the receipts vouch for, up accepts as one release.
LEMMA ReleaseIsOneSource == BuildInv => Pack!UpRunsOneSource
<1> SUFFICES ASSUME BuildInv, "base" \notin touched, NEW w \in Work, Pack!Release(w) # 0,
                    Pack!ProbeArtifacts(w),
                    NEW c \in Component
             PROVE  image[c] = Pack!Release(w)
  BY DEF Pack!UpRunsOneSource
<1> DEFINE sources == {receipt[w][d].source : d \in Component}
<1>1. \A s, t \in sources : s = t
  BY DEF Pack!Release
<1>2. Pack!Release(w) = CHOOSE s \in sources : TRUE
  BY DEF Pack!Release
<1>3. receipt[w][c].source \in sources
  OBVIOUS
<1>4. Pack!Release(w) \in sources
  BY <1>2, <1>3
<1>5. receipt[w][c].source = Pack!Release(w)
  BY <1>1, <1>3, <1>4
<1> QED BY <1>5 DEF BuildInv, ReceiptTrue, Pack!ProbeArtifacts

-----------------------------------------------------------------------------
\* An image has the compared files of a content.
SameFiles(i, t) == Layout[Pack!Content(i)] = Layout[t]

\* While a packer is at work on an untouched checkout, it is the commit's.
PackInv ==
  /\ packer \in [at : {"idle", "images", "archive", "save", "fingerprint"}, checked : SUBSET Component]
  /\ distribution \in [at : {"idle", "archive", "done"}, commit : Int, source : Int]
  /\ bundle \in [commit : Int, source : Int, images : [Component -> Int], fingerprint : Int,
                done : BOOLEAN]
  /\ tree \in Int /\ head \in Int /\ image \in [Component -> Int]
  /\ manifest \in [commit : Int, images : [Component -> Int]]
  /\ "checkout" \notin touched =>
       /\ packer.at # "idle" => /\ tree = head /\ bundle.commit = head
                                /\ \A c \in packer.checked : SameFiles(manifest.images[c], head)
       /\ packer.at \in {"archive", "save"} => packer.checked = Component
       /\ packer.at \in {"save", "fingerprint"} => bundle.source = bundle.commit
       /\ packer.at = "fingerprint" => \A c \in Component : SameFiles(bundle.images[c], bundle.commit)
       /\ distribution.at = "archive" => tree = head /\ distribution.commit = head
  /\ Pack!BundleIsOneSource

LEMMA PackInit == Pack!Init => PackInv
BY DEF Pack!Init, PackInv, Pack!NoBundle, Pack!NoDistribution, Pack!BundleIsOneSource, SameFiles

\* The checkout and the builds; nothing of what is packed.
LEMMA BuildsKeepPacking ==
  ASSUME PackInv, BuildInv,
         \/ Pack!Edit \/ Pack!Commit \/ Pack!Disturb \/ Pack!RemoveBase
         \/ \E w \in Work : \/ \E c \in Component : Pack!BuildBegin(w, c)
                            \/ Pack!VerifyBase(w) \/ Pack!DockerBuild(w) \/ Pack!InspectImage(w)
                            \/ Pack!WriteReceipt(w)
                            \/ Pack!BuildKilled(w)
  PROVE  PackInv'
<1>1. UNCHANGED <<manifest, packer, bundle, distribution>>
  BY DEF Pack!Edit, Pack!Commit, Pack!Disturb, Pack!RemoveBase, Pack!BuildBegin, Pack!VerifyBase,
     Pack!DockerBuild, Pack!InspectImage, Pack!WriteReceipt,
     Pack!BuildKilled
<1>2. touched \subseteq touched'
  BY DEF Pack!Edit, Pack!Commit, Pack!Disturb, Pack!RemoveBase, Pack!BuildBegin, Pack!VerifyBase,
     Pack!DockerBuild, Pack!InspectImage, Pack!WriteReceipt,
     Pack!BuildKilled
<1>3. UNCHANGED <<tree, head>> \/ ~Pack!Packing \/ "checkout" \in touched'
  <2>1. CASE Pack!Edit \/ Pack!Commit
    BY <2>1 DEF Pack!Edit, Pack!Commit
  <2>2. CASE ~(Pack!Edit \/ Pack!Commit)
    BY <2>2 DEF Pack!Disturb, Pack!RemoveBase, Pack!BuildBegin, Pack!VerifyBase, Pack!DockerBuild,
       Pack!InspectImage, Pack!WriteReceipt,
       Pack!BuildKilled
  <2> QED BY <2>1, <2>2
<1>4. tree' \in Int /\ head' \in Int
  <2>1. CASE Pack!Edit \/ Pack!Commit
    BY <2>1 DEF PackInv, Pack!Edit, Pack!Commit
  <2>2. CASE ~(Pack!Edit \/ Pack!Commit)
    <3>1. UNCHANGED <<tree, head>>
      BY <2>2 DEF Pack!Disturb, Pack!RemoveBase, Pack!BuildBegin, Pack!VerifyBase,
         Pack!DockerBuild, Pack!InspectImage, Pack!WriteReceipt,
         Pack!BuildKilled
    <3> QED BY <3>1 DEF PackInv
  <2> QED BY <2>1, <2>2
<1>5. image' \in [Component -> Int]
  BY BuildNext DEF Pack!Next, BuildInv, BuildTyped
<1> QED BY <1>1, <1>2, <1>3, <1>4, <1>5 DEF PackInv, Pack!Packing, Pack!BundleIsOneSource,
   SameFiles

LEMMA PackerKeeps ==
  ASSUME PackInv,
         \/ Pack!Assemble \/ Pack!PackBegin \/ Pack!PackArchive \/ Pack!PackSave \/ Pack!PackFingerprint
                  \/ \E c \in Component : Pack!PackImageSources(c)
  PROVE  PackInv'
<1>1. UNCHANGED <<tree, head, image, distribution, touched>>
  BY DEF Pack!Assemble, Pack!PackBegin, Pack!PackArchive, Pack!PackSave, Pack!PackFingerprint,
     Pack!PackImageSources
<1>2. CASE Pack!Assemble
  BY <1>1, <1>2 DEF Pack!Assemble, PackInv, Pack!BundleIsOneSource, SameFiles
<1>3. CASE Pack!PackBegin
  <2>1. /\ packer' = [at |-> "images", checked |-> {}] /\ manifest' = manifest /\ tree = head
        /\ bundle' = [Pack!NoBundle EXCEPT !.commit = manifest.commit] /\ manifest.commit = head
    BY <1>3 DEF Pack!PackBegin, Pack!Clean
  <2>2. Pack!NoBundle \in [commit : Int, source : Int, images : [Component -> Int], fingerprint : Int,
                      done : BOOLEAN]
        /\ ~Pack!NoBundle.done
    BY DEF Pack!NoBundle
  <2>3. /\ bundle' \in [commit : Int, source : Int, images : [Component -> Int], fingerprint : Int,
                        done : BOOLEAN]
        /\ ~bundle'.done /\ bundle'.commit = head
    BY <2>1, <2>2 DEF PackInv
  <2> QED BY <1>1, <2>1, <2>3 DEF PackInv, Pack!BundleIsOneSource, SameFiles
<1>4. CASE \E c \in Component : Pack!PackImageSources(c)
  BY <1>1, <1>4 DEF Pack!PackImageSources, PackInv, Pack!BundleIsOneSource, Pack!SameLayout,
     SameFiles
<1>5. CASE Pack!PackArchive
  BY <1>1, <1>5 DEF Pack!PackArchive, PackInv, Pack!BundleIsOneSource, Pack!Archived,
     SameFiles
<1>6. CASE Pack!PackSave
  BY <1>1, <1>6 DEF Pack!PackSave, PackInv, Pack!BundleIsOneSource, Pack!SaveRefs,
     SameFiles
<1>7. CASE Pack!PackFingerprint
  BY <1>1, <1>7 DEF Pack!PackFingerprint, PackInv, Pack!BundleIsOneSource, Pack!Fingerprint,
     SameFiles
<1> QED BY <1>2, <1>3, <1>4, <1>5, <1>6, <1>7

LEMMA DistributionKeeps ==
  ASSUME PackInv, Pack!DistributionBegin \/ Pack!DistributionArchive
  PROVE  PackInv'
<1>1. UNCHANGED <<tree, head, image, manifest, packer, bundle, touched>>
  BY DEF Pack!DistributionBegin, Pack!DistributionArchive
<1>2. CASE Pack!DistributionBegin
  BY <1>1, <1>2 DEF Pack!DistributionBegin, PackInv, Pack!BundleIsOneSource, Pack!Clean,
     SameFiles
<1>3. CASE Pack!DistributionArchive
  BY <1>1, <1>3 DEF Pack!DistributionArchive, PackInv, Pack!BundleIsOneSource, Pack!TrackedFiles,
     SameFiles
<1> QED BY <1>2, <1>3

PackagingInv == BuildInv /\ PackInv

LEMMA PackagingNext == PackagingInv /\ [Pack!Next]_Pack!vars => PackagingInv'
<1> SUFFICES ASSUME BuildInv, PackInv, [Pack!Next]_Pack!vars PROVE BuildInv' /\ PackInv'
  BY DEF PackagingInv
<1>1. CASE UNCHANGED Pack!vars
  BY <1>1, BuildNext DEF Pack!vars, PackInv, Pack!BundleIsOneSource, SameFiles
<1> QED BY <1>1, BuildNext, BuildsKeepPacking, PackerKeeps, DistributionKeeps DEF Pack!Next

\* What up accepts was all built from one source; a bundle's archive, fingerprint and the
\* compared files of its images are those of its commit, and so is a distribution, for any
\* contents that have the same files - unless the checkout or the base images changed under
\* a check already made (build, bundle.pack, distribution.pack).
THEOREM PackagesAreOneSource == Pack!Spec => [](Pack!UpRunsOneSource /\ Pack!BundleIsOneSource)
<1>1. Pack!Init => PackagingInv
  BY BuildInit, PackInit DEF PackagingInv
<1>2. PackagingInv => Pack!UpRunsOneSource /\ Pack!BundleIsOneSource
  BY ReleaseIsOneSource DEF PackagingInv, PackInv
<1> QED BY <1>1, <1>2, PackagingNext, PTL DEF Pack!Spec

-----------------------------------------------------------------------------
(***************************************************************************)
(* Installation.  While installers do not overlap, the staging directory   *)
(* is that of the one at work: it holds exactly the parts this one has     *)
(* unpacked, whatever a killed one had left there before (Staged).         *)
(***************************************************************************)

InstallStep == {"idle", "exists", "clear", "make", "source", "assets", "archive", "load", "tags",
          "receipt", "replace", "done"}

Installs(i) == installing[i] \notin {"idle", "exists", "done"}

\* The parts unpacked before a step.
PartsBefore(s) ==
  CASE s = "assets"  -> {"source"}
    [] s = "archive" -> {"source", "assets"}
    [] s \in {"load", "tags"} -> {"source", "assets", "archive"}
    [] s = "receipt" -> {"source", "assets", "archive", "receipts"}
    [] s = "replace" -> Inst!Part
    [] OTHER -> {}

\* The staging directory of installer i once it has unpacked the parts P.
PartsOf(P, i) == [p \in Inst!Part |-> IF p \in P THEN {i} ELSE {}]

Staged(i) ==
  /\ installing[i] = "make" => staging = Inst!Absent
  /\ installing[i] \in InstallStep \ {"idle", "exists", "clear", "make", "done"} =>
       staging = PartsOf(PartsBefore(installing[i]), i)

Alone == \A i, j \in Installer : Installs(i) /\ Installs(j) => i = j

InstallInv ==
  /\ installing \in [Installer -> InstallStep] /\ overlapped \in BOOLEAN
  /\ ~overlapped => Alone /\ (\A i \in Installer : Staged(i)) /\ Inst!InstallIsWhole

InstallerAssumption == Inst!None \notin Installer

LEMMA InstallInit == Inst!Init => InstallInv
BY DEF Inst!Init, InstallInv, Alone, Installs, Staged, Inst!InstallIsWhole, InstallStep

-----------------------------------------------------------------------------
\* What the writes of an installer make of a staging directory that is its own.
LEMMA StagingOfOne ==
  ASSUME InstallerAssumption, NEW i \in Installer, NEW P \in SUBSET Inst!Part
  PROVE  PartsOf(P, i) # Inst!Absent /\ Inst!Empty = PartsOf({}, i)
<1>1. "source" \in Inst!Part
  BY DEF Inst!Part
<1>2. Inst!Absent["source"] = {"none"} /\ PartsOf(P, i)["source"] \in {{}, {i}}
  BY <1>1 DEF Inst!Absent, PartsOf, Inst!None
<1>3. i # "none"
  BY DEF InstallerAssumption, Inst!None
<1> QED BY <1>2, <1>3 DEF Inst!Empty, PartsOf

LEMMA PartAdded ==
  ASSUME NEW i \in Installer, NEW P \in SUBSET Inst!Part, NEW p \in Inst!Part,
         NEW new, new \in {[PartsOf(P, i) EXCEPT ![p] = {i}], [PartsOf(P, i) EXCEPT ![p] = @ \cup {i}]}
  PROVE  new = PartsOf(P \cup {p}, i)
<1>1. PartsOf(P, i)[p] \cup {i} = {i}
  BY DEF PartsOf
<1>2. new = [PartsOf(P, i) EXCEPT ![p] = {i}]
  BY <1>1
<1> QED BY <1>2 DEF PartsOf

\* A step of installer i alone.
LEMMA InstallerStep ==
  ASSUME InstallInv, NEW i \in Installer, NEW s \in InstallStep,
         installing' = [installing EXCEPT ![i] = s],
         overlapped' \in BOOLEAN, ~overlapped' => ~overlapped,
         ~overlapped' => (s \in {"idle", "exists", "done"} \/ \A j \in Installer \ {i} : ~Installs(j)),
         ~overlapped' => (staging' = staging \/ \A j \in Installer \ {i} : ~Installs(j)),
         ~overlapped' => (s = "make" => staging' = Inst!Absent),
         ~overlapped' => (s \in InstallStep \ {"idle", "exists", "clear", "make", "done"}
                            => staging' = PartsOf(PartsBefore(s), i)),
         ~overlapped' => Inst!InstallIsWhole'
  PROVE  InstallInv'
<1>1. installing' \in [Installer -> InstallStep] /\ installing'[i] = s
      /\ \A j \in Installer \ {i} : installing'[j] = installing[j]
  BY DEF InstallInv
<1>2. ASSUME ~overlapped'
      PROVE  Alone' /\ \A j \in Installer : Staged(j)'
  <2>1. Alone /\ \A j \in Installer : Staged(j)
    BY <1>2 DEF InstallInv
  <2>2. Alone'
    BY <1>1, <1>2, <2>1 DEF Alone, Installs
  <2>3. Staged(i)'
    BY <1>1, <1>2 DEF Staged
  <2>4. ASSUME NEW j \in Installer \ {i}
        PROVE  Staged(j)'
    <3>1. CASE Installs(j)
      BY <1>1, <1>2, <2>1, <2>4, <3>1 DEF Staged
    <3>2. CASE ~Installs(j)
      BY <1>1, <2>4, <3>2 DEF Staged, Installs
    <3> QED BY <3>1, <3>2
  <2> QED BY <2>2, <2>3, <2>4
<1> QED BY <1>1, <1>2 DEF InstallInv

\* An installer at work that is not overlapped works alone.
LEMMA InstallsAlone ==
  ASSUME InstallInv, NEW i \in Installer, Installs(i), ~overlapped
  PROVE  (\A j \in Installer \ {i} : ~Installs(j)) /\ Staged(i)
BY DEF InstallInv, Alone

-----------------------------------------------------------------------------
\* Steps before anything is written, and those that end an installer's work.
LEMMA EarlyKeeps ==
  ASSUME InstallInv, NEW i \in Installer,
         Inst!Damage(i) \/ Inst!Fetch(i) \/ Inst!VerifyBundle(i) \/ Inst!CheckDestination(i)
         \/ Inst!Kill(i)
  PROVE  InstallInv'
<1>1. CASE Inst!Damage(i) \/ Inst!Fetch(i)
  <2>1. UNCHANGED <<staging, dest, installing, overlapped>>
    BY <1>1 DEF Inst!Damage, Inst!Fetch
  <2> QED BY <2>1 DEF InstallInv, Alone, Installs, Staged, Inst!InstallIsWhole
<1>2. CASE Inst!VerifyBundle(i) \/ Inst!Kill(i)
  <2>1. PICK s \in {"idle", "exists"} : installing' = [installing EXCEPT ![i] = s]
    BY <1>2 DEF Inst!VerifyBundle, Inst!Kill
  <2>2. UNCHANGED <<staging, dest, overlapped>>
    BY <1>2 DEF Inst!VerifyBundle, Inst!Kill
  <2>3. s \in InstallStep /\ s \in {"idle", "exists", "done"} /\ s # "make"
        /\ s \notin InstallStep \ {"idle", "exists", "clear", "make", "done"}
    BY <2>1 DEF InstallStep
  <2>4. overlapped' \in BOOLEAN /\ (~overlapped' => ~overlapped) /\ (~overlapped' => Inst!InstallIsWhole')
    BY <2>2 DEF InstallInv, Inst!InstallIsWhole
  <2> QED BY <2>1, <2>2, <2>3, <2>4, InstallerStep
<1>3. CASE Inst!CheckDestination(i)
  <2>1. PICK s \in {"clear", "idle"} : installing' = [installing EXCEPT ![i] = s]
    BY <1>3 DEF Inst!CheckDestination
  <2>2. UNCHANGED <<staging, dest>>
    BY <1>3 DEF Inst!CheckDestination
  <2>3. s \in InstallStep /\ s # "make"
        /\ s \notin InstallStep \ {"idle", "exists", "clear", "make", "done"}
    BY <2>1 DEF InstallStep
  <2>4. overlapped \in BOOLEAN
    BY DEF InstallInv
  <2>5. overlapped' \in BOOLEAN /\ (~overlapped' => ~overlapped)
        /\ (~overlapped' => \A j \in Installer \ {i} : ~Installs(j))
    BY <1>3, <2>4 DEF Inst!CheckDestination, Installs
  <2>6. ~overlapped' => Inst!InstallIsWhole'
    BY <2>2, <2>5 DEF InstallInv, Inst!InstallIsWhole
  <2> QED BY <2>1, <2>2, <2>3, <2>5, <2>6, InstallerStep
<1> QED BY <1>1, <1>2, <1>3

\* A step of an installer at work that writes to the staging directory only.
LEMMA WorkKeeps ==
  ASSUME InstallInv, NEW i \in Installer, Installs(i), NEW s \in InstallStep,
         installing' = [installing EXCEPT ![i] = s], UNCHANGED <<dest, overlapped>>,
         ~overlapped => (s = "make" => staging' = Inst!Absent),
         ~overlapped => (s \in InstallStep \ {"idle", "exists", "clear", "make", "done"}
                           => staging' = PartsOf(PartsBefore(s), i))
  PROVE  InstallInv'
<1>1. overlapped' \in BOOLEAN /\ (~overlapped' => ~overlapped) /\ (~overlapped' => Inst!InstallIsWhole')
  BY DEF InstallInv, Inst!InstallIsWhole
<1>2. ~overlapped' => \A j \in Installer \ {i} : ~Installs(j)
  BY InstallsAlone
<1> QED BY <1>1, <1>2, InstallerStep

LEMMA AbandonKeeps ==
  ASSUME InstallInv, NEW i \in Installer, Installs(i), Inst!Abandon(i), UNCHANGED <<dest, overlapped>>
  PROVE  InstallInv'
BY WorkKeeps DEF Inst!Abandon, InstallStep

LEMMA ClearKeeps ==
  ASSUME InstallInv, NEW i \in Installer, Inst!ClearStaging(i)
  PROVE  InstallInv'
<1>1. Installs(i) /\ "make" \in InstallStep
  BY DEF Inst!ClearStaging, Installs, InstallStep
<1> QED BY <1>1, WorkKeeps DEF Inst!ClearStaging

LEMMA MakeKeeps ==
  ASSUME InstallerAssumption, InstallInv, NEW i \in Installer, Inst!MakeStaging(i)
  PROVE  InstallInv'
<1>1. Installs(i) /\ installing[i] = "make"
  BY DEF Inst!MakeStaging, Installs
<1>2. CASE staging = Inst!Absent
  <2>1. installing' = [installing EXCEPT ![i] = "source"] /\ staging' = Inst!Empty
        /\ UNCHANGED <<dest, overlapped>>
    BY <1>2 DEF Inst!MakeStaging
  <2>2. "source" \in InstallStep /\ PartsBefore("source") = {} /\ Inst!Empty = PartsOf({}, i)
    BY StagingOfOne DEF InstallStep, PartsBefore
  <2> QED BY <1>1, <2>1, <2>2, WorkKeeps
<1>3. CASE staging # Inst!Absent
  <2>1. installing' = [installing EXCEPT ![i] = "idle"] /\ UNCHANGED <<dest, overlapped>>
        /\ "idle" \in InstallStep
    BY <1>3 DEF Inst!MakeStaging, InstallStep
  <2> QED BY <1>1, <2>1, WorkKeeps
<1> QED BY <1>2, <1>3

\* A step that adds part p to the staging directory and goes on from s to t.
LEMMA FillKeeps ==
  ASSUME InstallerAssumption, InstallInv, NEW i \in Installer, NEW s \in InstallStep,
         NEW t \in InstallStep, NEW p \in Inst!Part,
         installing[i] = s, s \in InstallStep \ {"idle", "exists", "clear", "make", "done"}, t # "make",
         installing' = [installing EXCEPT ![i] = t], UNCHANGED <<dest, overlapped>>,
         PartsBefore(s) \in SUBSET Inst!Part, PartsBefore(t) = PartsBefore(s) \cup {p},
         staging # Inst!Absent => staging' \in {[staging EXCEPT ![p] = {i}], [staging EXCEPT ![p] = @ \cup {i}]}
  PROVE  InstallInv'
<1>1. Installs(i)
  BY DEF Installs
<1>2. ASSUME ~overlapped
      PROVE  staging' = PartsOf(PartsBefore(t), i)
  <2>1. staging = PartsOf(PartsBefore(s), i)
    BY <1>1, <1>2, InstallsAlone DEF Staged
  <2>2. PartsOf(PartsBefore(s), i) # Inst!Absent
    BY StagingOfOne
  <2>3. staging' \in {[PartsOf(PartsBefore(s), i) EXCEPT ![p] = {i}],
                     [PartsOf(PartsBefore(s), i) EXCEPT ![p] = @ \cup {i}]}
    BY <2>1, <2>2
  <2>4. staging' = PartsOf(PartsBefore(s) \cup {p}, i)
    BY <2>3, PartAdded
  <2> QED BY <2>4
<1> QED BY <1>1, <1>2, WorkKeeps

LEMMA ExtractKeeps ==
  ASSUME InstallerAssumption, InstallInv, NEW i \in Installer,
         Inst!ExtractSource(i) \/ Inst!MaterializeAssets(i)
  PROVE  InstallInv'
<1>1. UNCHANGED <<dest, overlapped>> /\ {"source", "assets", "archive"} \subseteq InstallStep
  BY DEF Inst!ExtractSource, Inst!MaterializeAssets, InstallStep
<1>2. CASE Inst!ExtractSource(i)
  <2>1. /\ installing[i] = "source" /\ installing' = [installing EXCEPT ![i] = "assets"]
        /\ "source" \in Inst!Part
        /\ staging # Inst!Absent => staging' = [staging EXCEPT !["source"] = @ \cup {i}]
    BY <1>2 DEF Inst!ExtractSource, Inst!Unpacked, Inst!Part
  <2>2. PartsBefore("source") \in SUBSET Inst!Part
        /\ PartsBefore("assets") = PartsBefore("source") \cup {"source"}
    BY DEF PartsBefore, Inst!Part
  <2> QED BY <1>1, <2>1, <2>2, FillKeeps
<1>3. CASE Inst!MaterializeAssets(i)
  <2>1. /\ installing[i] = "assets" /\ installing' = [installing EXCEPT ![i] = "archive"]
        /\ "assets" \in Inst!Part
        /\ staging # Inst!Absent => staging' = [staging EXCEPT !["assets"] = @ \cup {i}]
    BY <1>3 DEF Inst!MaterializeAssets, Inst!Unpacked, Inst!Part
  <2>2. PartsBefore("assets") \in SUBSET Inst!Part
        /\ PartsBefore("archive") = PartsBefore("assets") \cup {"assets"}
    BY DEF PartsBefore, Inst!Part
  <2> QED BY <1>1, <2>1, <2>2, FillKeeps
<1> QED BY <1>2, <1>3

LEMMA AssembleKeeps ==
  ASSUME InstallerAssumption, InstallInv, NEW i \in Installer, Inst!AssembleArchive(i)
  PROVE  InstallInv'
<1>1. installing[i] = "archive" /\ Installs(i) /\ UNCHANGED <<dest, overlapped>>
      /\ {"archive", "load"} \subseteq InstallStep
  BY DEF Inst!AssembleArchive, Installs, InstallStep
<1>2. CASE staging = Inst!Absent
  BY <1>1, <1>2, AbandonKeeps DEF Inst!AssembleArchive
<1>3. CASE staging # Inst!Absent
  <2>1. /\ installing' = [installing EXCEPT ![i] = "load"] /\ "archive" \in Inst!Part
        /\ staging' = [staging EXCEPT !["archive"] = {i}]
    BY <1>3 DEF Inst!AssembleArchive, Inst!Part
  <2>2. PartsBefore("archive") \in SUBSET Inst!Part
        /\ PartsBefore("load") = PartsBefore("archive") \cup {"archive"}
    BY DEF PartsBefore, Inst!Part
  <2> QED BY <1>1, <2>1, <2>2, FillKeeps
<1> QED BY <1>2, <1>3

LEMMA LoadKeeps ==
  ASSUME InstallInv, NEW i \in Installer, Inst!LoadImages(i)
  PROVE  InstallInv'
<1>1. installing[i] = "load" /\ Installs(i) /\ UNCHANGED <<dest, overlapped>>
      /\ {"load", "tags"} \subseteq InstallStep
  BY DEF Inst!LoadImages, Installs, InstallStep
<1>2. CASE Inst!Abandon(i)
  BY <1>1, <1>2, AbandonKeeps
<1>3. CASE ~Inst!Abandon(i)
  <2>1. installing' = [installing EXCEPT ![i] = "tags"] /\ staging' = staging
    BY <1>3 DEF Inst!LoadImages
  <2>2. ~overlapped => staging = PartsOf(PartsBefore("load"), i)
    BY <1>1, InstallsAlone DEF Staged
  <2>3. PartsBefore("tags") = PartsBefore("load")
    BY DEF PartsBefore
  <2> QED BY <1>1, <2>1, <2>2, <2>3, WorkKeeps
<1> QED BY <1>2, <1>3

LEMMA VerifyKeeps ==
  ASSUME InstallerAssumption, InstallInv, NEW i \in Installer, Inst!VerifyTags(i)
  PROVE  InstallInv'
<1>1. installing[i] = "tags" /\ Installs(i) /\ UNCHANGED <<dest, overlapped>>
      /\ {"tags", "receipt"} \subseteq InstallStep
  BY DEF Inst!VerifyTags, Installs, InstallStep
<1>2. CASE Inst!Abandon(i)
  BY <1>1, <1>2, AbandonKeeps
<1>3. CASE ~Inst!Abandon(i)
  <2>1. /\ installing' = [installing EXCEPT ![i] = "receipt"] /\ "receipts" \in Inst!Part
        /\ staging # Inst!Absent => staging' = [staging EXCEPT !["receipts"] = @ \cup {i}]
    BY <1>3 DEF Inst!VerifyTags, Inst!WriteBuildReceipts, Inst!Unpacked, Inst!Part
  <2>2. PartsBefore("tags") \in SUBSET Inst!Part
        /\ PartsBefore("receipt") = PartsBefore("tags") \cup {"receipts"}
    BY DEF PartsBefore, Inst!Part
  <2> QED BY <1>1, <2>1, <2>2, FillKeeps
<1> QED BY <1>2, <1>3

LEMMA ReceiptKeeps ==
  ASSUME InstallerAssumption, InstallInv, NEW i \in Installer, Inst!WriteReceipt(i)
  PROVE  InstallInv'
<1>1. installing[i] = "receipt" /\ Installs(i) /\ UNCHANGED <<dest, overlapped>>
      /\ {"receipt", "replace"} \subseteq InstallStep
  BY DEF Inst!WriteReceipt, Installs, InstallStep
<1>2. CASE staging = Inst!Absent
  BY <1>1, <1>2, AbandonKeeps DEF Inst!WriteReceipt
<1>3. CASE staging # Inst!Absent
  <2>1. /\ installing' = [installing EXCEPT ![i] = "replace"] /\ "receipt" \in Inst!Part
        /\ staging' = [staging EXCEPT !["receipt"] = {i}]
    BY <1>3 DEF Inst!WriteReceipt, Inst!Part
  <2>2. PartsBefore("receipt") \in SUBSET Inst!Part
        /\ PartsBefore("replace") = PartsBefore("receipt") \cup {"receipt"}
    BY DEF PartsBefore, Inst!Part
  <2> QED BY <1>1, <2>1, <2>2, FillKeeps
<1> QED BY <1>2, <1>3

\* The staging directory becomes the destination: it is whole.
LEMMA ReplaceKeeps ==
  ASSUME InstallerAssumption, InstallInv, NEW i \in Installer, Inst!Replace(i)
  PROVE  InstallInv'
<1>1. installing[i] = "replace" /\ Installs(i) /\ UNCHANGED overlapped
      /\ {"replace", "done"} \subseteq InstallStep
  BY DEF Inst!Replace, Installs, InstallStep
<1>2. CASE staging = Inst!Absent \/ dest # Inst!Absent
  BY <1>1, <1>2, AbandonKeeps DEF Inst!Replace
<1>3. CASE ~(staging = Inst!Absent \/ dest # Inst!Absent)
  <2>1. dest' = staging /\ installing' = [installing EXCEPT ![i] = "done"]
    BY <1>3 DEF Inst!Replace
  <2>2. ASSUME ~overlapped
        PROVE  dest' = [p \in Inst!Part |-> {i}] /\ \A j \in Installer \ {i} : ~Installs(j)
    <3>1. Staged(i) /\ \A j \in Installer \ {i} : ~Installs(j)
      BY <1>1, <2>2, InstallsAlone
    <3>2. staging = PartsOf(Inst!Part, i)
      BY <1>1, <3>1 DEF Staged, PartsBefore
    <3> QED BY <2>1, <3>1, <3>2 DEF PartsOf
  <2>3. overlapped' \in BOOLEAN /\ (~overlapped' => ~overlapped)
        /\ (~overlapped' => \A j \in Installer \ {i} : ~Installs(j))
    BY <1>1, <2>2 DEF InstallInv
  <2>4. ~overlapped' => Inst!InstallIsWhole'
    BY <2>2, <2>3 DEF Inst!InstallIsWhole
  <2> QED BY <1>1, <2>1, <2>3, <2>4, InstallerStep
<1> QED BY <1>2, <1>3

LEMMA InstallNext == InstallerAssumption /\ InstallInv /\ [Inst!Next]_Inst!vars => InstallInv'
<1> SUFFICES ASSUME InstallerAssumption, InstallInv, [Inst!Next]_Inst!vars
             PROVE  InstallInv'
  OBVIOUS
<1>1. CASE Inst!Next
  BY <1>1, EarlyKeeps, ClearKeeps, MakeKeeps, ExtractKeeps, AssembleKeeps, LoadKeeps, VerifyKeeps,
     ReceiptKeeps, ReplaceKeeps DEF Inst!Next
<1>2. CASE UNCHANGED Inst!vars
  BY <1>2 DEF Inst!vars, InstallInv, Alone, Installs, Staged, Inst!InstallIsWhole
<1> QED BY <1>1, <1>2

\* What the destination holds is whole and of one bundle, however many attempts were
\* killed before, unless two installers were at it at once (offline_install.install).
THEOREM InstallsAreWhole ==
  ASSUME InstallerAssumption
  PROVE  Inst!Spec => []Inst!InstallIsWhole
<1>1. InstallInv => Inst!InstallIsWhole
  BY DEF InstallInv, Inst!InstallIsWhole
<1>2. InstallInv /\ [Inst!Next]_Inst!vars => InstallInv'
  BY InstallNext
<1> QED BY InstallInit, <1>1, <1>2, PTL DEF Inst!Spec

-----------------------------------------------------------------------------
(***************************************************************************)
(* Provisioning.  Nothing in the code says that the credentials of one     *)
(* runtime directory come from one drawing: it follows from the order in   *)
(* which up writes and reads its files.  The invariant says it of the      *)
(* files (OneDrawing) and of the applications whose database that drawing  *)
(* made (OneVolume), and adds what every step of up has established        *)
(* (Reached of the files, Served of the applications).                     *)
(***************************************************************************)

\* The steps of up up to the specifications, and those that follow each stage's probe.
First2 == {"secrets", "team", "api", "apiMarker", "facilitator", "irisSpec"}
Rest2 == {"ctfdSpec", "guacSpec", "users", "env", "sql", "databases", "verify2"}
After2 == {"enter3", "applications", "verify3"}
After3 == {"enter4", "iris", "irisInventory", "ctfd", "ctfdInventory", "discovered", "recreate",
           "verify4"}
After4 == {"enter5", "connections", "verify5"}
After5 == {"enter6", "evidence", "verify6", "enter7", "config", "state", "verify7", "over"}
SetupStep == {"idle", "enter2"} \cup First2 \cup Rest2 \cup After2 \cup After3 \cup After4 \cup After5

VolumeRow == [database : Int, account : Int, ids : Int]
Credential == {"secrets", "team", "irisSpec", "ctfdSpec", "guacSpec", "sql"}

SetupTyped ==
  /\ file \in [Prov!File -> Int] /\ volume \in [Prov!App -> VolumeRow]
  /\ verified \in SUBSET Prov!Stage /\ running \in BOOLEAN /\ done \in BOOLEAN
  /\ key \in Nat /\ at \in SetupStep

\* The files of a runtime directory hold one drawing's credentials, the latest.
OneDrawing ==
  /\ \A f \in Credential : file[f] \in {Prov!Absent, Prov!Torn, key}
  /\ file["secrets"] = Prov!Absent => verified = {} /\ \A f \in Prov!File : file[f] = Prov!Absent
  /\ 2 \in verified => file["team"] # Prov!Torn

\* An application whose database was made with the latest drawing has its accounts too.
OneVolume ==
  /\ \A a \in Prov!App : volume[a].database <= key
  /\ \A a \in {"iris", "ctfd"} : volume[a].database = key => volume[a].account \in {Prov!Absent, key}
  /\ volume["ctfd"].account # Prov!Absent => volume["iris"].account # Prov!Absent
  /\ volume["iris"].account # Prov!Absent => volume["iris"].database # Prov!Absent
  /\ 5 \in verified => volume["guacamole"].account \in {Prov!Absent, key}

\* What holds of the files when up has come to step s, and of the applications.
Reached(s) ==
  /\ s \notin {"idle", "enter2", "secrets"} => file["secrets"] = key /\ key > 0
  /\ s = "team" => 2 \notin verified
  /\ s \notin {"idle", "enter2"} \cup First2 => file["team"] # Prov!Torn
  /\ s = "databases" => file["sql"] = key
  /\ s = "over" => file["state"] = Prov!ActualIds
  /\ s # "idle" => ~done

Served(s) ==
  /\ s \in After3 \cup After4 \cup After5 => Prov!Connects("iris") /\ Prov!Connects("ctfd")
  /\ s \in {"irisInventory", "ctfd"} => volume["iris"].account # Prov!Absent
  /\ s \in After4 \cup After5 => volume["ctfd"].account # Prov!Absent
  /\ s \in {"verify5"} \cup After5 => volume["guacamole"].account = key

SetupInv == SetupTyped /\ OneDrawing /\ OneVolume /\ Reached(at) /\ Served(at) /\ Prov!HandoutWorks

LEMMA SetupInit == Prov!Init => SetupInv
<1> SUFFICES ASSUME Prov!Init PROVE SetupInv
  OBVIOUS
<1>1. SetupTyped
  <2>1. Prov!NoVolume \in VolumeRow /\ Prov!Absent \in Int
    BY DEF Prov!NoVolume, VolumeRow, Prov!Absent
  <2>2. file \in [Prov!File -> Int] /\ volume \in [Prov!App -> VolumeRow]
    BY <2>1 DEF Prov!Init
  <2>3. at \in SetupStep /\ key \in Nat /\ verified \in SUBSET Prov!Stage
    BY DEF Prov!Init, SetupStep
  <2>4. running \in BOOLEAN /\ done \in BOOLEAN
    BY DEF Prov!Init
  <2> QED BY <2>2, <2>3, <2>4 DEF SetupTyped
<1>2. OneDrawing
  BY DEF Prov!Init, OneDrawing, Credential, Prov!File, Prov!Absent, Prov!Torn
<1>3. OneVolume
  BY DEF Prov!Init, OneVolume, Prov!NoVolume, Prov!App, Prov!Absent
<1>4. Reached(at) /\ Served(at)
  BY DEF Prov!Init, Reached, Served, First2, Rest2, After2, After3, After4, After5
<1> QED BY <1>1, <1>2, <1>3, <1>4 DEF SetupInv, Prov!HandoutWorks, Prov!Init

-----------------------------------------------------------------------------
\* A step that neither ends up nor changes a drawing.
LEMMA SetupStepKeeps ==
  ASSUME SetupInv, at # "idle", at' \in SetupStep, UNCHANGED <<done, key, running>>,
         verified' \in SUBSET Prov!Stage, 2 \in verified' => 2 \in verified \/ file["team"] # Prov!Torn,
         5 \in verified' => 5 \in verified \/ volume["guacamole"].account = key,
         file' \in [Prov!File -> Int], volume' \in [Prov!App -> VolumeRow],
         verified' = verified \/ file["secrets"] # Prov!Absent,
         file' = file \/ file["secrets"] # Prov!Absent,
         file'["secrets"] = file["secrets"], file'["team"] = file["team"] \/ 2 \notin verified',
         \A f \in Credential : file'[f] \in {file[f], Prov!Torn, key},
         OneVolume', Reached(at)', Served(at)'
  PROVE  SetupInv'
<1>1. ~done
  BY DEF SetupInv, Reached
<1>2. OneDrawing'
  <2>1. \A f \in Credential : file'[f] \in {Prov!Absent, Prov!Torn, key}
    BY DEF SetupInv, OneDrawing
  <2>2. file'["secrets"] = Prov!Absent => verified' = {} /\ \A f \in Prov!File : file'[f] = Prov!Absent
    BY DEF SetupInv, OneDrawing
  <2>3. 2 \in verified' => file'["team"] # Prov!Torn
    BY DEF SetupInv, OneDrawing
  <2> QED BY <2>1, <2>2, <2>3 DEF OneDrawing
<1>3. SetupTyped'
  BY DEF SetupInv, SetupTyped
<1> QED BY <1>1, <1>2, <1>3 DEF SetupInv, Prov!HandoutWorks

-----------------------------------------------------------------------------
(* Steps that write one file *)

\* How a step ends that writes v to file f and goes on to s: with the file unchanged, torn
\* or written, and only in the last two cases somewhere else than before.
Writes(f, v, s) ==
  /\ volume' = volume /\ at' \in {"idle", s}
  /\ file' \in [Prov!File -> Int] /\ file'[f] \in {file[f], v, Prov!Torn}
  /\ \A g \in Prov!File \ {f} : file'[g] = file[g]

LEMMA WriteEnds ==
  ASSUME SetupTyped, NEW f \in Prov!File, NEW v \in Int, NEW s,
         Prov!Put(f, v, s) \/ Prov!PutOnce(f, v, s) \/ Prov!Refuses \/ (Prov!Goes(s)
         /\ UNCHANGED <<file, volume>>)
  PROVE  Writes(f, v, s)
BY DEF SetupTyped, Prov!Put, Prov!PutOnce, Prov!Refuses, Prov!Goes, Writes, Prov!Torn

LEMMA WriteKeeps ==
  ASSUME SetupInv, at \notin {"idle", "enter2", "secrets"},
         NEW f \in Prov!File \ {"secrets", "team"}, NEW v \in Int, NEW s \in SetupStep \ {"team", "over"},
         Writes(f, v, s), UNCHANGED <<verified, running, done, key>>,
         f \in Credential => v = key,
         s \notin {"idle", "enter2"} \cup First2 => file["team"] # Prov!Torn,
         s = "databases" /\ at' = s => file'["sql"] = key,
         Served(s)
  PROVE  SetupInv'
<1>1. {"secrets", "team"} \subseteq Prov!File \ {f}
  BY DEF Prov!File
<1>2. file'["secrets"] = file["secrets"] /\ file'["team"] = file["team"] /\ volume' = volume
  BY <1>1 DEF Writes
<1>3. at' \in SetupStep /\ at' \in {"idle", s} /\ file' \in [Prov!File -> Int]
      /\ volume' \in [Prov!App -> VolumeRow]
  BY DEF Writes, SetupStep, SetupInv, SetupTyped
<1>4. \A g \in Credential : file'[g] \in {file[g], Prov!Torn, key}
  BY DEF Writes, Credential, Prov!File
<1>5. file["secrets"] = key /\ key > 0 /\ ~done /\ file["secrets"] # Prov!Absent
  BY DEF SetupInv, Reached, Prov!Absent
<1>6. OneVolume'
  BY <1>2 DEF SetupInv, OneVolume
<1>7. Reached(at)'
  BY <1>2, <1>3, <1>5 DEF Reached, First2
<1>8. Served(at)'
  BY <1>2, <1>3 DEF Served, Prov!Connects, After3, After4, After5
<1>9. verified' \in SUBSET Prov!Stage
  BY DEF SetupInv, SetupTyped
<1> QED BY <1>2, <1>3, <1>4, <1>5, <1>6, <1>7, <1>8, <1>9, SetupStepKeeps

\* The steps between which only files are written, all of them within one stage.
LEMMA ServedOn ==
  ASSUME NEW s, NEW t, Served(s),
         \/ s \in First2 \cup Rest2 /\ t \in First2 \cup Rest2
         \/ s = "applications" /\ t = "verify3"
         \/ s = "irisInventory" /\ t = "ctfd"
         \/ s \in {"ctfdInventory", "discovered", "recreate"} /\ t \in {"discovered", "recreate", "verify4"}
         \/ s \in {"config", "state"} /\ t \in {"state", "verify7"}
  PROVE  Served(t)
BY DEF Served, First2, Rest2, After2, After3, After4, After5

LEMMA SpecSteps ==
  ASSUME SetupInv,
         Prov!EnsureApiSecret \/ Prov!PinApiSecret \/ Prov!EnsureFacilitatorSecrets \/ Prov!RenderSpec
                  \/ Prov!RenderWazuhUsers \/ Prov!GenerateSql
  PROVE  SetupInv'
<1> USE DEF SetupInv
<1>1. SetupTyped /\ UNCHANGED <<verified, running, done, key>> /\ key \in Int
  BY DEF Prov!EnsureApiSecret, Prov!PinApiSecret, Prov!EnsureFacilitatorSecrets, Prov!RenderSpec,
     Prov!RenderWazuhUsers, Prov!GenerateSql,
     Prov!NoDraw, SetupTyped
<1>2. Served(at) /\ \A f \in Prov!File : file[f] \in Int
  BY DEF SetupTyped
<1>3. CASE Prov!EnsureApiSecret
  <2>1. at = "api" /\ Writes("api", file["secrets"], "apiMarker")
    BY <1>1, <1>2, <1>3, WriteEnds DEF Prov!EnsureApiSecret, Prov!File
  <2>2. Served("apiMarker")
    BY <1>2, <2>1, ServedOn DEF First2
  <2> QED BY <1>1, <1>2, <2>1, <2>2, WriteKeeps DEF SetupStep, First2, Prov!File, Credential
<1>4. CASE Prov!PinApiSecret
  <2>1. at = "apiMarker" /\ Writes("apiMarker", file["api"], "facilitator")
    BY <1>1, <1>2, <1>4, WriteEnds DEF Prov!PinApiSecret, Prov!File
  <2>2. Served("facilitator")
    BY <1>2, <2>1, ServedOn DEF First2
  <2> QED BY <1>1, <1>2, <2>1, <2>2, WriteKeeps DEF SetupStep, First2, Prov!File, Credential
<1>5. CASE Prov!EnsureFacilitatorSecrets
  <2>1. at = "facilitator" /\ Writes("facilitator", 1, "irisSpec")
    BY <1>1, <1>2, <1>5, WriteEnds DEF Prov!EnsureFacilitatorSecrets, Prov!File
  <2>2. Served("irisSpec")
    BY <1>2, <2>1, ServedOn DEF First2
  <2> QED BY <1>1, <2>1, <2>2, WriteKeeps DEF SetupStep, First2, Prov!File, Credential
<1>6. CASE Prov!RenderSpec
  <2>1. at \in {"irisSpec", "ctfdSpec", "guacSpec"}
        /\ Prov!SPECS[at] \in {"ctfdSpec", "guacSpec", "users"}
    BY <1>6 DEF Prov!RenderSpec, Prov!SPECS
  <2>2. Writes(at, file["team"], Prov!SPECS[at])
    BY <1>1, <1>2, <1>6, <2>1, WriteEnds DEF Prov!RenderSpec, Prov!File
  <2>3. Served(Prov!SPECS[at])
    BY <1>2, <2>1, ServedOn DEF First2, Rest2
  <2>4. CASE Prov!Readable({"team"})
    <3>1. file["team"] = key /\ file["team"] # Prov!Torn
      BY <2>4 DEF Prov!Readable, OneDrawing, Credential
    <3> QED BY <1>1, <1>2, <2>1, <2>2, <2>3, <3>1, WriteKeeps DEF SetupStep, Rest2, Prov!File,
               Credential
  <2>5. CASE ~Prov!Readable({"team"})
    <3>1. Writes("api", 0, "idle")
      BY <1>1, <1>6, <2>5, WriteEnds DEF Prov!RenderSpec, Prov!File
    <3>2. Served("idle")
      BY DEF Served, After3, After4, After5
    <3> QED BY <1>1, <2>1, <3>1, <3>2, WriteKeeps DEF SetupStep, Prov!File, Credential
  <2> QED BY <2>4, <2>5
<1>7. CASE Prov!RenderWazuhUsers
  <2>1. at = "users" /\ Writes("users", file["secrets"], "env")
    BY <1>1, <1>2, <1>7, WriteEnds DEF Prov!RenderWazuhUsers, Prov!File
  <2>2. Served("env") /\ file["team"] # Prov!Torn
    BY <1>2, <2>1, ServedOn DEF Rest2, Reached, First2
  <2> QED BY <1>1, <1>2, <2>1, <2>2, WriteKeeps DEF SetupStep, Rest2, Prov!File, Credential
<1>8. CASE Prov!GenerateSql
  <2>1. at = "sql"
    BY <1>8 DEF Prov!GenerateSql
  <2>2. Served("databases") /\ file["team"] # Prov!Torn
    BY <1>2, <2>1, ServedOn DEF Rest2, Reached, First2
  <2>3. CASE Prov!Readable({"guacSpec"})
    <3>1. file["guacSpec"] = key
      BY <2>3 DEF Prov!Readable, OneDrawing, Credential
    <3>2. Writes("sql", key, "databases") /\ (at' = "databases" => file'["sql"] = key)
      BY <1>1, <1>8, <2>3, <3>1, WriteEnds DEF Prov!GenerateSql, Prov!File, Prov!Put, Prov!Goes,
         SetupTyped
    <3> QED BY <1>1, <2>1, <2>2, <3>2, WriteKeeps DEF SetupStep, Rest2, Prov!File, Credential
  <2>4. CASE ~Prov!Readable({"guacSpec"})
    <3>1. Writes("api", 0, "idle")
      BY <1>1, <1>8, <2>4, WriteEnds DEF Prov!GenerateSql, Prov!File
    <3>2. Served("idle")
      BY DEF Served, After3, After4, After5
    <3> QED BY <1>1, <2>1, <3>1, <3>2, WriteKeeps DEF SetupStep, Prov!File, Credential
  <2> QED BY <2>3, <2>4
<1> QED BY <1>3, <1>4, <1>5, <1>6, <1>7, <1>8

LEMMA SecretsStep ==
  ASSUME SetupInv, Prov!EnsureSecrets
  PROVE  SetupInv'
<1> USE DEF SetupInv
<1>1. at = "secrets" /\ UNCHANGED <<verified, running, done, volume>> /\ ~done /\ key \in Nat
  BY DEF Prov!EnsureSecrets, Prov!Put, Prov!Refuses, Reached, SetupTyped
<1>2. at' \in {"idle", "team", "api"} /\ file' \in [Prov!File -> Int] /\ key' \in Nat
  BY <1>1 DEF Prov!EnsureSecrets, Prov!Put, Prov!Refuses, Prov!Goes, Prov!Draw, Prov!NoDraw,
     Prov!Drawn, Prov!Torn, SetupTyped
<1>3. SetupTyped'
  BY <1>1, <1>2 DEF SetupTyped, SetupStep, First2
<1>4. Served(at)'
  BY <1>2 DEF Served, After3, After4, After5
<1>5. CASE file["secrets"] = Prov!Absent
  <2>1. verified = {} /\ \A f \in Prov!File : file[f] = Prov!Absent
    BY <1>5 DEF OneDrawing
  <2>2. key' = key + 1 /\ key' > 0 /\ Prov!Put("secrets", key', "team")
    BY <1>1, <1>5 DEF Prov!EnsureSecrets, Prov!Draw, Prov!Drawn
  <2>3. /\ file'["secrets"] \in {Prov!Torn, key'}
        /\ \A f \in Prov!File \ {"secrets"} : file'[f] = Prov!Absent
        /\ at' = "team" => file'["secrets"] = key'
        /\ at' \in {"idle", "team"}
    BY <2>1, <2>2 DEF Prov!Put, Prov!Goes, Prov!File, SetupTyped
  <2>4. OneDrawing'
    BY <1>1, <2>1, <2>2, <2>3 DEF OneDrawing, Credential, Prov!File, Prov!Absent, Prov!Torn
  <2>5. OneVolume'
    <3>1. \A a \in Prov!App : volume'[a].database <= key' /\ volume'[a].database # key'
      <4>1. \A a \in Prov!App : volume[a].database \in Int /\ volume[a].database <= key
        BY DEF OneVolume, SetupTyped, VolumeRow
      <4> QED BY <1>1, <2>2, <4>1
    <3> QED BY <1>1, <2>1, <3>1 DEF OneVolume, Prov!App
  <2>6. Reached(at)'
    BY <1>1, <2>1, <2>2, <2>3 DEF Reached, First2
  <2> QED BY <1>1, <1>3, <1>4, <2>4, <2>5, <2>6 DEF Prov!HandoutWorks
<1>6. CASE file["secrets"] # Prov!Absent
  <2>1. key' = key /\ file' = file /\ at' \in {"idle", "api"}
        /\ (at' = "api" => file["secrets"] # Prov!Torn)
    BY <1>1, <1>6 DEF Prov!EnsureSecrets, Prov!Draw, Prov!NoDraw, Prov!Goes, Prov!Refuses
  <2>2. at' = "api" => file["secrets"] = key /\ key > 0
    BY <1>1, <1>6, <2>1 DEF OneDrawing, Credential, Prov!Absent
  <2>3. OneDrawing' /\ OneVolume'
    BY <1>1, <2>1 DEF OneDrawing, OneVolume
  <2>4. Reached(at)'
    BY <1>1, <2>1, <2>2 DEF Reached, First2
  <2> QED BY <1>1, <1>3, <1>4, <2>3, <2>4 DEF Prov!HandoutWorks
<1> QED BY <1>5, <1>6

LEMMA TeamStep ==
  ASSUME SetupInv, Prov!WriteTeamCredentials
  PROVE  SetupInv'
<1> USE DEF SetupInv
<1>1. at = "team" /\ UNCHANGED <<verified, running, done, key, volume>> /\ ~done /\ key \in Nat
  BY DEF Prov!WriteTeamCredentials, Prov!Put, Reached, SetupTyped
<1>2. at' \in {"idle", "api"} /\ file' \in [Prov!File -> Int] /\ file'["team"] \in {Prov!Torn, key}
      /\ \A f \in Prov!File \ {"team"} : file'[f] = file[f]
  BY <1>1 DEF Prov!WriteTeamCredentials, Prov!Put, Prov!Goes, Prov!Torn, SetupTyped, Prov!File
<1>3. file["secrets"] = key /\ key > 0 /\ 2 \notin verified /\ file["secrets"] # Prov!Absent
  BY <1>1 DEF Reached, Prov!Absent
<1>4. file'["secrets"] = file["secrets"]
  BY <1>2 DEF Prov!File
<1>5. \A f \in Credential : file'[f] \in {file[f], Prov!Torn, key}
  BY <1>2 DEF Credential, Prov!File
<1>6. Served(at)' /\ at' \in SetupStep
  BY <1>2 DEF Served, After3, After4, After5, SetupStep, First2
<1>7. Reached(at)'
  BY <1>1, <1>2, <1>3, <1>4 DEF Reached, First2
<1>8. OneVolume'
  BY <1>1 DEF OneVolume
<1>9. verified \in SUBSET Prov!Stage /\ volume' \in [Prov!App -> VolumeRow]
  BY <1>1 DEF SetupTyped
<1> QED BY <1>1, <1>2, <1>3, <1>4, <1>5, <1>6, <1>7, <1>8, <1>9, SetupStepKeeps

LEMMA FileSteps ==
  ASSUME SetupInv,
         Prov!RenderEnv \/ Prov!StartApplications \/ Prov!IrisInventory \/ Prov!CtfdInventory
         \/ Prov!RecordDiscovered
                  \/ Prov!ControllerConfig
  PROVE  SetupInv'
<1> USE DEF SetupInv
<1>1. SetupTyped /\ UNCHANGED <<verified, running, done, key>> /\ key \in Int /\ Served(at)
  BY DEF Prov!RenderEnv, Prov!StartApplications, Prov!IrisInventory, Prov!CtfdInventory,
     Prov!RecordDiscovered, Prov!ControllerConfig,
     Prov!NoDraw, SetupTyped
<1>2. \A f \in Prov!File : file[f] \in Int
  BY DEF SetupTyped
<1>3. \A a \in Prov!App : volume[a].ids \in Int
  BY DEF SetupTyped, VolumeRow
<1>4. CASE Prov!RenderEnv
  <2>1. \/ at = "env" /\ Writes("api", 0, "sql")
        \/ at = "recreate" /\ Writes("api", 0, "verify4")
    BY <1>1, <1>2, <1>4, WriteEnds DEF Prov!RenderEnv, Prov!File
  <2>2. file["team"] # Prov!Torn
    BY <2>1 DEF Reached, First2
  <2>3. CASE at = "env" /\ Writes("api", 0, "sql")
    <3>1. Served("sql")
      BY <1>1, <2>3, ServedOn DEF Rest2
    <3> QED BY <1>1, <2>2, <2>3, <3>1, WriteKeeps DEF SetupStep, Rest2, Prov!File, Credential
  <2>4. CASE at = "recreate" /\ Writes("api", 0, "verify4")
    <3>1. Served("verify4")
      BY <1>1, <2>4, ServedOn
    <3> QED BY <1>1, <2>2, <2>4, <3>1, WriteKeeps DEF SetupStep, After3, Prov!File, Credential
  <2> QED BY <2>1, <2>3, <2>4
<1>5. CASE Prov!StartApplications
  <2>1. at = "applications" /\ Writes("api", 0, "verify3")
    BY <1>1, <1>2, <1>5, WriteEnds DEF Prov!StartApplications, Prov!File
  <2>2. Served("verify3") /\ file["team"] # Prov!Torn
    BY <1>1, <2>1, ServedOn DEF Reached, First2
  <2> QED BY <1>1, <1>2, <2>1, <2>2, WriteKeeps DEF SetupStep, After2, Prov!File, Credential
<1>6. CASE Prov!IrisInventory
  <2>1. at = "irisInventory" /\ Writes("irisInventory", volume["iris"].ids, "ctfd")
    BY <1>1, <1>2, <1>3, <1>6, WriteEnds DEF Prov!IrisInventory, Prov!KeepInventory, Prov!File,
       Prov!App
  <2>2. Served("ctfd") /\ file["team"] # Prov!Torn
    BY <1>1, <2>1, ServedOn DEF Reached, First2
  <2> QED BY <1>1, <1>3, <2>1, <2>2, WriteKeeps DEF SetupStep, After3, Prov!File, Credential,
             Prov!App
<1>7. CASE Prov!CtfdInventory
  <2>1. at = "ctfdInventory" /\ Writes("ctfdInventory", volume["ctfd"].ids, "discovered")
    BY <1>1, <1>2, <1>3, <1>7, WriteEnds DEF Prov!CtfdInventory, Prov!KeepInventory, Prov!File,
       Prov!App
  <2>2. Served("discovered") /\ file["team"] # Prov!Torn
    BY <1>1, <2>1, ServedOn DEF Reached, First2
  <2> QED BY <1>1, <1>3, <2>1, <2>2, WriteKeeps DEF SetupStep, After3, Prov!File, Credential,
             Prov!App
<1>8. CASE Prov!RecordDiscovered
  <2>0. Prov!Discovered \in Int
    BY <1>2 DEF Prov!Discovered, Prov!File
  <2>1. at = "discovered" /\ Writes("discovered", Prov!Discovered, "recreate")
    BY <1>1, <1>8, <2>0, WriteEnds DEF Prov!RecordDiscovered, Prov!File
  <2>2. Served("recreate") /\ file["team"] # Prov!Torn
    BY <1>1, <2>1, ServedOn DEF Reached, First2
  <2> QED BY <1>1, <2>0, <2>1, <2>2, WriteKeeps DEF SetupStep, After3, Prov!File, Credential
<1>9. CASE Prov!ControllerConfig
  <2>1. at = "config"
    BY <1>9 DEF Prov!ControllerConfig
  <2>2. Served("state") /\ Served("verify7") /\ file["team"] # Prov!Torn
    BY <1>1, <2>1, ServedOn DEF Reached, First2
  <2>3. Writes("config", file["discovered"], "state") \/ Writes("config", 0, "verify7")
    BY <1>1, <1>2, <1>9, WriteEnds DEF Prov!ControllerConfig, Prov!File
  <2>4. CASE Writes("config", file["discovered"], "state")
    BY <1>1, <1>2, <2>1, <2>2, <2>4, WriteKeeps DEF SetupStep, After5, Prov!File, Credential
  <2>5. CASE Writes("config", 0, "verify7")
    BY <1>1, <2>1, <2>2, <2>5, WriteKeeps DEF SetupStep, After5, Prov!File, Credential
  <2> QED BY <2>3, <2>4, <2>5
<1> QED BY <1>4, <1>5, <1>6, <1>7, <1>8, <1>9

LEMMA StateStep ==
  ASSUME SetupInv, Prov!InitializeState
  PROVE  SetupInv'
<1> USE DEF SetupInv
<1>1. SetupTyped /\ UNCHANGED <<verified, running, done, key>> /\ key \in Int /\ Served(at)
      /\ at = "state"
  BY DEF Prov!InitializeState, Prov!NoDraw, SetupTyped
<1>2. Writes("state", file["config"], "verify7")
  BY <1>1, WriteEnds DEF Prov!InitializeState, Prov!File, SetupTyped
<1>3. Served("verify7") /\ file["team"] # Prov!Torn
  BY <1>1, ServedOn DEF Reached, First2
<1> QED BY <1>1, <1>2, <1>3, WriteKeeps DEF SetupStep, After5, Prov!File, Credential, SetupTyped

-----------------------------------------------------------------------------
(* Steps that change what an application keeps *)

LEMMA VolumeKeeps ==
  ASSUME SetupInv, at \notin {"idle", "enter2", "secrets"}, at' \in SetupStep \ {"team", "over",
         "databases"},
         UNCHANGED <<file, verified, running, done, key>>,
         at' \notin {"idle", "enter2"} \cup First2 => file["team"] # Prov!Torn,
         volume' \in [Prov!App -> VolumeRow], OneVolume', Served(at)'
  PROVE  SetupInv'
<1>1. \A f \in Credential : file'[f] \in {file[f], Prov!Torn, key}
  OBVIOUS
<1>2. file["secrets"] = key /\ key > 0 /\ ~done /\ file["secrets"] # Prov!Absent
  BY DEF SetupInv, Reached, Prov!Absent
<1>3. Reached(at)'
  BY <1>2 DEF Reached
<1>4. file' \in [Prov!File -> Int] /\ verified' \in SUBSET Prov!Stage
  BY DEF SetupInv, SetupTyped
<1> QED BY <1>1, <1>2, <1>3, <1>4, SetupStepKeeps

LEMMA DatabasesStep ==
  ASSUME SetupInv, Prov!StartDatabases
  PROVE  SetupInv'
<1> USE DEF SetupInv
<1>1. /\ at = "databases" /\ at' = "verify2" /\ UNCHANGED <<file, verified, running, done, key>>
      /\ file["secrets"] = key /\ key > 0 /\ key \in Nat /\ file["sql"] = key /\ file["team"] # Prov!Torn
  BY DEF Prov!StartDatabases, Prov!NoDraw, Prov!Goes, Reached, First2, SetupTyped
<1> DEFINE Account(a) == CASE a = "guacamole" -> file["sql"] [] a = "wazuh" -> file["users"] [] OTHER -> Prov!Absent
<1>2. \A a \in Prov!App : volume'[a] = IF volume[a].database # Prov!Absent THEN volume[a]
                                  ELSE [Prov!NoVolume EXCEPT !.database = file["secrets"], !.account = Account(a)]
  BY DEF Prov!StartDatabases
<1>3. \A a \in Prov!App : Account(a) \in Int
  BY DEF SetupTyped, Prov!File, Prov!Absent
<1>4. Account("iris") = Prov!Absent /\ Account("ctfd") = Prov!Absent /\ Account("guacamole") = key
  BY <1>1
<1> HIDE DEF Account
<1>5. ASSUME NEW a \in Prov!App, volume[a].database = Prov!Absent
      PROVE  volume'[a] \in VolumeRow /\ volume'[a].database = key /\ volume'[a].account = Account(a)
  <2>1. volume'[a] = [Prov!NoVolume EXCEPT !.database = file["secrets"], !.account = Account(a)]
    BY <1>2, <1>5
  <2>2. volume'[a] = [database |-> key, account |-> Account(a), ids |-> Prov!Absent]
    BY <1>1, <2>1 DEF Prov!NoVolume
  <2> QED BY <1>1, <1>3, <2>2 DEF VolumeRow, Prov!Absent
<1>6. \A a \in Prov!App : volume[a].database # Prov!Absent => volume'[a] = volume[a]
  BY <1>2
<1>7. volume' \in [Prov!App -> VolumeRow]
  <2>1. DOMAIN volume' = Prov!App /\ volume' = [a \in Prov!App |-> volume'[a]]
    BY DEF Prov!StartDatabases
  <2>2. ASSUME NEW a \in Prov!App PROVE volume'[a] \in VolumeRow
    <3>1. volume[a] \in VolumeRow
      BY DEF SetupTyped
    <3> QED BY <1>5, <1>6, <3>1
  <2> QED BY <2>1, <2>2
<1>8. OneVolume'
  <2>1. ASSUME NEW a \in Prov!App PROVE volume'[a].database <= key
    <3>1. volume[a].database = Prov!Absent => volume'[a].database = key
      BY <1>5
    <3>2. volume[a].database # Prov!Absent => volume'[a].database <= key
      BY <1>6 DEF OneVolume
    <3> QED BY <1>1, <3>1, <3>2
  <2>2. \A a \in {"iris", "ctfd"} : volume'[a].database = key => volume'[a].account \in {Prov!Absent, key}
    BY <1>4, <1>5, <1>6 DEF OneVolume, Prov!App
  <2>3. volume'["ctfd"].account # Prov!Absent => volume'["iris"].account # Prov!Absent
    BY <1>4, <1>5, <1>6 DEF OneVolume, Prov!App
  <2>4. volume'["iris"].account # Prov!Absent => volume'["iris"].database # Prov!Absent
    BY <1>4, <1>5, <1>6 DEF OneVolume, Prov!App
  <2>5. 5 \in verified => volume'["guacamole"].account \in {Prov!Absent, key}
    BY <1>4, <1>5, <1>6 DEF OneVolume, Prov!App
  <2> QED BY <1>1, <2>1, <2>2, <2>3, <2>4, <2>5 DEF OneVolume
<1>9. Served(at)'
  BY <1>1 DEF Served, After3, After4, After5
<1> QED BY <1>1, <1>7, <1>8, <1>9, VolumeKeeps DEF SetupStep, Rest2

\* What bootstrap and provision commit keeps the database, and has the credential if
\* there was no account.
LEMMA FoundOrCreatedRow ==
  ASSUME SetupTyped, NEW a \in Prov!App, NEW c \in Int, NEW ids \in Int
  PROVE  /\ Prov!FoundOrCreated(a, c, ids) \in VolumeRow
         /\ Prov!FoundOrCreated(a, c, ids).database = volume[a].database
         /\ Prov!FoundOrCreated(a, c, ids).account = IF volume[a].account = Prov!Absent THEN c ELSE volume[a].account
BY DEF SetupTyped, VolumeRow, Prov!FoundOrCreated

LEMMA AccountSteps ==
  ASSUME SetupInv, Prov!BootstrapIris \/ Prov!ProvisionCtfd
  PROVE  SetupInv'
<1> USE DEF SetupInv
<1>1. /\ UNCHANGED <<file, verified, running, done, key>> /\ at \in {"iris", "ctfd"} /\ key \in Nat
      /\ Prov!Connects("iris") /\ Prov!Connects("ctfd") /\ file["secrets"] = key /\ key > 0
      /\ file["team"] # Prov!Torn
  BY DEF Prov!BootstrapIris, Prov!ProvisionCtfd, Prov!NoDraw, SetupTyped, Served, After3, Reached,
     First2, Prov!Refuses, Prov!Commits
<1>2. CASE volume' = volume
  <2>1. at' \in {"idle", "irisInventory", "ctfdInventory"}
        /\ volume' \in [Prov!App -> VolumeRow] /\ OneVolume'
    BY <1>1, <1>2 DEF Prov!BootstrapIris, Prov!ProvisionCtfd, Prov!Refuses, Prov!Commits,
       Prov!Goes, OneVolume, SetupTyped
  <2>2. at' = "irisInventory" => volume["iris"].account # Prov!Absent
    <3>1. SUFFICES ASSUME at' = "irisInventory" PROVE volume["iris"].account # Prov!Absent
      OBVIOUS
    <3>2. Prov!BootstrapIris /\ Prov!Readable({"irisSpec"})
      BY <3>1 DEF Prov!BootstrapIris, Prov!ProvisionCtfd, Prov!Refuses, Prov!Commits, Prov!Goes
    <3>3. file["irisSpec"] # Prov!Absent /\ file["irisSpec"] \in Int
      BY <3>2 DEF Prov!Readable, SetupTyped, Prov!File
    <3>4. PICK ids \in {1, 2} : Prov!Commits("iris", Prov!FoundOrCreated("iris", file["irisSpec"], ids), "irisInventory")
      BY <3>2 DEF Prov!BootstrapIris
    <3>5. volume'["iris"].account # Prov!Absent
      BY <3>3, <3>4, FoundOrCreatedRow DEF Prov!Commits, Prov!App, SetupTyped
    <3> QED BY <3>5, <1>2
  <2>3. Served(at)'
    BY <1>1, <1>2, <2>1, <2>2 DEF Served, Prov!Connects, After3, After4, After5
  <2> QED BY <1>1, <2>1, <2>3, VolumeKeeps DEF SetupStep, After3
<1>3. CASE Prov!BootstrapIris /\ volume' # volume
  <2>1. at = "iris" /\ Prov!Readable({"irisSpec"})
    BY <1>3 DEF Prov!BootstrapIris, Prov!Refuses
  <2>2. file["irisSpec"] = key
    BY <2>1 DEF Prov!Readable, OneDrawing, Credential
  <2>3. PICK ids \in {1, 2} : Prov!Commits("iris", Prov!FoundOrCreated("iris", key, ids), "irisInventory")
    BY <1>3, <2>1, <2>2 DEF Prov!BootstrapIris
  <2> DEFINE row == Prov!FoundOrCreated("iris", key, ids)
  <2>4. /\ row \in VolumeRow /\ row.database = volume["iris"].database
        /\ row.account = IF volume["iris"].account = Prov!Absent THEN key ELSE volume["iris"].account
    BY <1>1, FoundOrCreatedRow DEF Prov!App
  <2> HIDE DEF row
  <2>5. at' = "irisInventory" /\ volume' = [volume EXCEPT !["iris"] = row]
    BY <2>3 DEF Prov!Commits, Prov!Goes, row
  <2>6. /\ volume' \in [Prov!App -> VolumeRow] /\ volume'["iris"] = row
        /\ \A a \in Prov!App \ {"iris"} : volume'[a] = volume[a]
    BY <2>4, <2>5 DEF SetupTyped, Prov!App
  <2>7. row.account # Prov!Absent /\ row.account \in {volume["iris"].account, key}
    BY <1>1, <2>4 DEF Prov!Absent
  <2>8. OneVolume'
    <3>1. \A a \in Prov!App : volume'[a].database = volume[a].database
      BY <2>4, <2>6
    <3>2. row.database = key => row.account \in {Prov!Absent, key}
      BY <2>4, <2>7 DEF OneVolume
    <3>3. row.database # Prov!Absent
      BY <1>1, <2>4 DEF Prov!Connects, Prov!Absent
    <3> QED BY <1>1, <2>6, <2>7, <3>1, <3>2, <3>3 DEF OneVolume, Prov!App
  <2>9. Served(at)'
    BY <1>1, <2>4, <2>5, <2>6, <2>7 DEF Served, Prov!Connects, After3, After4, After5, Prov!App
  <2> QED BY <1>1, <2>1, <2>5, <2>6, <2>8, <2>9, VolumeKeeps DEF SetupStep, After3
<1>4. CASE Prov!ProvisionCtfd /\ volume' # volume
  <2>1. at = "ctfd" /\ Prov!Readable({"ctfdSpec"}) /\ volume["iris"].account # Prov!Absent
    BY <1>4 DEF Prov!ProvisionCtfd, Prov!Refuses, Served
  <2>2. file["ctfdSpec"] = key
    BY <2>1 DEF Prov!Readable, OneDrawing, Credential
  <2>3. PICK ids \in {1, 2} : Prov!Commits("ctfd", Prov!FoundOrCreated("ctfd", key, ids), "ctfdInventory")
    BY <1>4, <2>1, <2>2 DEF Prov!ProvisionCtfd
  <2> DEFINE row == Prov!FoundOrCreated("ctfd", key, ids)
  <2>4. /\ row \in VolumeRow /\ row.database = volume["ctfd"].database
        /\ row.account = IF volume["ctfd"].account = Prov!Absent THEN key ELSE volume["ctfd"].account
    BY <1>1, FoundOrCreatedRow DEF Prov!App
  <2> HIDE DEF row
  <2>5. at' = "ctfdInventory" /\ volume' = [volume EXCEPT !["ctfd"] = row]
    BY <2>3 DEF Prov!Commits, Prov!Goes, row
  <2>6. /\ volume' \in [Prov!App -> VolumeRow] /\ volume'["ctfd"] = row
        /\ \A a \in Prov!App \ {"ctfd"} : volume'[a] = volume[a]
    BY <2>4, <2>5 DEF SetupTyped, Prov!App
  <2>7. row.account \in {volume["ctfd"].account, key}
    BY <2>4
  <2>8. OneVolume'
    <3>1. \A a \in Prov!App : volume'[a].database = volume[a].database
      BY <2>4, <2>6
    <3>2. row.database = key => row.account \in {Prov!Absent, key}
      BY <2>4, <2>7 DEF OneVolume
    <3> QED BY <1>1, <2>1, <2>6, <3>1, <3>2 DEF OneVolume, Prov!App
  <2>9. Served(at)'
    BY <1>1, <2>4, <2>5, <2>6 DEF Served, Prov!Connects, After3, After4, After5, Prov!App
  <2> QED BY <1>1, <2>1, <2>5, <2>6, <2>8, <2>9, VolumeKeeps DEF SetupStep, After3
<1> QED BY <1>2, <1>3, <1>4

LEMMA ConvergeSteps ==
  ASSUME SetupInv, Prov!ProvisionGuacamole \/ Prov!ProvisionWazuh
  PROVE  SetupInv'
<1> USE DEF SetupInv
<1>1. /\ UNCHANGED <<file, verified, running, done, key>> /\ at \in {"connections", "evidence"}
      /\ key \in Nat
      /\ Prov!Connects("iris") /\ Prov!Connects("ctfd") /\ file["secrets"] = key /\ key > 0
      /\ file["team"] # Prov!Torn
      /\ volume["ctfd"].account # Prov!Absent /\ (at = "evidence" => volume["guacamole"].account = key)
  BY DEF Prov!ProvisionGuacamole, Prov!ProvisionWazuh, Prov!NoDraw, SetupTyped, Served, After4,
     After5, Reached, First2, Prov!Refuses,
     Prov!Commits
<1>2. CASE Prov!Refuses
  <2>1. at' = "idle" /\ volume' \in [Prov!App -> VolumeRow] /\ OneVolume'
    BY <1>1, <1>2 DEF Prov!Refuses, OneVolume, SetupTyped
  <2> QED BY <1>1, <2>1, VolumeKeeps DEF SetupStep, Served, After3, After4, After5
<1>3. CASE Prov!ProvisionGuacamole /\ ~Prov!Refuses
  <2>1. at = "connections" /\ file["sql"] = key
    BY <1>3 DEF Prov!ProvisionGuacamole, Prov!Readable, OneDrawing, Credential
  <2>2. at' = "verify5"
        /\ volume' = [volume EXCEPT !["guacamole"] = [volume["guacamole"] EXCEPT !.account = key]]
    BY <1>3, <2>1 DEF Prov!ProvisionGuacamole, Prov!Commits, Prov!Goes
  <2>3. /\ volume' \in [Prov!App -> VolumeRow]
        /\ \A a \in Prov!App \ {"guacamole"} : volume'[a] = volume[a]
        /\ volume'["guacamole"].account = key
        /\ volume'["guacamole"].database = volume["guacamole"].database
    BY <1>1, <2>2 DEF SetupTyped, Prov!App, VolumeRow
  <2>4. OneVolume'
    <3>1. \A a \in Prov!App : volume'[a].database = volume[a].database
      BY <2>3
    <3> QED BY <1>1, <2>3, <3>1 DEF OneVolume, Prov!App
  <2>5. Served(at)'
    BY <1>1, <2>2, <2>3 DEF Served, Prov!Connects, After3, After4, After5, Prov!App
  <2> QED BY <1>1, <2>1, <2>2, <2>3, <2>4, <2>5, VolumeKeeps DEF SetupStep, After4
<1>4. CASE Prov!ProvisionWazuh /\ ~Prov!Refuses
  <2>1. at' = "verify6"
        /\ volume' = [volume EXCEPT !["wazuh"] = [volume["wazuh"] EXCEPT !.account = file["secrets"]]]
    BY <1>4 DEF Prov!ProvisionWazuh, Prov!Commits, Prov!Goes
  <2>2. /\ volume' \in [Prov!App -> VolumeRow] /\ \A a \in Prov!App \ {"wazuh"} : volume'[a] = volume[a]
        /\ volume'["wazuh"].database = volume["wazuh"].database /\ at = "evidence"
    BY <1>1, <1>4, <2>1 DEF SetupTyped, Prov!App, VolumeRow, Prov!ProvisionWazuh
  <2>3. OneVolume'
    <3>1. \A a \in Prov!App : volume'[a].database = volume[a].database
      BY <2>2
    <3> QED BY <1>1, <2>2, <3>1 DEF OneVolume, Prov!App
  <2>4. Served(at)'
    BY <1>1, <2>1, <2>2 DEF Served, Prov!Connects, After3, After4, After5, Prov!App
  <2> QED BY <1>1, <2>1, <2>2, <2>3, <2>4, VolumeKeeps DEF SetupStep, After5
<1> QED BY <1>2, <1>3, <1>4

-----------------------------------------------------------------------------
(* The stages of up, its beginning and its end *)

LEMMA StageTables ==
  ASSUME NEW i \in Prov!Stage
  PROVE  \/ i = 2 /\ Prov!ENTER[i] = "enter2" /\ Prov!FIRST[i] = "secrets" /\ Prov!VERIFY[i] = "verify2"
            /\ Prov!ENTER[i + 1] = "enter3"
         \/ i = 3 /\ Prov!ENTER[i] = "enter3" /\ Prov!FIRST[i] = "applications"
            /\ Prov!VERIFY[i] = "verify3" /\ Prov!ENTER[i + 1] = "enter4"
         \/ i = 4 /\ Prov!ENTER[i] = "enter4" /\ Prov!FIRST[i] = "iris"
            /\ Prov!VERIFY[i] = "verify4" /\ Prov!ENTER[i + 1] = "enter5"
         \/ i = 5 /\ Prov!ENTER[i] = "enter5" /\ Prov!FIRST[i] = "connections"
            /\ Prov!VERIFY[i] = "verify5" /\ Prov!ENTER[i + 1] = "enter6"
         \/ i = 6 /\ Prov!ENTER[i] = "enter6" /\ Prov!FIRST[i] = "evidence"
            /\ Prov!VERIFY[i] = "verify6" /\ Prov!ENTER[i + 1] = "enter7"
         \/ i = 7 /\ Prov!ENTER[i] = "enter7" /\ Prov!FIRST[i] = "config"
            /\ Prov!VERIFY[i] = "verify7" /\ Prov!ENTER[i + 1] = "over"
<1>1. i \in {2, 3, 4, 5, 6, 7}
  BY DEF Prov!Stage
<1>2. /\ Prov!ENTER[2] = "enter2" /\ Prov!ENTER[3] = "enter3" /\ Prov!ENTER[4] = "enter4"
      /\ Prov!ENTER[5] = "enter5"
      /\ Prov!ENTER[6] = "enter6" /\ Prov!ENTER[7] = "enter7" /\ Prov!ENTER[8] = "over"
  BY DEF Prov!ENTER
<1>3. /\ Prov!FIRST[2] = "secrets" /\ Prov!FIRST[3] = "applications" /\ Prov!FIRST[4] = "iris"
      /\ Prov!FIRST[5] = "connections"
      /\ Prov!FIRST[6] = "evidence" /\ Prov!FIRST[7] = "config"
  BY DEF Prov!FIRST
<1>4. /\ Prov!VERIFY[2] = "verify2" /\ Prov!VERIFY[3] = "verify3" /\ Prov!VERIFY[4] = "verify4"
      /\ Prov!VERIFY[5] = "verify5"
      /\ Prov!VERIFY[6] = "verify6" /\ Prov!VERIFY[7] = "verify7"
  BY DEF Prov!VERIFY
<1> QED BY <1>1, <1>2, <1>3, <1>4

\* What an application or a file answers to the probe of a stage is what the steps after
\* the stage rely on.
LEMMA PassedStage ==
  ASSUME SetupInv, NEW i \in Prov!Stage, Prov!Probe(i), at \in {Prov!ENTER[i], Prov!VERIFY[i]},
         at = Prov!ENTER[i] => i \in verified
  PROVE  /\ at # "idle"
         /\ Prov!ENTER[i + 1] \in SetupStep \ {"idle", "enter2", "secrets", "team", "databases"}
         /\ file["secrets"] = key /\ key > 0 /\ file["team"] # Prov!Torn
         /\ Prov!ENTER[i + 1] = "over" => file["state"] = Prov!ActualIds
         /\ i = 5 => volume["guacamole"].account = key
         /\ Served(Prov!ENTER[i + 1])
<1> USE DEF SetupInv
<1>1. key \in Nat
  BY DEF SetupTyped
<1>2. CASE i = 2
  <2>1. at \in {"enter2", "verify2"} /\ Prov!ENTER[i + 1] = "enter3" /\ (at = "enter2" => 2 \in verified)
    BY <1>2, StageTables
  <2>2. file["secrets"] = key /\ key > 0
    BY <1>1, <1>2 DEF Prov!Probe, OneDrawing, Credential, Prov!Absent
  <2>3. file["team"] # Prov!Torn
    BY <2>1 DEF OneDrawing, Reached, First2
  <2> QED BY <1>2, <2>1, <2>2, <2>3 DEF SetupStep, After2, Served, After3, After4, After5
<1>3. CASE i = 3
  <2>1. at \in {"enter3", "verify3"} /\ Prov!ENTER[i + 1] = "enter4"
    BY <1>3, StageTables
  <2>2. Prov!Connects("iris") /\ Prov!Connects("ctfd")
    BY <1>3 DEF Prov!Probe, Prov!ApplicationsServe
  <2> QED BY <1>3, <2>1, <2>2 DEF SetupStep, After2, Served, After3, After4, After5, Reached, First2
<1>4. CASE i = 4
  <2>1. at \in {"enter4", "verify4"} /\ Prov!ENTER[i + 1] = "enter5"
    BY <1>4, StageTables
  <2>2. volume["ctfd"].account # Prov!Absent
    BY <1>4 DEF Prov!Probe
  <2> QED BY <1>4, <2>1, <2>2 DEF SetupStep, After2, Served, After3, After4, After5, Reached, First2
<1>5. CASE i = 5
  <2>1. at \in {"enter5", "verify5"} /\ Prov!ENTER[i + 1] = "enter6" /\ (at = "enter5" => 5 \in verified)
    BY <1>5, StageTables
  <2>2. volume["guacamole"].account = key
    BY <1>5, <2>1 DEF Prov!Probe, OneVolume, Served
  <2> QED BY <1>5, <2>1, <2>2 DEF SetupStep, After2, Served, After3, After4, After5, Reached, First2
<1>6. CASE i = 6
  <2>1. at \in {"enter6", "verify6"} /\ Prov!ENTER[i + 1] = "enter7"
    BY <1>6, StageTables
  <2> QED BY <1>6, <2>1 DEF SetupStep, After2, Served, After3, After4, After5, Reached, First2
<1>7. CASE i = 7
  <2>1. at \in {"enter7", "verify7"} /\ Prov!ENTER[i + 1] = "over"
    BY <1>7, StageTables
  <2>2. file["state"] = Prov!ActualIds
    BY <1>7 DEF Prov!Probe, Prov!Preflight
  <2> QED BY <1>7, <2>1, <2>2 DEF SetupStep, After2, Served, After3, After4, After5, Reached, First2
<1> QED BY <1>2, <1>3, <1>4, <1>5, <1>6, <1>7, StageTables

LEMMA EnteredStage ==
  ASSUME SetupInv, NEW i \in Prov!Stage, at = Prov!ENTER[i]
  PROVE  Reached(Prov!FIRST[i]) /\ Served(Prov!FIRST[i]) /\ Prov!FIRST[i] \in SetupStep /\ at # "idle"
BY StageTables DEF SetupInv, Reached, Served, SetupStep, First2, After2, After3, After4, After5

LEMMA StageSteps ==
  ASSUME SetupInv, NEW i \in Prov!Stage, Prov!EnterStage(i) \/ Prov!VerifyStage(i)
  PROVE  SetupInv'
<1> USE DEF SetupInv
<1>1. UNCHANGED <<file, volume, running, done, key>> /\ verified \in SUBSET Prov!Stage
      /\ at # "idle" /\ ~done
  BY StageTables DEF Prov!EnterStage, Prov!VerifyStage, SetupTyped, Reached
<1>2. file["secrets"] = Prov!Absent => verified = {}
  BY DEF OneDrawing
<1>3. /\ file' \in [Prov!File -> Int] /\ volume' \in [Prov!App -> VolumeRow]
      /\ \A f \in Credential : file'[f] \in {file[f], Prov!Torn, key}
  BY <1>1 DEF SetupTyped
<1>4. \A v : v \subseteq verified /\ verified' = v => OneVolume'
  BY <1>1 DEF OneVolume
<1>5. CASE /\ Prov!Probe(i) /\ at' = Prov!ENTER[i + 1] /\ verified' = verified \cup {i}
           /\ at \in {Prov!ENTER[i], Prov!VERIFY[i]} /\ (at = Prov!ENTER[i] => i \in verified)
  <2>1. /\ at' \in SetupStep \ {"idle", "enter2", "secrets", "team", "databases"}
        /\ file["secrets"] = key /\ key > 0 /\ file["team"] # Prov!Torn
        /\ at' = "over" => file["state"] = Prov!ActualIds
        /\ i = 5 => volume["guacamole"].account = key
        /\ Served(at')
    BY <1>5, PassedStage
  <2>2. Served(at)'
    BY <1>1, <2>1 DEF Served, Prov!Connects
  <2>3. Reached(at)'
    BY <1>1, <2>1 DEF Reached, Prov!ActualIds
  <2>4. OneVolume'
    BY <1>1, <1>5, <2>1 DEF OneVolume
  <2> QED BY <1>1, <1>3, <1>5, <2>1, <2>2, <2>3, <2>4, SetupStepKeeps DEF Prov!Absent
<1>6. CASE at' = "idle" /\ verified' \subseteq verified
  <2>1. Reached(at)' /\ Served(at)' /\ at' \in SetupStep
    BY <1>6 DEF Reached, Served, SetupStep, After3, After4, After5
  <2> QED BY <1>1, <1>2, <1>3, <1>4, <1>6, <2>1, SetupStepKeeps DEF OneDrawing
<1>7. CASE Prov!EnterStage(i) /\ at' = Prov!FIRST[i] /\ verified' = verified \ {i}
  <2>1. Reached(Prov!FIRST[i]) /\ Served(Prov!FIRST[i]) /\ at' \in SetupStep
    BY <1>7, EnteredStage DEF Prov!EnterStage
  <2>2. Served(at)'
    BY <1>1, <1>7, <2>1 DEF Served, Prov!Connects
  <2>3. Reached(at)'
    BY <1>1, <1>7, <2>1 DEF Reached, Prov!ActualIds
  <2> QED BY <1>1, <1>2, <1>3, <1>4, <1>7, <2>1, <2>2, <2>3, SetupStepKeeps
<1>8. CASE Prov!EnterStage(i)
  <2>1. CASE i \in verified /\ Prov!Probe(i) /\ at' = Prov!ENTER[i + 1] /\ verified' = verified
    <3>1. verified' = verified \cup {i} /\ at = Prov!ENTER[i]
      BY <1>8, <2>1 DEF Prov!EnterStage
    <3> QED BY <1>5, <2>1, <3>1
  <2> QED BY <1>6, <1>7, <1>8, <2>1 DEF Prov!EnterStage, Prov!Goes
<1>9. CASE Prov!VerifyStage(i)
  <2>1. at = Prov!VERIFY[i] /\ Prov!ENTER[i] # Prov!VERIFY[i]
    BY <1>9, StageTables DEF Prov!VerifyStage
  <2>2. CASE Prov!Probe(i)
    BY <1>5, <1>9, <2>1, <2>2 DEF Prov!VerifyStage, Prov!Goes
  <2>3. CASE ~Prov!Probe(i)
    BY <1>6, <1>9, <2>3 DEF Prov!VerifyStage, Prov!Goes
  <2> QED BY <2>2, <2>3
<1> QED BY <1>8, <1>9

LEMMA UpEnds ==
  ASSUME SetupInv, Prov!UpEnd
  PROVE  SetupInv'
<1> USE DEF SetupInv
<1>1. at = "over" /\ at' = "idle" /\ done' = TRUE /\ running' = TRUE
      /\ UNCHANGED <<file, volume, verified, key>>
  BY DEF Prov!UpEnd, Prov!Goes
<1>2. SetupTyped' /\ OneDrawing' /\ OneVolume'
  BY <1>1 DEF SetupTyped, OneDrawing, OneVolume, SetupStep
<1>3. Reached(at)' /\ Served(at)'
  BY <1>1 DEF Reached, Served, After3, After4, After5
<1>4. /\ file["secrets"] = key /\ key > 0 /\ file["team"] # Prov!Torn /\ file["state"] = Prov!ActualIds
      /\ Prov!Connects("iris") /\ Prov!Connects("ctfd")
      /\ volume["ctfd"].account # Prov!Absent /\ volume["guacamole"].account = key
  BY <1>1 DEF Reached, Served, First2, After5
<1>5. \A a \in Prov!App \ {"wazuh"} : volume[a].account = key
  BY <1>4 DEF OneVolume, Prov!Connects, Prov!App
<1>6. file["team"] # Prov!Absent => file["team"] = key
  BY <1>4 DEF OneDrawing, Credential
<1>7. Prov!HandoutWorks'
  BY <1>1, <1>4, <1>5, <1>6 DEF Prov!HandoutWorks, Prov!Connects, Prov!ActualIds
<1> QED BY <1>2, <1>3, <1>7

-----------------------------------------------------------------------------
(* The operator and the disk *)

LEMMA OperatorSteps ==
  ASSUME SetupInv, Prov!UpBegin \/ Prov!Kill \/ Prov!Lose \/ Prov!Down \/ Prov!Wipe \/ Prov!RemoveRuntime
  PROVE  SetupInv'
<1> USE DEF SetupInv
<1>0. at' \in {"idle", "enter2"} /\ key' = key /\ key \in Nat
  BY DEF Prov!UpBegin, Prov!Kill, Prov!Lose, Prov!Down, Prov!Wipe, Prov!RemoveRuntime, Prov!ENTER,
     Prov!Goes, SetupTyped
<1>1. Served(at)'
  BY <1>0 DEF Served, After3, After4, After5
<1>2. Reached(at)'
  BY <1>0 DEF Reached, First2, Prov!UpBegin, Prov!Kill, Prov!Lose, Prov!Down, Prov!Wipe,
     Prov!RemoveRuntime, Prov!Goes, Prov!ENTER
<1>3. CASE Prov!UpBegin \/ Prov!Kill \/ Prov!Down
  <2>1. UNCHANGED <<file, volume, verified, key>> /\ running' \in BOOLEAN /\ done' \in {FALSE, done}
    BY <1>3 DEF Prov!UpBegin, Prov!Kill, Prov!Down, SetupTyped
  <2>2. SetupTyped' /\ OneDrawing' /\ OneVolume'
    BY <1>0, <2>1 DEF SetupTyped, OneDrawing, OneVolume, SetupStep
  <2>3. Prov!HandoutWorks'
    BY <2>1 DEF Prov!HandoutWorks, Prov!Connects, Prov!ActualIds
  <2> QED BY <1>1, <1>2, <2>2, <2>3
<1>4. CASE Prov!Lose
  <2>1. PICK f \in Prov!File :
          /\ file[f] # Prov!Absent
          /\ file' = [file EXCEPT ![f] = IF f \in {"secrets", "facilitator"} THEN Prov!Torn ELSE Prov!Absent]
    BY <1>4 DEF Prov!Lose
  <2>2. /\ UNCHANGED <<volume, verified, running, key>> /\ done' = FALSE /\ file["secrets"] # Prov!Absent
        /\ at' = "idle"
    BY <1>4, <2>1 DEF Prov!Lose, OneDrawing
  <2>3. /\ file' \in [Prov!File -> Int]
        /\ \A g \in Prov!File : file'[g] \in {file[g], Prov!Absent, Prov!Torn}
        /\ file'["secrets"] # Prov!Absent /\ file'["team"] \in {file["team"], Prov!Absent}
    BY <2>1, <2>2 DEF SetupTyped, Prov!File, Prov!Absent, Prov!Torn
  <2>4. OneDrawing'
    BY <2>2, <2>3 DEF OneDrawing, Credential, Prov!File, Prov!Absent, Prov!Torn
  <2>5. OneVolume' /\ SetupTyped'
    BY <2>2, <2>3 DEF OneVolume, SetupTyped, SetupStep
  <2> QED BY <1>1, <1>2, <2>2, <2>4, <2>5 DEF Prov!HandoutWorks
<1>5. CASE Prov!Wipe
  <2>1. UNCHANGED <<file, verified>> /\ ~done' /\ volume' = [a \in Prov!App |-> Prov!NoVolume]
        /\ running' \in BOOLEAN
    BY <1>5 DEF Prov!Wipe
  <2>2. OneVolume'
    BY <1>0, <2>1 DEF OneVolume, Prov!App, Prov!NoVolume, Prov!Absent
  <2>3. OneDrawing'
    BY <1>0, <2>1 DEF OneDrawing
  <2>4. Prov!NoVolume \in VolumeRow
    BY DEF Prov!NoVolume, VolumeRow, Prov!Absent
  <2>5. SetupTyped'
    BY <1>0, <1>5, <2>1, <2>4 DEF SetupTyped, SetupStep, Prov!Wipe
  <2> QED BY <1>1, <1>2, <2>1, <2>2, <2>3, <2>5 DEF Prov!HandoutWorks
<1>6. CASE Prov!RemoveRuntime
  <2>1. /\ file' = [f \in Prov!File |-> Prov!Absent] /\ verified' = {} /\ running' = TRUE
        /\ ~done' /\ volume' = volume
        /\ at' = at /\ done' = FALSE
    BY <1>6 DEF Prov!RemoveRuntime
  <2>2. OneDrawing'
    BY <2>1 DEF OneDrawing, Credential, Prov!File
  <2>3. OneVolume'
    BY <1>0, <2>1 DEF OneVolume
  <2>4. file' \in [Prov!File -> Int]
    BY <2>1 DEF Prov!Absent
  <2>5. SetupTyped'
    BY <1>0, <2>1, <2>4 DEF SetupTyped
  <2> QED BY <1>1, <1>2, <2>1, <2>2, <2>3, <2>5 DEF Prov!HandoutWorks
<1> QED BY <1>3, <1>4, <1>5, <1>6

LEMMA SetupNext == SetupInv /\ [Prov!Next]_Prov!vars => SetupInv'
<1>1. ASSUME SetupInv, UNCHANGED Prov!vars PROVE SetupInv'
  <2>1. UNCHANGED <<file, volume, verified, running, at, done, key>>
    BY <1>1 DEF Prov!vars
  <2>2. SetupTyped' /\ OneDrawing' /\ OneVolume'
    BY <1>1, <2>1 DEF SetupInv, SetupTyped, OneDrawing, OneVolume
  <2>3. Reached(at)' /\ Served(at)' /\ Prov!HandoutWorks'
    BY <1>1, <2>1 DEF SetupInv, Reached, Served, Prov!HandoutWorks, Prov!Connects, Prov!ActualIds
  <2> QED BY <2>2, <2>3 DEF SetupInv
<1> QED BY <1>1, SecretsStep, TeamStep, SpecSteps, FileSteps, StateStep, DatabasesStep,
           AccountSteps, ConvergeSteps,
        StageSteps, UpEnds, OperatorSteps DEF Prov!Next, Prov!UpStep

\* When up ends the handout has the credentials the applications accept, whatever was killed,
\* lost, wiped or started over before, for any number of drawings (LocalStack.up and
\* what it calls: ensure_secrets, bootstrap, provision).
THEOREM HandoutAlwaysWorks == Prov!Spec => []Prov!HandoutWorks
<1>1. SetupInv => Prov!HandoutWorks
  BY DEF SetupInv
<1> QED BY SetupInit, SetupNext, <1>1, PTL DEF Prov!Spec

-----------------------------------------------------------------------------
(***************************************************************************)
(* The participant edge.  Up checks the certificate before it starts the   *)
(* proxy and the relays after; between check and probe only up itself      *)
(* writes the pair (PairAsChecked), and down removes relays one at a time, *)
(* the proxy before the rule (RelaysShut).                                 *)
(***************************************************************************)

\* An idle command has a port too, of no meaning.
AnyPort == Port \cup {CHOOSE p \in Port : TRUE}

EdgeStep == {"idle", "rule", "allow", "forward", "certs", "issue", "certificate", "key", "check",
             "compose", "services", "verified", "unforward", "forbid", "stopped"}

EdgeCommand == [at : EdgeStep, local : Edge!Local, todo : SUBSET Port, port : AnyPort,
            probing : BOOLEAN, applied : BOOLEAN]

EdgeTyped ==
  /\ local \in Edge!Local /\ source \in [pem : Nat \ {0}, key : Nat \ {0}]
  /\ pair \in [pem : Int, key : Int]
  /\ rule \in [Port -> BOOLEAN] /\ proxy \in [Port -> Target \cup {Edge!None}]
  /\ proc \in EdgeCommand

\* What an external pair's copying, and the check of either, have established.
PairAsChecked ==
  /\ proc.at \in {"key", "check"} => Edge!External /\ pair.pem # Edge!Event
  /\ proc.at = "check" => pair.key # Edge!Event
  /\ proc.at \in {"compose", "services", "verified"} =>
       pair.pem = pair.key /\ (pair.pem = Edge!Event <=> proc.local.mode = "generated")

\* The relays down has been through, its own half way.
RelayShut(p) == ~rule[p] /\ proxy[p] = Edge!None
RelaysShut ==
  /\ proc.at = "unforward" => \A p \in Edge!Configured(proc.local) \ proc.todo : RelayShut(p)
  /\ proc.at = "forbid" =>
       /\ proc.port \in Port /\ proxy[proc.port] = Edge!None
       /\ \A p \in Edge!Configured(proc.local) \ (proc.todo \cup {proc.port}) : RelayShut(p)

EdgeInv == EdgeTyped /\ PairAsChecked /\ RelaysShut /\ Edge!EdgeAsConfigured

LEMMA IdleIsCommand ==
  /\ Edge!Idle \in EdgeCommand
  /\ Edge!NoRelays \in [Port -> Target \cup {Edge!None}]
<1>1. Edge!NoRelays \in [Port -> Target \cup {Edge!None}]
  BY DEF Edge!NoRelays
<1>2. [mode |-> "generated", relays |-> Edge!NoRelays] \in Edge!Local
  BY <1>1 DEF Edge!Local
<1>3. (CHOOSE p \in Port : TRUE) \in AnyPort
  BY DEF AnyPort
<1> QED BY <1>1, <1>2, <1>3 DEF Edge!Idle, EdgeCommand, EdgeStep

LEMMA EdgeInit == Edge!Init => EdgeInv
<1> SUFFICES ASSUME Edge!Init PROVE EdgeInv
  OBVIOUS
<1>1. EdgeTyped
  BY IdleIsCommand DEF Edge!Init, EdgeTyped, Edge!NoPair
<1>2. proc.at = "idle"
  BY DEF Edge!Init, Edge!Idle
<1> QED BY <1>1, <1>2 DEF EdgeInv, PairAsChecked, RelaysShut, Edge!EdgeAsConfigured

LEMMA EdgeGoKeeps ==
  ASSUME proc \in EdgeCommand, NEW s \in EdgeStep, Edge!Go(s)
  PROVE  /\ proc' \in EdgeCommand /\ proc'.at = s
         /\ proc'.local = proc.local /\ proc'.todo = proc.todo /\ proc'.port = proc.port
BY DEF EdgeCommand, Edge!Go

\* A step to where no check, copy or removal of a relay has begun.
LEMMA EdgeElsewhere ==
  ASSUME EdgeTyped', proc'.at \notin {"key", "check", "compose", "services", "verified", "unforward",
                                      "forbid", "stopped"}
  PROVE  EdgeInv'
BY DEF EdgeInv, PairAsChecked, RelaysShut, Edge!EdgeAsConfigured

LEMMA EdgeFailKeeps ==
  ASSUME EdgeInv, Edge!Fail \/ Edge!Refused,
         UNCHANGED <<local, source, pair, rule, proxy>>
  PROVE  EdgeInv'
<1>1. CASE Edge!Fail
  <2>1. proc'.at = "idle" /\ EdgeTyped'
    BY <1>1, IdleIsCommand DEF Edge!Fail, Edge!Idle, EdgeInv, EdgeTyped
  <2> QED BY <2>1, EdgeElsewhere
<1>2. CASE ~Edge!Fail
  <2>1. proc' = [proc EXCEPT !.at = "rule", !.todo = Edge!Configured(proc.local), !.probing = FALSE]
    BY <1>2 DEF Edge!Refused
  <2>2. proc'.at = "rule" /\ EdgeTyped'
    BY <2>1 DEF EdgeInv, EdgeTyped, EdgeCommand, EdgeStep, Edge!Configured
  <2> QED BY <2>2, EdgeElsewhere
<1> QED BY <1>1, <1>2

\* The organizer's steps and a kill.
LEMMA OrganizerKeeps ==
  ASSUME EdgeInv, Edge!Reconfigure \/ Edge!Renew \/ Edge!Kill
  PROVE  EdgeInv'
<1>1. CASE Edge!Reconfigure \/ Edge!Renew
  <2>1. EdgeTyped'
    BY <1>1 DEF Edge!Reconfigure, Edge!Renew, EdgeInv, EdgeTyped
  <2>2. UNCHANGED <<pair, served, rule, proxy, proc>>
    BY <1>1 DEF Edge!Reconfigure, Edge!Renew
  <2> QED BY <2>1, <2>2 DEF EdgeInv, PairAsChecked, Edge!External, RelaysShut, RelayShut,
             Edge!Configured, Edge!EdgeAsConfigured
<1>2. CASE Edge!Kill
  BY <1>2, EdgeFailKeeps DEF Edge!Kill
<1> QED BY <1>1, <1>2

LEMMA EdgeBeginKeeps ==
  ASSUME EdgeInv, (\E probing \in BOOLEAN : Edge!UpBegin(probing)) \/ Edge!DownBegin
  PROVE  EdgeInv'
<1>1. Edge!Configured(local) \in SUBSET Port /\ local \in Edge!Local
  BY DEF Edge!Configured, EdgeInv, EdgeTyped
<1>2. CASE \E probing \in BOOLEAN : Edge!UpBegin(probing)
  <2>1. proc'.at \in {"certificate", "rule"} /\ EdgeTyped'
    BY <1>1, <1>2, IdleIsCommand DEF Edge!UpBegin, EdgeInv, EdgeTyped, EdgeCommand, EdgeStep
  <2> QED BY <2>1, EdgeElsewhere
<1>3. CASE Edge!DownBegin
  <2>1. /\ proc'.at = "unforward" /\ proc'.local = local /\ proc'.todo = Edge!Configured(local)
        /\ EdgeTyped'
    BY <1>1, <1>3, IdleIsCommand DEF Edge!DownBegin, EdgeInv, EdgeTyped, EdgeCommand, EdgeStep
  <2> QED BY <2>1 DEF EdgeInv, PairAsChecked, RelaysShut, Edge!EdgeAsConfigured, Edge!Configured
<1> QED BY <1>2, <1>3

\* The relays and the certificates of up.
LEMMA EdgeSetupKeeps ==
  ASSUME EdgeInv,
         (\E p \in Port : Edge!RemoveRule(p)) \/ Edge!AddRule \/ Edge!Forward \/ Edge!RenderTls
         \/ Edge!GenerateCa \/ Edge!IssueNodes \/ (Edge!PreserveCa /\ ~Edge!Fail)
  PROVE  EdgeInv'
<1>1. CASE \E p \in Port : Edge!RemoveRule(p)
  <2>1. PICK p \in Port : proc' = [proc EXCEPT !.at = "allow", !.port = p, !.todo = @ \ {p}]
    BY <1>1 DEF Edge!RemoveRule
  <2>2. proc' \in EdgeCommand /\ proc'.at = "allow"
    BY <2>1 DEF EdgeInv, EdgeTyped, EdgeCommand, EdgeStep, AnyPort
  <2>3. EdgeTyped'
    BY <1>1, <2>2 DEF Edge!RemoveRule, EdgeInv, EdgeTyped
  <2> QED BY <2>2, <2>3, EdgeElsewhere
<1>2. proc.local.relays \in [Port -> Target \cup {Edge!None}]
  BY DEF EdgeInv, EdgeTyped, EdgeCommand, Edge!Local
<1>3. CASE ~(\E p \in Port : Edge!RemoveRule(p))
  <2>1. PICK s \in {"forward", "rule", "certs", "issue", "certificate"} : Edge!Go(s)
    BY <1>3 DEF Edge!AddRule, Edge!Forward, Edge!RenderTls, Edge!GenerateCa, Edge!IssueNodes,
       Edge!PreserveCa
  <2>2. proc' \in EdgeCommand /\ proc'.at = s
    BY <2>1, EdgeGoKeeps DEF EdgeStep, EdgeInv, EdgeTyped
  <2>3. rule' \in [Port -> BOOLEAN] /\ proxy' \in [Port -> Target \cup {Edge!None}]
    BY <1>2, <1>3 DEF EdgeInv, EdgeTyped, Edge!AddRule, Edge!Forward, Edge!RenderTls,
       Edge!GenerateCa, Edge!IssueNodes, Edge!PreserveCa
  <2>4. pair' \in [pem : Int, key : Int] /\ UNCHANGED <<local, source>>
    BY <1>3 DEF EdgeInv, EdgeTyped, Edge!AddRule, Edge!Forward, Edge!RenderTls, Edge!GenerateCa,
       Edge!IssueNodes, Edge!PreserveCa, Edge!Event
  <2>5. EdgeTyped'
    BY <2>2, <2>3, <2>4 DEF EdgeInv, EdgeTyped
  <2> QED BY <2>1, <2>2, <2>5, EdgeElsewhere
<1> QED BY <1>1, <1>3

LEMMA PairKeeps ==
  ASSUME EdgeInv, Edge!CopyCertificate \/ Edge!CopyKey \/ Edge!CheckPair \/ Edge!CheckGenerated
  PROVE  EdgeInv'
<1>1. CASE Edge!CopyCertificate \/ Edge!CopyKey
  <2>1. EdgeTyped'
    BY <1>1 DEF Edge!CopyCertificate, Edge!CopyKey, Edge!Go, EdgeInv, EdgeTyped, EdgeCommand,
       EdgeStep
  <2>2. /\ proc'.local = proc.local /\ Edge!External
        /\ \/ proc'.at = "key" /\ pair' = [pair EXCEPT !.pem = source.pem]
           \/ proc'.at = "check" /\ pair' = [pair EXCEPT !.key = source.key] /\ proc.at = "key"
    BY <1>1, EdgeGoKeeps DEF Edge!CopyCertificate, Edge!CopyKey, EdgeInv, EdgeTyped, EdgeStep,
       PairAsChecked
  <2>3. source.pem # Edge!Event /\ source.key # Edge!Event
    BY DEF EdgeInv, EdgeTyped, Edge!Event
  <2>4. PairAsChecked'
    <3>1. CASE proc'.at = "key"
      BY <2>1, <2>2, <2>3, <3>1 DEF EdgeInv, EdgeTyped, PairAsChecked, Edge!External
    <3>2. CASE proc'.at = "check"
      BY <2>1, <2>2, <2>3, <3>2 DEF EdgeInv, EdgeTyped, PairAsChecked, Edge!External
    <3> QED BY <2>2, <3>1, <3>2
  <2> QED BY <2>1, <2>2, <2>4 DEF EdgeInv, RelaysShut, Edge!EdgeAsConfigured
<1>2. CASE (Edge!CheckPair \/ Edge!CheckGenerated) /\ (Edge!Fail \/ Edge!Refused)
  BY <1>2, EdgeFailKeeps DEF Edge!CheckPair, Edge!CheckGenerated
<1>3. CASE (Edge!CheckPair \/ Edge!CheckGenerated) /\ ~Edge!Refused
  <2>1. EdgeTyped' /\ proc'.local = proc.local /\ proc'.at \in {"services", "compose"} /\ pair' = pair
    BY <1>3 DEF Edge!CheckPair, Edge!CheckGenerated, Edge!Go, EdgeInv, EdgeTyped, EdgeCommand,
       EdgeStep
  <2>2. pair.pem = pair.key /\ (pair.pem = Edge!Event <=> proc.local.mode = "generated")
    BY <1>3 DEF Edge!CheckPair, Edge!CheckGenerated, EdgeInv, EdgeTyped, EdgeCommand, EdgeStep,
       Edge!Local, PairAsChecked, Edge!External
  <2> QED BY <2>1, <2>2 DEF EdgeInv, PairAsChecked, RelaysShut, Edge!EdgeAsConfigured
<1> QED BY <1>1, <1>2, <1>3

LEMMA EdgeProbeKeeps ==
  ASSUME EdgeInv, Edge!StartServices \/ Edge!ProbeServices
  PROVE  EdgeInv'
<1>1. CASE Edge!StartServices
  <2>1. proc'.at = "certificate" /\ EdgeTyped'
    BY <1>1 DEF Edge!StartServices, EdgeInv, EdgeTyped, EdgeCommand, EdgeStep
  <2> QED BY <2>1, EdgeElsewhere
<1>2. CASE Edge!ProbeServices /\ Edge!Refused
  BY <1>2, EdgeFailKeeps DEF Edge!ProbeServices
<1>3. CASE Edge!ProbeServices /\ ~Edge!Refused
  <2>1. /\ EdgeTyped' /\ proc'.local = proc.local /\ proc'.at = "verified"
        /\ UNCHANGED <<pair, served, rule, proxy>> /\ proc.at = "services"
    BY <1>3 DEF Edge!ProbeServices, Edge!Go, EdgeInv, EdgeTyped, EdgeCommand, EdgeStep
  <2>2. Edge!RelaysMatch(proc.local) /\ served.mode = proc.local.mode
    BY <1>3 DEF Edge!ProbeServices, Edge!PagesAnswer
  <2> QED BY <2>1, <2>2 DEF EdgeInv, PairAsChecked, RelaysShut, Edge!EdgeAsConfigured,
             Edge!RelaysMatch, Edge!Configured
<1> QED BY <1>2, <1>1, <1>3

\* Down takes one relay after the other away.
LEMMA EdgeDownKeeps ==
  ASSUME EdgeInv, (\E p \in Port : Edge!RemoveProxy(p)) \/ Edge!Forbid \/ Edge!DownEnd
  PROVE  EdgeInv'
<1>1. CASE \E p \in Port : Edge!RemoveProxy(p)
  <2>1. PICK p \in Port : Edge!RemoveProxy(p)
    BY <1>1
  <2>2. /\ proc.at = "unforward" /\ proc'.at = "forbid" /\ proc'.port = p /\ proc'.todo = proc.todo \ {p}
        /\ proc'.local = proc.local /\ proc' \in EdgeCommand
        /\ proxy' = [proxy EXCEPT ![p] = Edge!None] /\ UNCHANGED <<local, source, pair, rule>>
    BY <2>1 DEF Edge!RemoveProxy, EdgeInv, EdgeTyped, EdgeCommand, EdgeStep, AnyPort
  <2>3. EdgeTyped'
    BY <2>2 DEF EdgeInv, EdgeTyped
  <2>4. RelaysShut'
    BY <2>2 DEF EdgeInv, EdgeTyped, RelaysShut, RelayShut, Edge!Configured
  <2> QED BY <2>2, <2>3, <2>4 DEF EdgeInv, PairAsChecked, Edge!EdgeAsConfigured
<1>2. CASE Edge!Forbid
  <2>1. /\ proc.at = "forbid" /\ proc'.at = "unforward" /\ proc'.todo = proc.todo
        /\ proc'.local = proc.local /\ proc' \in EdgeCommand
        /\ rule' = [rule EXCEPT ![proc.port] = FALSE] /\ UNCHANGED <<local, source, pair, proxy>>
    BY <1>2 DEF Edge!Forbid, Edge!Go, EdgeInv, EdgeTyped, EdgeCommand, EdgeStep
  <2>2. EdgeTyped'
    BY <2>1 DEF EdgeInv, EdgeTyped
  <2>3. RelaysShut'
    BY <2>1 DEF EdgeInv, EdgeTyped, RelaysShut, RelayShut, Edge!Configured
  <2> QED BY <2>1, <2>2, <2>3 DEF EdgeInv, PairAsChecked, Edge!EdgeAsConfigured
<1>3. CASE Edge!DownEnd
  <2>1. /\ proc.at = "unforward" /\ proc.todo = {} /\ proc'.at = "stopped"
        /\ proc'.local = proc.local /\ proc' \in EdgeCommand
        /\ UNCHANGED <<local, source, pair, rule, proxy>>
    BY <1>3 DEF Edge!DownEnd, Edge!Go, EdgeInv, EdgeTyped, EdgeCommand, EdgeStep
  <2> QED BY <2>1 DEF EdgeInv, EdgeTyped, RelaysShut, RelayShut, Edge!Configured, PairAsChecked,
             Edge!EdgeAsConfigured
<1> QED BY <1>1, <1>2, <1>3

LEMMA EdgeNext == EdgeInv /\ [Edge!Next]_Edge!vars => EdgeInv'
<1> SUFFICES ASSUME EdgeInv, [Edge!Next]_Edge!vars PROVE EdgeInv'
  OBVIOUS
<1>1. CASE Edge!PreserveCa /\ Edge!Fail
  BY <1>1, EdgeFailKeeps DEF Edge!PreserveCa
<1>2. CASE UNCHANGED Edge!vars
  BY <1>2 DEF Edge!vars, EdgeInv, EdgeTyped, PairAsChecked, Edge!External, RelaysShut, RelayShut,
     Edge!Configured, Edge!EdgeAsConfigured
<1> QED BY <1>1, <1>2, OrganizerKeeps, EdgeBeginKeeps, EdgeSetupKeeps, PairKeeps, EdgeProbeKeeps,
           EdgeDownKeeps DEF Edge!Next

\* Whatever is killed, renewed or reconfigured in between, an up whose probe passed has left the
\* relays it read of, and a proxy with the pair it read of; a down that ended has left no
\* relay (LocalStack, participant_relay).
THEOREM EdgeIsAsConfigured == Edge!Spec => []Edge!EdgeAsConfigured
<1>1. EdgeInv => Edge!EdgeAsConfigured
  BY DEF EdgeInv
<1> QED BY EdgeInit, EdgeNext, <1>1, PTL DEF Edge!Spec

-----------------------------------------------------------------------------
(***************************************************************************)
(* The rehearsal board.  What the ledger says of the clock and of the      *)
(* releases is computed over its events, so the section begins with what   *)
(* one more event does to each (ClockAppend, QuietAppend, TransitionAppend *)
(* and ReleasesAppend).  A request holds the database from its reading of  *)
(* the ledger to its comment, and a transition from its own reading to its *)
(* saving (Holding), which is why no transition is saved behind a comment  *)
(* it should have counted (Clocked); directories, ledger and log are       *)
(* written in this order, one release at a time (Order).                   *)
(***************************************************************************)

\* Every set of numbers has a least one: induction, by the least counterexample.
LEMMA LeastNat ==
  ASSUME NEW T \in SUBSET Nat, T # {}
  PROVE  \E x \in T : \A y \in T : x <= y
<1> DEFINE R == {ss \in Nat \X Nat : ss[1] < ss[2]}
<1>1. IsWellFoundedOn(R, Nat)
  BY NatLessThanWellFounded DEF OpToRel
<1> HIDE DEF R
<1>2. PICK x \in T : \A y \in T : ~(<<y, x>> \in R)
  BY <1>1, WFMin
<1>3. \A y \in T : ~(y < x)
  BY <1>2 DEF R
<1> QED BY <1>3

\* The numbers up to N that begin with 0 and go on with the next are all the numbers up to N.
LEMMA Upward ==
  ASSUME NEW N \in Nat, NEW T, 0 \in T, \A n \in 1 .. N : n - 1 \in T => n \in T
  PROVE  0 .. N \subseteq T
<1> DEFINE Bad == 0 .. N \ T
<1>1. ASSUME Bad # {} PROVE FALSE
  <2>1. PICK m \in Bad : \A k \in Bad : m <= k
    <3>1. Bad \subseteq Nat
      OBVIOUS
    <3> HIDE DEF Bad
    <3> QED BY <1>1, <3>1, LeastNat
  <2>2. m \in 1 .. N
    BY <2>1
  <2>3. m - 1 \in 0 .. N /\ ~(m <= m - 1)
    BY <2>2
  <2>4. m - 1 \in T
    BY <2>1, <2>3
  <2> QED BY <2>1, <2>2, <2>4
<1> QED BY <1>1

Kind == Board!Transitions \cup {"decision", "release"}
Event == [kind : Kind, when : Nat, inject : Nat]
Clocks == [total : Int, anchor : Int, started : BOOLEAN, paused : BOOLEAN]

LEMMA AdvanceTyped ==
  ASSUME NEW clock \in Clocks, NEW e \in Event
  PROVE  Board!Advance(clock, e) \in Clocks
BY DEF Board!Advance, Clocks, Event

\* The clock after each event of a ledger is the one before it, advanced.
ClockTo(s, f, n) ==
  /\ f \in [0 .. n -> Clocks] /\ f[0] = Board!Stopped
  /\ \A k \in 1 .. n : f[k] = Board!Advance(f[k - 1], s[k])

LEMMA ClockExists ==
  ASSUME NEW s \in Seq(Event)
  PROVE  \E f : ClockTo(s, f, Len(s))
<1> DEFINE T == {n \in 0 .. Len(s) : \E f : ClockTo(s, f, n)}
<1>0. Len(s) \in Nat
  OBVIOUS
<1>1. 0 \in T
  <2> DEFINE f == [n \in 0 .. 0 |-> Board!Stopped]
  <2>1. ClockTo(s, f, 0)
    BY DEF ClockTo, Board!Stopped, Clocks
  <2> QED BY <1>0, <2>1
<1>2. ASSUME NEW n \in 1 .. Len(s), n - 1 \in T PROVE n \in T
  <2>1. PICK f : ClockTo(s, f, n - 1)
    BY <1>2
  <2> DEFINE last == Board!Advance(f[n - 1], s[n])
             g == [k \in 0 .. n |-> IF k = n THEN last ELSE f[k]]
  <2>2. last \in Clocks
    <3>1. f[n - 1] \in Clocks /\ s[n] \in Event
      BY <2>1 DEF ClockTo
    <3> QED BY <3>1, AdvanceTyped
  <2>3. g \in [0 .. n -> Clocks] /\ g[0] = Board!Stopped
    <3> HIDE DEF last
    <3> QED BY <2>1, <2>2 DEF ClockTo
  <2>4. \A k \in 1 .. n : g[k] = Board!Advance(g[k - 1], s[k])
    <3>1. ASSUME NEW k \in 1 .. n - 1 PROVE g[k] = Board!Advance(g[k - 1], s[k])
      <4>1. g[k] = f[k] /\ g[k - 1] = f[k - 1]
        OBVIOUS
      <4> QED BY <2>1, <4>1 DEF ClockTo
    <3>2. g[n] = last /\ g[n - 1] = f[n - 1]
      OBVIOUS
    <3>3. g[n] = Board!Advance(g[n - 1], s[n])
      BY <3>2
    <3>4. \A k \in 1 .. n : k = n \/ k \in 1 .. n - 1
      OBVIOUS
    <3> HIDE DEF g
    <3> QED BY <3>1, <3>3, <3>4
  <2>5. ClockTo(s, g, n)
    BY <2>3, <2>4 DEF ClockTo
  <2> QED BY <2>5
<1>3. 0 .. Len(s) \subseteq T
  <2> HIDE DEF T
  <2> QED BY <1>0, <1>1, <1>2, Upward
<1> QED BY <1>0, <1>3

LEMMA ClockSteps ==
  ASSUME NEW s \in Seq(Event)
  PROVE  ClockTo(s, Board!Clock(s), Len(s))
<1> DEFINE R(g) == [n \in 0 .. Len(s) |-> IF n = 0 THEN Board!Stopped ELSE Board!Advance(g[n - 1], s[n])]
<1>0. Len(s) \in Nat
  OBVIOUS
<1>1. PICK f : ClockTo(s, f, Len(s))
  BY ClockExists
<1>2. f = R(f)
  BY <1>0, <1>1 DEF ClockTo
<1>3. Board!Clock(s) = R(Board!Clock(s))
  BY <1>2 DEF Board!Clock
<1>4. Board!Clock(s)[0] = Board!Stopped
      /\ \A n \in 1 .. Len(s) : Board!Clock(s)[n] = Board!Advance(Board!Clock(s)[n - 1], s[n])
  BY <1>0, <1>3
<1>5. Board!Clock(s) = f
  <2> DEFINE T == {n \in 0 .. Len(s) : Board!Clock(s)[n] = f[n]}
  <2>1. 0 \in T
    BY <1>0, <1>1, <1>4 DEF ClockTo
  <2>2. \A n \in 1 .. Len(s) : n - 1 \in T => n \in T
    BY <1>1, <1>4 DEF ClockTo
  <2>3. 0 .. Len(s) \subseteq T
    <3> HIDE DEF T
    <3> QED BY <1>0, <2>1, <2>2, Upward
  <2> QED BY <1>1, <1>3, <2>3 DEF ClockTo
<1> QED BY <1>1, <1>5

LEMMA EventsTyped ==
  ASSUME NEW s \in Seq(Event)
  PROVE  Len(s) \in Nat /\ \A k \in 1 .. Len(s) : s[k].when \in Nat /\ s[k].kind \in Kind
<1>1. Len(s) \in Nat /\ \A k \in 1 .. Len(s) : s[k] \in Event
  OBVIOUS
<1> QED BY <1>1 DEF Event

\* What is appended to a ledger does not change the clock before it.
LEMMA ClockAppend ==
  ASSUME NEW s \in Seq(Event), NEW e \in Event
  PROVE  /\ \A n \in 0 .. Len(s) : Board!Clock(Append(s, e))[n] = Board!Clock(s)[n]
         /\ Board!Clock(Append(s, e))[Len(s) + 1] = Board!Advance(Board!Position(s), e)
<1> DEFINE t == Append(s, e)
           T == {n \in 0 .. Len(s) : Board!Clock(t)[n] = Board!Clock(s)[n]}
<1>1. /\ t \in Seq(Event) /\ Len(t) = Len(s) + 1 /\ Len(s) \in Nat /\ t[Len(s) + 1] = e
      /\ \A n \in 1 .. Len(s) : t[n] = s[n]
  OBVIOUS
<1> HIDE DEF t
<1>2. ClockTo(s, Board!Clock(s), Len(s)) /\ ClockTo(t, Board!Clock(t), Len(t))
  BY <1>1, ClockSteps
<1>3. 0 \in T
  BY <1>1, <1>2 DEF ClockTo
<1>4. \A n \in 1 .. Len(s) : n - 1 \in T => n \in T
  BY <1>1, <1>2 DEF ClockTo
<1>5. 0 .. Len(s) \subseteq T
  <2> HIDE DEF T
  <2> QED BY <1>1, <1>3, <1>4, Upward
<1>6. Board!Clock(t)[Len(s) + 1] = Board!Advance(Board!Clock(t)[Len(s)], e)
  BY <1>1, <1>2 DEF ClockTo
<1>7. Board!Clock(t)[Len(s)] = Board!Position(s)
  BY <1>1, <1>5 DEF Board!Position
<1> QED BY <1>5, <1>6, <1>7 DEF t

LEMMA PositionAppend ==
  ASSUME NEW s \in Seq(Event), NEW e \in Event
  PROVE  Board!Position(s) \in Clocks
         /\ Board!Position(Append(s, e)) = Board!Advance(Board!Position(s), e)
<1>1. Len(Append(s, e)) = Len(s) + 1 /\ Len(s) \in Nat
  OBVIOUS
<1>2. Board!Position(Append(s, e)) = Board!Advance(Board!Position(s), e)
  BY <1>1, ClockAppend DEF Board!Position
<1>3. Board!Position(s) \in Clocks
  BY <1>1, ClockSteps DEF ClockTo, Board!Position
<1> QED BY <1>2, <1>3

-----------------------------------------------------------------------------
\* The events that elapsed_at counts for a moment: those before the first later one.
Counted(s, moment, n) ==
  /\ n \in 0 .. Len(s) /\ \A k \in 1 .. n : s[k].when <= moment
  /\ n < Len(s) => s[n + 1].when > moment

LEMMA CountedExists ==
  ASSUME NEW s \in Seq(Event), NEW moment \in Int
  PROVE  \E n : Counted(s, moment, n)
<1> DEFINE Later == {k \in 1 .. Len(s) : s[k].when > moment}
<1>0. Len(s) \in Nat /\ \A k \in 1 .. Len(s) : s[k].when \in Int
  BY EventsTyped
<1>1. CASE Later = {}
  BY <1>0, <1>1 DEF Counted
<1>2. CASE Later # {}
  <2>1. PICK k \in Later : \A j \in Later : k <= j
    <3>1. Later \subseteq Nat
      OBVIOUS
    <3> HIDE DEF Later
    <3> QED BY <1>2, <3>1, LeastNat
  <2>2. Counted(s, moment, k - 1)
    BY <1>0, <2>1 DEF Counted
  <2> QED BY <2>2
<1> QED BY <1>1, <1>2

LEMMA CountedUnique ==
  ASSUME NEW s \in Seq(Event), NEW moment \in Int, NEW m, NEW n, Counted(s, moment, m), Counted(s,
         moment, n)
  PROVE  m = n
<1>0. Len(s) \in Nat /\ \A k \in 1 .. Len(s) : s[k].when \in Int
  BY EventsTyped
<1>1. m \in Int /\ n \in Int
  BY DEF Counted
<1>2. ~(m < n) /\ ~(n < m)
  BY <1>0, <1>1 DEF Counted
<1> QED BY <1>1, <1>2

LEMMA ElapsedCounted ==
  ASSUME NEW s \in Seq(Event), NEW moment \in Int, NEW n, Counted(s, moment, n)
  PROVE  Board!ElapsedAt(s, moment) = Board!Elapsed(Board!Clock(s)[n], moment)
<1> DEFINE upto == CHOOSE m \in 0 .. Len(s) : /\ \A k \in 1 .. m : s[k].when <= moment
                                              /\ m < Len(s) => s[m + 1].when > moment
<1>1. Counted(s, moment, upto)
  BY DEF Counted
<1>2. upto = n
  <2> HIDE DEF upto
  <2> QED BY <1>1, CountedUnique
<1> QED BY <1>2 DEF Board!ElapsedAt

LEMMA AdvanceFields ==
  ASSUME NEW clock \in Clocks, NEW e \in Event, NEW next, next = Board!Advance(clock, e)
  PROVE  /\ next.started <=> (clock.started \/ e.kind = "start")
         /\ next.paused <=> (e.kind = "pause" \/ (clock.paused /\ e.kind # "resume"))
         /\ e.kind \in {"start", "resume"} => next.anchor = e.when /\ next.total = clock.total
         /\ e.kind = "pause" =>
              next.anchor = -1 /\ next.total = clock.total + e.when - clock.anchor
         /\ e.kind \notin Board!Transitions => next.anchor = clock.anchor /\ next.total = clock.total
<1>1. clock.total \in Int /\ clock.anchor \in Int /\ e.when \in Int
  BY DEF Clocks, Event
<1>2. /\ next.started = (clock.started \/ e.kind = "start")
      /\ next.paused = (e.kind = "pause" \/ (clock.paused /\ e.kind # "resume"))
  BY DEF Board!Advance
<1>3. /\ next.total = clock.total + IF e.kind = "pause" THEN e.when - clock.anchor ELSE 0
      /\ next.anchor = IF e.kind \in {"start", "resume"} THEN e.when
                       ELSE IF e.kind = "pause" THEN -1 ELSE clock.anchor
  BY DEF Board!Advance
<1>4. /\ next.started <=> (clock.started \/ e.kind = "start")
      /\ next.paused <=> (e.kind = "pause" \/ (clock.paused /\ e.kind # "resume"))
  BY <1>2, Zenon
<1>5. /\ e.kind \in {"start", "resume"} => next.anchor = e.when /\ next.total = clock.total
      /\ e.kind = "pause" => next.anchor = -1 /\ next.total = clock.total + e.when - clock.anchor
      /\ e.kind \notin Board!Transitions => next.anchor = clock.anchor /\ next.total = clock.total
  BY <1>1, <1>3 DEF Board!Transitions
<1> QED BY <1>4, <1>5, Zenon

\* An event that is no transition leaves every elapsed time what it was.
LEMMA QuietAppend ==
  ASSUME NEW s \in Seq(Event), NEW e \in Event, e.kind \notin Board!Transitions, NEW moment \in Int
  PROVE  Board!ElapsedAt(Append(s, e), moment) = Board!ElapsedAt(s, moment)
<1> DEFINE t == Append(s, e)
<1>1. /\ t \in Seq(Event) /\ Len(t) = Len(s) + 1 /\ Len(s) \in Nat /\ t[Len(s) + 1] = e
      /\ \A n \in 1 .. Len(s) : t[n] = s[n]
  OBVIOUS
<1>2. Board!Clock(t)[Len(s) + 1] = Board!Clock(s)[Len(s)]
      /\ \A n \in 0 .. Len(s) : Board!Clock(t)[n] = Board!Clock(s)[n]
  <2>1. Board!Advance(Board!Position(s), e) = Board!Position(s)
    <3> DEFINE P == Board!Position(s)
               Q == Board!Advance(P, e)
    <3>1. P \in Clocks /\ Q \in Clocks
      BY PositionAppend, AdvanceTyped
    <3>2. /\ Q.total = P.total /\ Q.anchor = P.anchor
          /\ Q.started = P.started /\ Q.paused = P.paused
      <4> HIDE DEF P
      <4>1. e.kind # "start" /\ e.kind # "pause" /\ e.kind # "resume"
        BY DEF Board!Transitions
      <4>2. Q.total = P.total /\ Q.anchor = P.anchor
        BY <3>1, AdvanceFields
      <4>3. (Q.started <=> P.started) /\ (Q.paused <=> P.paused)
        <5> HIDE DEF Q
        <5>1. /\ Q.started <=> (P.started \/ e.kind = "start")
              /\ Q.paused <=> (e.kind = "pause" \/ (P.paused /\ e.kind # "resume"))
          BY <3>1, AdvanceFields DEF Q
        <5> QED BY <4>1, <5>1, Zenon
      <4>4. {P.started, P.paused, Q.started, Q.paused} \subseteq BOOLEAN
        BY <3>1 DEF Clocks
      <4> HIDE DEF Q
      <4> QED BY <4>2, <4>3, <4>4
    <3> HIDE DEF P, Q
    <3>3. P = Q
      <4>1. P = [total |-> P.total, anchor |-> P.anchor, started |-> P.started, paused |-> P.paused]
        BY <3>1 DEF Clocks
      <4>2. Q = [total |-> Q.total, anchor |-> Q.anchor, started |-> Q.started, paused |-> Q.paused]
        BY <3>1 DEF Clocks
      <4> QED BY <3>2, <4>1, <4>2, Zenon
    <3> QED BY <3>3 DEF P, Q
  <2> QED BY <2>1, ClockAppend DEF Board!Position
<1> HIDE DEF t
<1>3. PICK n : Counted(s, moment, n)
  BY CountedExists
<1>4. PICK m : Counted(t, moment, m)
  BY <1>1, CountedExists
<1>5. m = n \/ (n = Len(s) /\ m = Len(s) + 1)
  <2>1. e.when \in Nat
    BY DEF Event
  <2>2. CASE m <= Len(s)
    <3>1. Counted(s, moment, m)
      BY <1>1, <1>4, <2>2 DEF Counted
    <3> QED BY <1>3, <3>1, CountedUnique
  <2>3. CASE m = Len(s) + 1
    <3>1. Counted(s, moment, Len(s))
      BY <1>1, <1>4, <2>3 DEF Counted
    <3> QED BY <1>3, <2>3, <3>1, CountedUnique
  <2> QED BY <1>1, <1>4, <2>2, <2>3 DEF Counted
<1>6. Board!Clock(t)[m] = Board!Clock(s)[n]
  BY <1>1, <1>2, <1>3, <1>5 DEF Counted
<1>7. Board!ElapsedAt(t, moment) = Board!Elapsed(Board!Clock(t)[m], moment)
      /\ Board!ElapsedAt(s, moment) = Board!Elapsed(Board!Clock(s)[n], moment)
  BY <1>1, <1>3, <1>4, ElapsedCounted
<1> QED BY <1>6, <1>7 DEF t

\* What holds of a ledger that only events allowed at their time were appended to.
Sorted(s) == \A j, k \in 1 .. Len(s) : j <= k => s[j].when <= s[k].when

Regular(s) ==
  LET clock == Board!Position(s) IN
  /\ Sorted(s)
  /\ \A k \in 1 .. Len(s) : s[k].kind \in Board!Transitions => clock.started
  /\ clock.paused => clock.started
  /\ clock.anchor = -1 <=> (~clock.started \/ clock.paused)

Follows(s, e) ==
  /\ Board!Allowed(s, e.kind) /\ \A k \in 1 .. Len(s) : s[k].when <= e.when

LEMMA RegularAppend ==
  ASSUME NEW s \in Seq(Event), NEW e \in Event, Regular(s), Follows(s, e)
  PROVE  Regular(Append(s, e)) /\ (Board!Position(s).started => Board!Position(Append(s, e)).started)
<1> DEFINE t == Append(s, e)
<1>1. /\ t \in Seq(Event) /\ Len(t) = Len(s) + 1 /\ Len(s) \in Nat /\ t[Len(s) + 1] = e
      /\ \A n \in 1 .. Len(s) : t[n] = s[n]
  OBVIOUS
<1>2. Board!Position(s) \in Clocks /\ Board!Position(t) = Board!Advance(Board!Position(s), e)
  BY PositionAppend
<1> HIDE DEF t
<1>3. Sorted(t)
  <2>1. \A k \in 1 .. Len(s) : s[k].when \in Nat
    BY EventsTyped
  <2>2. e.when \in Nat
    BY DEF Event
  <2> QED BY <1>1, <2>1, <2>2 DEF Sorted, Regular, Follows
<1> DEFINE P == Board!Position(s)
           Q == Board!Position(t)
<1>4. /\ Q.started <=> (P.started \/ e.kind = "start")
      /\ Q.paused <=> (e.kind = "pause" \/ (P.paused /\ e.kind # "resume"))
      /\ e.kind \in {"start", "resume"} => Q.anchor = e.when
      /\ e.kind = "pause" => Q.anchor = -1
      /\ e.kind \notin Board!Transitions => Q.anchor = P.anchor
  <2> HIDE DEF P, Q
  <2> QED BY <1>2, AdvanceFields DEF P, Q
<1>5. /\ e.kind = "start" => ~P.started
      /\ e.kind = "pause" => P.started /\ ~P.paused
      /\ e.kind = "resume" => P.paused
  BY DEF Follows, Board!Allowed
<1>6. /\ P.paused => P.started
      /\ P.anchor = -1 <=> (~P.started \/ P.paused)
      /\ \A k \in 1 .. Len(s) : s[k].kind \in Board!Transitions => P.started
  BY DEF Regular
<1>7. e.kind \in Kind /\ e.when # -1
  BY DEF Event
<1> HIDE DEF P, Q
<1>8. e.kind \in Board!Transitions => Q.started
  BY <1>4, <1>5, <1>6 DEF Board!Transitions
<1>9. \A k \in 1 .. Len(t) : t[k].kind \in Board!Transitions => Q.started
  BY <1>1, <1>4, <1>6, <1>8
<1>10. (Q.paused => Q.started) /\ (Q.anchor = -1 <=> (~Q.started \/ Q.paused))
  BY <1>4, <1>5, <1>6, <1>7 DEF Kind, Board!Transitions
<1> QED BY <1>3, <1>4, <1>9, <1>10 DEF Regular, t, P, Q

\* A transition leaves the elapsed times of the moments up to its own what they were.
LEMMA TransitionAppend ==
  ASSUME NEW s \in Seq(Event), NEW e \in Event, Regular(s), Follows(s, e),
         NEW moment \in Int, moment <= e.when, Board!Position(s).started
  PROVE  Board!ElapsedAt(Append(s, e), moment) = Board!ElapsedAt(s, moment)
<1> DEFINE t == Append(s, e)
<1>1. /\ t \in Seq(Event) /\ Len(t) = Len(s) + 1 /\ Len(s) \in Nat /\ t[Len(s) + 1] = e
      /\ \A n \in 1 .. Len(s) : t[n] = s[n]
  OBVIOUS
<1>2. Board!Clock(t)[Len(s) + 1] = Board!Advance(Board!Position(s), e) /\ Board!Position(s) \in Clocks
      /\ \A n \in 0 .. Len(s) : Board!Clock(t)[n] = Board!Clock(s)[n]
  BY ClockAppend, PositionAppend
<1> HIDE DEF t
<1>3. PICK n : Counted(s, moment, n)
  BY CountedExists
<1>4. e.when \in Nat /\ e.kind \in Kind /\ \A k \in 1 .. Len(s) : s[k].when \in Nat
  BY EventsTyped DEF Event
<1>5. CASE n < Len(s) \/ moment < e.when
  <2>1. n \in 0 .. Len(s) /\ n \in 0 .. Len(t) /\ Board!Clock(t)[n] = Board!Clock(s)[n]
    BY <1>1, <1>2, <1>3 DEF Counted
  <2>2. n < Len(t) => t[n + 1].when > moment
    BY <1>1, <1>3, <1>4, <1>5, <2>1 DEF Counted
  <2>3. Counted(t, moment, n)
    BY <1>1, <1>3, <2>1, <2>2 DEF Counted
  <2>4. Board!ElapsedAt(t, moment) = Board!Elapsed(Board!Clock(t)[n], moment)
        /\ Board!ElapsedAt(s, moment) = Board!Elapsed(Board!Clock(s)[n], moment)
    BY <1>1, <1>3, <2>3, ElapsedCounted
  <2> QED BY <2>1, <2>4 DEF t
<1>6. CASE n = Len(s) /\ moment = e.when
  <2>1. Counted(t, moment, Len(s) + 1)
    BY <1>1, <1>3, <1>4, <1>6 DEF Counted
  <2>2. Board!ElapsedAt(t, moment) = Board!Elapsed(Board!Advance(Board!Position(s), e), moment)
    BY <1>1, <1>2, <2>1, ElapsedCounted
  <2>3. Board!ElapsedAt(s, moment) = Board!Elapsed(Board!Position(s), moment)
    BY <1>3, <1>6, ElapsedCounted DEF Board!Position
  <2>4. Board!Elapsed(Board!Advance(Board!Position(s), e), moment) = Board!Elapsed(Board!Position(s), moment)
    <3> DEFINE P == Board!Position(s)
               Q == Board!Advance(P, e)
    <3>1. /\ P \in Clocks /\ P.started
          /\ e.kind = "start" => ~P.started
          /\ e.kind = "pause" => P.started /\ ~P.paused
          /\ e.kind = "resume" => P.paused
          /\ P.anchor = -1 <=> (~P.started \/ P.paused)
      BY <1>2 DEF Regular, Follows, Board!Allowed
    <3>2. P.total \in Int /\ P.anchor \in Int
      BY <3>1 DEF Clocks
    <3> HIDE DEF P
    <3>3. /\ Q.started
          /\ e.kind \in {"start", "resume"} => Q.anchor = e.when /\ Q.total = P.total
          /\ e.kind = "pause" => Q.anchor = -1 /\ Q.total = P.total + e.when - P.anchor
          /\ e.kind \notin Board!Transitions => Q.anchor = P.anchor /\ Q.total = P.total
      BY <3>1, AdvanceFields
    <3> HIDE DEF Q
    <3>4. Board!Elapsed(Q, moment) = Board!Elapsed(P, moment)
      BY <1>4, <1>6, <3>1, <3>2, <3>3 DEF Board!Elapsed, Kind, Board!Transitions
    <3> QED BY <3>4 DEF P, Q
  <2> QED BY <2>2, <2>3, <2>4 DEF t
<1> QED BY <1>1, <1>3, <1>4, <1>5, <1>6 DEF Counted

-----------------------------------------------------------------------------
\* The injects of the releases up to each event.
Released(s, f, k) ==
  IF s[k].kind = "release" THEN Append(f[k - 1], s[k].inject) ELSE f[k - 1]

ReleasedTo(s, f, n) ==
  /\ f \in [0 .. n -> Seq(Nat)] /\ f[0] = <<>> /\ \A k \in 1 .. n : f[k] = Released(s, f, k)

LEMMA ReleasedExists ==
  ASSUME NEW s \in Seq(Event)
  PROVE  \E f : ReleasedTo(s, f, Len(s))
<1> DEFINE T == {n \in 0 .. Len(s) : \E f : ReleasedTo(s, f, n)}
<1>0. Len(s) \in Nat
  OBVIOUS
<1>1. 0 \in T
  <2> DEFINE f == [n \in 0 .. 0 |-> <<>>]
  <2>1. f \in [0 .. 0 -> Seq(Nat)] /\ f[0] = <<>>
    OBVIOUS
  <2>2. ReleasedTo(s, f, 0)
    BY <2>1 DEF ReleasedTo
  <2> QED BY <1>0, <2>2
<1>2. ASSUME NEW n \in 1 .. Len(s), n - 1 \in T PROVE n \in T
  <2>1. PICK f : ReleasedTo(s, f, n - 1)
    BY <1>2
  <2> DEFINE last == Released(s, f, n)
             g == [k \in 0 .. n |-> IF k = n THEN last ELSE f[k]]
  <2>2. last \in Seq(Nat)
    <3>1. f[n - 1] \in Seq(Nat)
      BY <2>1 DEF ReleasedTo
    <3>2. s[n].inject \in Nat
      <4>1. s[n] \in Event
        OBVIOUS
      <4> QED BY <4>1 DEF Event
    <3> QED BY <3>1, <3>2 DEF Released
  <2>3. g \in [0 .. n -> Seq(Nat)] /\ g[0] = <<>>
    <3> HIDE DEF last
    <3> QED BY <2>1, <2>2 DEF ReleasedTo
  <2>4. \A k \in 1 .. n : g[k] = Released(s, g, k)
    <3>1. ASSUME NEW k \in 1 .. n - 1 PROVE g[k] = Released(s, g, k)
      <4>1. g[k] = f[k] /\ g[k - 1] = f[k - 1]
        OBVIOUS
      <4>2. f[k] = Released(s, f, k)
        BY <2>1 DEF ReleasedTo
      <4>3. Released(s, g, k) = Released(s, f, k)
        <5> HIDE DEF g
        <5> QED BY <4>1 DEF Released
      <4> QED BY <4>1, <4>2, <4>3
    <3>2. g[n] = last /\ g[n - 1] = f[n - 1]
      OBVIOUS
    <3>3. g[n] = Released(s, g, n)
      <4>1. Released(s, g, n) = Released(s, f, n)
        <5> HIDE DEF g
        <5> QED BY <3>2 DEF Released
      <4> QED BY <3>2, <4>1
    <3>4. \A k \in 1 .. n : k = n \/ k \in 1 .. n - 1
      OBVIOUS
    <3> HIDE DEF g
    <3> QED BY <3>1, <3>3, <3>4
  <2>5. ReleasedTo(s, g, n)
    BY <2>3, <2>4 DEF ReleasedTo
  <2> QED BY <2>5
<1>3. 0 .. Len(s) \subseteq T
  <2> HIDE DEF T
  <2> QED BY <1>0, <1>1, <1>2, Upward
<1> QED BY <1>0, <1>3

\* Releases is the last of them, whichever function gives them.
LEMMA ReleasesAre ==
  ASSUME NEW s \in Seq(Event), NEW f, ReleasedTo(s, f, Len(s))
  PROVE  Board!Releases(s) = f[Len(s)] /\ Board!Releases(s) \in Seq(Nat)
<1> DEFINE R(g) == [n \in 0 .. Len(s) |-> IF n = 0 THEN <<>> ELSE Released(s, g, n)]
           h == CHOOSE g : g = R(g)
<1>0. Len(s) \in Nat
  OBVIOUS
<1>1. f = R(f)
  BY <1>0 DEF ReleasedTo
<1>2. h = R(h)
  BY <1>1
<1>3. Board!Releases(s) = h[Len(s)]
  BY DEF Board!Releases, Released
<1> HIDE DEF h
<1> DEFINE T == {n \in 0 .. Len(s) : h[n] = f[n]}
<1>4. 0 \in T
  BY <1>0, <1>2 DEF ReleasedTo
<1>5. ASSUME NEW n \in 1 .. Len(s), n - 1 \in T PROVE n \in T
  <2>1. h[n] = Released(s, h, n)
    BY <1>0, <1>2
  <2>2. Released(s, h, n) = Released(s, f, n)
    BY <1>5 DEF Released
  <2> QED BY <2>1, <2>2 DEF ReleasedTo
<1>6. 0 .. Len(s) \subseteq T
  <2> HIDE DEF T
  <2> QED BY <1>0, <1>4, <1>5, Upward
<1> QED BY <1>0, <1>3, <1>6 DEF ReleasedTo

LEMMA ReleasesAppend ==
  ASSUME NEW s \in Seq(Event), NEW e \in Event
  PROVE  /\ Board!Releases(s) \in Seq(Nat)
         /\ Board!Releases(Append(s, e)) =
              IF e.kind = "release" THEN Append(Board!Releases(s), e.inject) ELSE Board!Releases(s)
<1> DEFINE t == Append(s, e)
<1>1. /\ t \in Seq(Event) /\ Len(t) = Len(s) + 1 /\ Len(s) \in Nat /\ t[Len(s) + 1] = e
      /\ \A n \in 1 .. Len(s) : t[n] = s[n]
  OBVIOUS
<1> HIDE DEF t
<1>2. PICK f : ReleasedTo(t, f, Len(t))
  BY <1>1, ReleasedExists
<1> DEFINE g == [n \in 0 .. Len(s) |-> f[n]]
<1>3. g \in [0 .. Len(s) -> Seq(Nat)] /\ g[0] = <<>>
  BY <1>1, <1>2 DEF ReleasedTo
<1>4. ASSUME NEW k \in 1 .. Len(s)
      PROVE  g[k] = Released(s, g, k)
  <2>1. g[k] = f[k] /\ g[k - 1] = f[k - 1] /\ t[k] = s[k] /\ k \in 1 .. Len(t)
    BY <1>1
  <2> HIDE DEF g
  <2>2. Released(s, g, k) = Released(t, f, k)
    BY <2>1 DEF Released
  <2> QED BY <1>2, <2>1, <2>2 DEF ReleasedTo
<1>5. ReleasedTo(s, g, Len(s)) /\ g[Len(s)] = f[Len(s)]
  <2>1. g[Len(s)] = f[Len(s)]
    BY <1>1
  <2> HIDE DEF g
  <2> QED BY <1>3, <1>4, <2>1 DEF ReleasedTo
<1>6. Board!Releases(s) = f[Len(s)] /\ Board!Releases(s) \in Seq(Nat)
  <2> HIDE DEF g
  <2> QED BY <1>5, ReleasesAre
<1>7. Board!Releases(t) = f[Len(s) + 1]
  BY <1>1, <1>2, ReleasesAre
<1>8. f[Len(s) + 1] = IF e.kind = "release" THEN Append(f[Len(s)], e.inject) ELSE f[Len(s)]
  <2>1. Len(s) + 1 \in 1 .. Len(t) /\ (Len(s) + 1) - 1 = Len(s)
    BY <1>1
  <2>2. f[Len(s) + 1] = Released(t, f, Len(s) + 1)
    BY <1>2, <2>1 DEF ReleasedTo
  <2> QED BY <1>1, <2>1, <2>2 DEF Released
<1> QED BY <1>6, <1>7, <1>8 DEF t

LEMMA NoReleases == Board!Releases(<<>>) = <<>> /\ Board!Position(<<>>) = Board!Stopped
<1> DEFINE f == [n \in 0 .. 0 |-> <<>>]
<1>1. <<>> \in Seq(Event) /\ Len(<<>>) = 0
  OBVIOUS
<1>2. f \in [0 .. 0 -> Seq(Nat)] /\ f[0] = <<>>
  OBVIOUS
<1>3. ReleasedTo(<<>>, f, 0)
  BY <1>2 DEF ReleasedTo
<1>4. Board!Releases(<<>>) = <<>>
  <2> HIDE DEF f
  <2> QED BY <1>1, <1>2, <1>3, ReleasesAre
<1>5. Board!Position(<<>>) = Board!Stopped
  BY <1>1, ClockSteps DEF ClockTo, Board!Position
<1> QED BY <1>4, <1>5

-----------------------------------------------------------------------------
(* The invariant *)

BoardAssumption ==
  /\ Controller \cap Request = {}
  /\ Board!None \notin Controller \cup Request /\ Board!Missing \notin Controller \cup Request

CommandStep == {"idle", "database", "read", "save", "verify", "stage", "publish", "log"}
RequestStep == {"idle", "database", "control", "insert"}

CommandRecord == [at : CommandStep, kind : Kind \cup {Board!None}, inject : Nat, when : Nat]
RequestRecord == [at : RequestStep, events : Seq(Event)]

BoardTyped ==
  /\ now \in Nat /\ ledger \in Seq(Event) /\ cut \in BOOLEAN /\ late \in BOOLEAN
  /\ lock \in Controller \cup {Board!None}
  /\ database \in Controller \cup Request \cup {Board!None, Board!Missing}
  /\ comments \in SUBSET [created : Nat, elapsed : Int]
  /\ command \in [Controller -> CommandRecord]
  /\ request \in [Request -> RequestRecord]

\* A command that is under way has made control.lock; its kind fits its step.
Locking(c) ==
  LET m == command[c] IN
  /\ m.at = "idle" => m = Board!NoCommand
  /\ m.at # "idle" => lock = c /\ m.kind \in Kind
  /\ m.at = "database" => m.kind \in Board!Transitions
  /\ m.at \in {"verify", "stage", "publish", "log"} => m.kind = "release"
  /\ m.at = "verify" => m.inject \in Board!Inject

\* A request holds the database from its reading of the ledger to its comment; so does a
\* transition, unless the board had not come up when it began.
Holding ==
  /\ database = Board!Missing => comments = {} /\ \A r \in Request : request[r].at = "idle"
  /\ \A r \in Request : request[r].at \in {"control", "insert"} => database = r
  /\ ~late => \A c \in Controller :
       command[c].kind \in Board!Transitions /\ command[c].at \in {"read", "save"} =>
         database \in {c, Board!Missing}

First(n) == [k \in 1 .. n |-> k]

\* Injects 1 .. p are public, 1 .. r in the ledger, 1 .. l in the log; they differ while a
\* release is under way or after one was cut short.
Counts(p, r, l) ==
  /\ public = 1 .. p /\ Board!Releases(ledger) = First(r) /\ log = First(l)
  /\ l <= r /\ r <= p /\ p <= l + 1
  /\ p = l \/ cut \/ \E c \in Controller :
       command[c].kind = "release" /\ command[c].at \in {"read", "save", "log"}
  /\ \A c \in Controller :
       LET m == command[c] IN
       /\ m.at \in {"stage", "publish"} => p = l /\ m.inject = p + 1
       /\ m.kind = "release" /\ m.at \in {"read", "save"} => p = r + 1 /\ m.inject = p
       /\ m.at = "log" => p = r /\ r = l + 1 /\ m.inject = r

Order == \E p, r, l \in Nat : Counts(p, r, l)

EventOf(c) == [kind |-> command[c].kind, when |-> command[c].when, inject |-> command[c].inject]

\* What the ledger says of a comment's moment, it says for good.
Clocked ==
  /\ Regular(ledger)
  /\ \A c \in Controller : command[c].at = "save" => Follows(ledger, EventOf(c))
  /\ comments # {} => Board!Position(ledger).started
  /\ \A r \in Request : request[r].at = "insert" => Board!Position(ledger).started
  /\ ~late =>
       /\ \A k \in comments : k.created <= now /\ k.elapsed = Board!ElapsedAt(ledger, k.created)
       /\ \A c \in Controller :
            command[c].at = "save" /\ command[c].kind \in Board!Transitions =>
              \A k \in comments : k.created <= command[c].when
       /\ \A r \in Request : request[r].at = "insert" =>
            \A t \in Nat : Board!ElapsedAt(request[r].events, t) = Board!ElapsedAt(ledger, t)

BoardInv ==
  BoardTyped /\ (\A c \in Controller : Locking(c)) /\ Holding /\ Order /\ Clocked

LEMMA FirstIs ==
  ASSUME NEW n \in Nat
  PROVE  /\ First(n) \in Seq(Nat) /\ Len(First(n)) = n /\ \A k \in 1 .. n : First(n)[k] = k
         /\ Append(First(n), n + 1) = First(n + 1)
<1>1. First(n) \in Seq(Nat) /\ Len(First(n)) = n /\ \A k \in 1 .. n : First(n)[k] = k
  BY DEF First
<1>2. First(n + 1) \in Seq(Nat) /\ Len(First(n + 1)) = n + 1
      /\ \A k \in 1 .. n + 1 : First(n + 1)[k] = k
  BY DEF First
<1> DEFINE s == Append(First(n), n + 1)
<1>3. s \in Seq(Nat) /\ Len(s) = n + 1 /\ \A k \in 1 .. n + 1 : s[k] = k
  BY <1>1
<1> HIDE DEF s
<1>4. s = First(n + 1)
  BY <1>2, <1>3
<1> QED BY <1>1, <1>4 DEF s

LEMMA BoardInit == ASSUME BoardAssumption, Board!Init PROVE BoardInv
<1>1. \A c \in Controller : command[c] = Board!NoCommand
  BY DEF Board!Init
<1>2. \A r \in Request : request[r] = Board!NoRequest
  BY DEF Board!Init
<1>3. Board!NoCommand.at = "idle" /\ Board!NoCommand.kind = Board!None /\ Board!NoRequest.at = "idle"
  BY DEF Board!NoCommand, Board!NoRequest
<1>4. BoardTyped
  <2>1. Board!NoCommand \in CommandRecord
    BY DEF CommandRecord, Board!NoCommand, CommandStep
  <2>2. Board!NoRequest \in RequestRecord
    BY DEF RequestRecord, Board!NoRequest, RequestStep
  <2>3. <<>> \in Seq(Event)
    OBVIOUS
  <2> QED BY <2>1, <2>2, <2>3 DEF Board!Init, BoardTyped
<1>5. \A c \in Controller : Locking(c)
  BY <1>1, <1>3 DEF Locking
<1>6. Holding
  BY <1>1, <1>2, <1>3 DEF Board!Init, Holding, Board!Transitions, Board!None
<1>7. Order
  <2>1. First(0) = <<>>
    BY DEF First
  <2>2. Counts(0, 0, 0)
    <3>1. public = 1 .. 0 /\ Board!Releases(ledger) = First(0) /\ log = First(0)
      BY <2>1, NoReleases DEF Board!Init
    <3> QED BY <1>1, <1>3, <3>1 DEF Counts, Board!None
  <2> QED BY <2>2 DEF Order
<1>8. Clocked
  <2>1. ledger = <<>> /\ Len(ledger) = 0 /\ comments = {} /\ Board!Position(ledger) = Board!Stopped
    BY NoReleases DEF Board!Init
  <2>2. Regular(ledger)
    BY <2>1 DEF Regular, Sorted, Board!Stopped
  <2> QED BY <1>1, <1>2, <1>3, <2>1, <2>2 DEF Clocked
<1> QED BY <1>4, <1>5, <1>6, <1>7, <1>8 DEF BoardInv

\* Nobody else is at work beside a command, nor when the lock is free.
LEMMA CommandAlone ==
  ASSUME BoardInv, BoardAssumption, NEW c \in Controller, command[c].at # "idle" \/ lock = Board!None
  PROVE  /\ \A d \in Controller \ {c} : command[d] = Board!NoCommand /\ command[d].at = "idle"
         /\ command[c].at # "idle" => lock = c
<1>1. \A d \in Controller : command[d].at # "idle" => lock = d
  BY DEF BoardInv, Locking
<1>2. \A d \in Controller : command[d].at = "idle" => command[d] = Board!NoCommand
  BY DEF BoardInv, Locking
<1>3. Board!None \notin Controller
  BY DEF BoardAssumption
<1> QED BY <1>1, <1>2, <1>3

\* A step of one command that leaves ledger, log, directories, comments and requests alone.
LEMMA CommandMoves ==
  ASSUME BoardInv, NEW c \in Controller, NEW m \in CommandRecord,
         \A d \in Controller \ {c} : command[d] = Board!NoCommand /\ command[d].at = "idle",
         command' = [command EXCEPT ![c] = m],
         UNCHANGED <<now, ledger, log, public, comments, request, late>>,
         cut' \in BOOLEAN, cut => cut', lock' \in {Board!None, c, lock},
         database' \in Controller \cup Request \cup {Board!None, Board!Missing},
         Locking(c)',
         m.at = "save" =>
           LET e == [kind |-> m.kind, when |-> m.when, inject |-> m.inject] IN
           /\ Follows(ledger, e)
           /\ ~late /\ m.kind \in Board!Transitions => \A k \in comments : k.created <= m.when,
         NEW p \in Nat, NEW r \in Nat, NEW l \in Nat, Counts(p, r, l), m.at # "log",
         m.at \in {"stage", "publish"} => p = l /\ m.inject = p + 1,
         m.kind = "release" /\ m.at \in {"read", "save"} =>
           command[c].kind = "release" /\ command[c].at = "read" /\ command[c].inject = m.inject,
         command[c].kind = "release" /\ command[c].at \in {"read", "save", "log"} =>
           cut' \/ (m.kind = "release" /\ m.at \in {"read", "save", "log"})
  PROVE  BoardTyped' /\ (\A d \in Controller : Locking(d)') /\ Order' /\ Clocked'
<1>1. command'[c] = m /\ \A d \in Controller \ {c} : command'[d] = Board!NoCommand /\ command'[d].at = "idle"
  BY DEF BoardInv, BoardTyped
<1>2. BoardTyped'
  BY DEF BoardInv, BoardTyped, CommandRecord
<1>3. \A d \in Controller : Locking(d)'
  BY <1>1 DEF Locking
<1>4. Clocked'
  BY <1>1 DEF BoardInv, Clocked, EventOf
<1>5. Order'
  <2>1. public' = 1 .. p /\ Board!Releases(ledger)' = First(r) /\ log' = First(l)
        /\ l <= r /\ r <= p /\ p <= l + 1
    BY DEF Counts
  <2>2. p = l \/ cut' \/ \E d \in Controller :
          command'[d].kind = "release" /\ command'[d].at \in {"read", "save", "log"}
    BY <1>1 DEF Counts
  <2>3. /\ m.kind = "release" /\ m.at \in {"read", "save"} => p = r + 1 /\ m.inject = p
    BY DEF Counts
  <2>4. Counts(p, r, l)'
    BY <1>1, <2>1, <2>2, <2>3 DEF Counts
  <2> QED BY <2>4 DEF Order
<1> QED BY <1>2, <1>3, <1>4, <1>5

\* The effects of Finish on the fields of the command and the database.
LEMMA Ended == Board!NoCommand \in CommandRecord /\ Board!NoCommand.at = "idle"
/\ Board!NoCommand.kind = Board!None
BY DEF Board!NoCommand, CommandRecord, CommandStep

LEMMA Quits ==
  ASSUME BoardInv, BoardAssumption, NEW c \in Controller,
         \A d \in Controller \ {c} : command[d] = Board!NoCommand /\ command[d].at = "idle",
         command' = [command EXCEPT ![c] = Board!NoCommand],
         UNCHANGED <<now, ledger, log, public, comments, request, late>>,
         cut' \in BOOLEAN, cut => cut', lock' \in {Board!None, lock},
         database' = IF database = c THEN Board!None ELSE database,
         command[c].kind = "release" /\ command[c].at \in {"read", "save", "log"} => cut'
  PROVE  BoardInv'
<1>1. PICK p \in Nat, r \in Nat, l \in Nat : Counts(p, r, l)
  BY DEF BoardInv, Order
<1>2. command'[c] = Board!NoCommand
  BY DEF BoardInv, BoardTyped
<1>3. Locking(c)'
  BY <1>2, Ended DEF Locking
<1>4. Board!None # "release" /\ Board!None \notin Board!Transitions
  BY DEF Board!None, Board!Transitions
<1>5. BoardTyped' /\ (\A d \in Controller : Locking(d)') /\ Order' /\ Clocked'
  <2>1. database' \in Controller \cup Request \cup {Board!None, Board!Missing}
        /\ lock' \in {Board!None, c, lock}
    BY DEF BoardInv, BoardTyped
  <2> QED BY <1>1, <1>3, <2>1, Ended, CommandMoves
<1>6. Holding'
  <2>1. \A d \in Controller : command'[d].at = "idle"
    BY <1>2, Ended DEF BoardInv, BoardTyped
  <2>2. database' = Board!Missing => database = Board!Missing
    BY DEF Board!None, Board!Missing
  <2>3. \A q \in Request : request[q].at \in {"control", "insert"} => database' = q
    BY DEF BoardInv, Holding, BoardAssumption
  <2> QED BY <2>1, <2>2, <2>3 DEF BoardInv, Holding
<1> QED BY <1>5, <1>6 DEF BoardInv

LEMMA BeginKeeps ==
  ASSUME BoardInv, BoardAssumption, NEW c \in Controller, NEW kind, NEW n \in Nat,
         \/ kind \in Board!Transitions \cup {"decision"}
         \/ kind = "release" /\ n \in Board!Inject,
         Board!Begin(c, kind, n)
  PROVE  BoardInv'
<1> DEFINE step == IF kind = "release" THEN "verify"
                 ELSE IF kind \in Board!Transitions /\ database # Board!Missing THEN "database" ELSE "read"
           m == [at |-> step, kind |-> kind, inject |-> n, when |-> 0]
<1>1. PICK p \in Nat, r \in Nat, l \in Nat : Counts(p, r, l)
  BY DEF BoardInv, Order
<1>2. command[c] = Board!NoCommand /\ lock = Board!None /\ lock' = c
      /\ command' = [command EXCEPT ![c] = m]
      /\ UNCHANGED <<now, ledger, log, public, boardStaging, database, comments, request, cut, late, boardFaults>>
  BY DEF Board!Begin
<1>3. /\ kind \in Kind /\ step \in CommandStep
      /\ step \in {"database", "verify", "read"} /\ (step = "verify" <=> kind = "release")
      /\ step = "database" => kind \in Board!Transitions
      /\ kind \in Board!Transitions /\ step = "read" => database = Board!Missing
  BY DEF Kind, CommandStep, Board!Transitions
<1>4. m.at = step /\ m.kind = kind /\ m.inject = n /\ m.when = 0
  OBVIOUS
<1> HIDE DEF step
<1>5. m \in CommandRecord
  BY <1>3 DEF CommandRecord
<1> HIDE DEF m
<1>6. \A d \in Controller \ {c} : command[d] = Board!NoCommand /\ command[d].at = "idle"
  BY <1>2, CommandAlone
<1>7. command'[c] = m
  BY <1>2 DEF BoardInv, BoardTyped
<1>8. Locking(c)'
  <2>1. kind = "release" => n \in Board!Inject
    BY DEF Board!Transitions
  <2> QED BY <1>2, <1>3, <1>4, <1>7, <2>1 DEF Locking
<1>9. BoardTyped' /\ (\A d \in Controller : Locking(d)') /\ Order' /\ Clocked'
  <2>1. command[c].kind # "release"
    BY <1>2, Ended DEF Board!None
  <2>2. lock' \in {Board!None, c, lock}
        /\ database' \in Controller \cup Request \cup {Board!None, Board!Missing}
        /\ cut' \in BOOLEAN /\ (cut => cut')
    BY <1>2 DEF BoardInv, BoardTyped
  <2>3. m.at \notin {"save", "log", "stage", "publish"}
        /\ (m.kind = "release" => m.at \notin {"read", "save"})
    BY <1>3, <1>4
  <2> QED BY <1>1, <1>2, <1>5, <1>6, <1>8, <2>1, <2>2, <2>3, CommandMoves
<1>10. Holding'
  <2>1. \A d \in Controller \ {c} : command'[d].at = "idle"
    BY <1>2, <1>6 DEF BoardInv, BoardTyped
  <2> QED BY <1>2, <1>3, <1>4, <1>7, <2>1 DEF BoardInv, Holding
<1> QED BY <1>9, <1>10 DEF BoardInv

LEMMA TakeDatabaseKeeps ==
  ASSUME BoardInv, BoardAssumption, NEW c \in Controller, Board!TakeDatabase(c)
  PROVE  BoardInv'
<1> DEFINE m == [command[c] EXCEPT !.at = "read"]
<1>1. PICK p \in Nat, r \in Nat, l \in Nat : Counts(p, r, l)
  BY DEF BoardInv, Order
<1>2. /\ command[c].at = "database" /\ database = Board!None /\ database' = c
      /\ command' = [command EXCEPT ![c] = m]
      /\ UNCHANGED <<now, ledger, log, public, boardStaging, lock, comments, request, cut, late, boardFaults>>
  BY DEF Board!TakeDatabase
<1>3. command[c].kind \in Board!Transitions /\ lock = c /\ command[c].kind \in Kind
      /\ command[c] \in CommandRecord
  BY <1>2 DEF BoardInv, BoardTyped, Locking, CommandRecord
<1>4. m.at = "read" /\ m.kind = command[c].kind /\ m \in CommandRecord
  BY <1>3 DEF CommandRecord, CommandStep
<1> HIDE DEF m
<1>5. \A d \in Controller \ {c} : command[d] = Board!NoCommand /\ command[d].at = "idle"
  BY <1>2, CommandAlone
<1>6. command'[c] = m
  BY <1>2 DEF BoardInv, BoardTyped
<1>7. Locking(c)'
  BY <1>2, <1>3, <1>4, <1>6 DEF Locking
<1>8. BoardTyped' /\ (\A d \in Controller : Locking(d)') /\ Order' /\ Clocked'
  <2>1. m.kind # "release" /\ command[c].kind # "release"
    BY <1>3, <1>4 DEF Board!Transitions
  <2>2. lock' \in {Board!None, c, lock}
        /\ database' \in Controller \cup Request \cup {Board!None, Board!Missing}
        /\ cut' \in BOOLEAN /\ (cut => cut')
    BY <1>2 DEF BoardInv, BoardTyped
  <2>3. m.at \notin {"save", "log", "stage", "publish"}
    BY <1>4
  <2> QED BY <1>1, <1>2, <1>4, <1>5, <1>7, <2>1, <2>2, <2>3, CommandMoves
<1>9. Holding'
  <2>1. \A d \in Controller \ {c} : command'[d].at = "idle"
    BY <1>2, <1>5 DEF BoardInv, BoardTyped
  <2>2. database' # Board!Missing
    BY <1>2 DEF BoardAssumption
  <2>3. \A q \in Request : request[q].at \notin {"control", "insert"}
    BY <1>2 DEF BoardInv, Holding, BoardAssumption
  <2> QED BY <1>2, <2>1, <2>2, <2>3 DEF BoardInv, Holding
<1> QED BY <1>8, <1>9 DEF BoardInv

\* An event that the ledger allows, at a time not before its last, follows the ledger.
LEMMA FollowsNow ==
  ASSUME NEW s \in Seq(Event), NEW kind, NEW t \in Nat, NEW n, Sorted(s), Board!Allowed(s, kind),
         s = <<>> \/ t >= Board!Last(s).when
  PROVE  Follows(s, [kind |-> kind, when |-> t, inject |-> n])
<1>1. CASE s = <<>>
  BY <1>1 DEF Follows
<1>2. CASE s # <<>> /\ t >= Board!Last(s).when
  <2>1. Len(s) \in 1 .. Len(s) /\ Board!Last(s) = s[Len(s)]
    BY <1>2 DEF Board!Last
  <2>2. \A k \in 1 .. Len(s) : s[k].when <= s[Len(s)].when
    BY <2>1, EventsTyped DEF Sorted
  <2>3. \A k \in 1 .. Len(s) : s[k].when <= t
    BY <1>2, <2>1, <2>2, EventsTyped
  <2> QED BY <2>3 DEF Follows
<1> QED BY <1>1, <1>2

LEMMA ReadLedgerKeeps ==
  ASSUME BoardInv, BoardAssumption, NEW c \in Controller, Board!ReadLedger(c)
  PROVE  BoardInv'
<1>1. PICK p \in Nat, r \in Nat, l \in Nat : Counts(p, r, l)
  BY DEF BoardInv, Order
<1>2. /\ command[c].at = "read" /\ command[c] \in CommandRecord /\ command[c].kind \in Kind /\ lock = c
      /\ UNCHANGED <<now, ledger, log, public, boardStaging, comments, request, late, boardFaults>>
  BY DEF Board!ReadLedger, BoardInv, BoardTyped, Locking, CommandRecord
<1>3. \A d \in Controller \ {c} : command[d] = Board!NoCommand /\ command[d].at = "idle"
  BY <1>2, CommandAlone
<1>4. CASE Board!Finish(c) /\ cut' = (cut \/ command[c].kind = "release")
  <2>1. cut' \in BOOLEAN /\ (cut => cut') /\ lock' \in {Board!None, lock}
        /\ (command[c].kind = "release" /\ command[c].at \in {"read", "save", "log"} => cut')
    BY <1>4 DEF BoardInv, BoardTyped, Board!Finish
  <2> QED BY <1>2, <1>3, <1>4, <2>1, Quits DEF Board!Finish
<1>5. CASE /\ Board!Allowed(ledger, command[c].kind) /\ (ledger = <<>> \/ now >= Board!Last(ledger).when)
           /\ command' = [command EXCEPT ![c].at = "save", ![c].when = now]
           /\ UNCHANGED <<lock, database, cut>>
  <2> DEFINE m == [command[c] EXCEPT !.at = "save", !.when = now]
  <2>1. command' = [command EXCEPT ![c] = m]
    BY <1>5
  <2>2. m.at = "save" /\ m.kind = command[c].kind /\ m.when = now /\ m.inject = command[c].inject
        /\ m \in CommandRecord
    BY <1>2 DEF CommandRecord, CommandStep, BoardInv, BoardTyped
  <2> HIDE DEF m
  <2>3. command'[c] = m
    BY <2>1 DEF BoardInv, BoardTyped
  <2>4. Locking(c)'
    BY <1>2, <1>5, <2>2, <2>3 DEF Locking
  <2>5. Follows(ledger, [kind |-> m.kind, when |-> m.when, inject |-> m.inject])
    <3>1. Sorted(ledger) /\ ledger \in Seq(Event) /\ now \in Nat
      BY DEF BoardInv, BoardTyped, Clocked, Regular
    <3> QED BY <1>5, <2>2, <3>1, FollowsNow
  <2>6. ~late => \A k \in comments : k.created <= m.when
    BY <2>2 DEF BoardInv, Clocked
  <2>7. BoardTyped' /\ (\A d \in Controller : Locking(d)') /\ Order' /\ Clocked'
    <3>1. lock' \in {Board!None, c, lock}
          /\ database' \in Controller \cup Request \cup {Board!None, Board!Missing}
          /\ cut' \in BOOLEAN /\ (cut => cut')
      BY <1>5 DEF BoardInv, BoardTyped
    <3>2. m.at \notin {"log", "stage", "publish"}
      BY <2>2
    <3>3. UNCHANGED <<now, ledger, log, public, comments, request, late>>
      BY <1>2
    <3>4. m.kind = "release" /\ m.at \in {"read", "save"} =>
            command[c].kind = "release" /\ command[c].at = "read" /\ command[c].inject = m.inject
      BY <1>2, <2>2
    <3>5. command[c].kind = "release" /\ command[c].at \in {"read", "save", "log"} =>
            cut' \/ (m.kind = "release" /\ m.at \in {"read", "save", "log"})
      BY <2>2
    <3>6. m \in CommandRecord
      BY <2>2
    <3>7. LET e == [kind |-> m.kind, when |-> m.when, inject |-> m.inject] IN
          Follows(ledger, e) /\ (~late
          /\ m.kind \in Board!Transitions => \A k \in comments : k.created <= m.when)
      BY <2>5, <2>6
    <3> QED BY <1>1, <1>3, <2>1, <2>4, <3>1, <3>2, <3>3, <3>4, <3>5, <3>6, <3>7, CommandMoves
  <2>8. Holding'
    <3>1. \A d \in Controller \ {c} : command'[d].at = "idle"
      BY <1>3, <2>1 DEF BoardInv, BoardTyped
    <3> QED BY <1>2, <1>5, <2>2, <2>3, <3>1 DEF BoardInv, Holding
  <2> QED BY <2>7, <2>8 DEF BoardInv
<1> QED BY <1>4, <1>5 DEF Board!ReadLedger

\* A release goes ahead only where directories, ledger and log agree, with the next inject.
LEMMA VerifiedNext ==
  ASSUME NEW p \in Nat, NEW r \in Nat, NEW l \in Nat, Counts(p, r, l), Board!Verify,
         NEW n \in Board!Inject, n \notin public, n = 1 \/ n - 1 \in public
  PROVE  p = l /\ n = p + 1
<1>1. First(l) = First(r) /\ {First(l)[k] : k \in DOMAIN First(l)} = 1 .. p
  BY DEF Board!Verify, Counts
<1>2. DOMAIN First(l) = 1 .. l
  BY DEF First
<1>3. {First(l)[k] : k \in DOMAIN First(l)} = 1 .. l
  BY <1>2, FirstIs
<1>4. p = l
  BY <1>1, <1>3
<1>5. n \notin 1 .. p /\ (n = 1 \/ n - 1 \in 1 .. p) /\ n \in Nat /\ n >= 1
  BY DEF Counts, Board!Inject
<1> QED BY <1>4, <1>5

LEMMA VerifyReleaseKeeps ==
  ASSUME BoardInv, BoardAssumption, NEW c \in Controller, Board!VerifyRelease(c)
  PROVE  BoardInv'
<1>1. PICK p \in Nat, r \in Nat, l \in Nat : Counts(p, r, l)
  BY DEF BoardInv, Order
<1>2. /\ command[c].at = "verify" /\ command[c] \in CommandRecord /\ command[c].kind = "release"
      /\ command[c].inject \in Board!Inject /\ lock = c
      /\ UNCHANGED <<now, ledger, log, public, boardStaging, comments, request, cut, late, boardFaults>>
  BY DEF Board!VerifyRelease, BoardInv, BoardTyped, Locking, CommandRecord
<1>3. \A d \in Controller \ {c} : command[d] = Board!NoCommand /\ command[d].at = "idle"
  BY <1>2, CommandAlone
<1>4. CASE Board!Finish(c)
  <2>1. cut' \in BOOLEAN /\ (cut => cut') /\ lock' \in {Board!None, lock}
        /\ (command[c].kind = "release" /\ command[c].at \in {"read", "save", "log"} => cut')
    BY <1>2, <1>4 DEF BoardInv, BoardTyped, Board!Finish
  <2> QED BY <1>2, <1>3, <1>4, <2>1, Quits DEF Board!Finish
<1>5. CASE /\ Board!Verify /\ command[c].inject \notin public
           /\ (command[c].inject = 1 \/ command[c].inject - 1 \in public)
           /\ command' = [command EXCEPT ![c].at = "stage"] /\ UNCHANGED <<lock, database>>
  <2> DEFINE m == [command[c] EXCEPT !.at = "stage"]
  <2>1. command' = [command EXCEPT ![c] = m]
    BY <1>5
  <2>2. m.at = "stage" /\ m.kind = "release" /\ m.inject = command[c].inject /\ m \in CommandRecord
    BY <1>2 DEF CommandRecord, CommandStep, BoardInv, BoardTyped
  <2> HIDE DEF m
  <2>3. command'[c] = m
    BY <2>1 DEF BoardInv, BoardTyped
  <2>4. Locking(c)'
    BY <1>2, <1>5, <2>2, <2>3 DEF Locking, Kind
  <2>5. p = l /\ m.inject = p + 1
    BY <1>1, <1>2, <1>5, <2>2, VerifiedNext
  <2>6. BoardTyped' /\ (\A d \in Controller : Locking(d)') /\ Order' /\ Clocked'
    <3>1. lock' \in {Board!None, c, lock}
          /\ database' \in Controller \cup Request \cup {Board!None, Board!Missing}
          /\ cut' \in BOOLEAN /\ (cut => cut')
      BY <1>2, <1>5 DEF BoardInv, BoardTyped
    <3>2. m.at \notin {"log", "save", "read"} /\ command[c].at \notin {"read", "save", "log"}
      BY <1>2, <2>2
    <3>3. UNCHANGED <<now, ledger, log, public, comments, request, late>> /\ m \in CommandRecord
      BY <1>2, <2>2
    <3> QED BY <1>1, <1>3, <2>1, <2>4, <2>5, <3>1, <3>2, <3>3, CommandMoves
  <2>7. Holding'
    <3>1. \A d \in Controller \ {c} : command'[d].at = "idle"
      BY <1>3, <2>1 DEF BoardInv, BoardTyped
    <3> QED BY <1>2, <1>5, <2>2, <2>3, <3>1 DEF BoardInv, Holding
  <2> QED BY <2>6, <2>7 DEF BoardInv
<1> QED BY <1>4, <1>5 DEF Board!VerifyRelease

LEMMA StageKeeps ==
  ASSUME BoardInv, BoardAssumption, NEW c \in Controller, Board!Stage(c)
  PROVE  BoardInv'
<1>1. PICK p \in Nat, r \in Nat, l \in Nat : Counts(p, r, l)
  BY DEF BoardInv, Order
<1>2. /\ command[c].at = "stage" /\ command[c] \in CommandRecord /\ command[c].kind = "release"
      /\ lock = c
      /\ UNCHANGED <<now, ledger, log, public, lock, database, comments, request, cut, late, boardFaults>>
      /\ command' = [command EXCEPT ![c].at = "publish"]
  BY DEF Board!Stage, BoardInv, BoardTyped, Locking, CommandRecord
<1>3. \A d \in Controller \ {c} : command[d] = Board!NoCommand /\ command[d].at = "idle"
  BY <1>2, CommandAlone
<1> DEFINE m == [command[c] EXCEPT !.at = "publish"]
<1>4. command' = [command EXCEPT ![c] = m]
  BY <1>2
<1>5. m.at = "publish" /\ m.kind = "release" /\ m.inject = command[c].inject /\ m \in CommandRecord
  BY <1>2 DEF CommandRecord, CommandStep, BoardInv, BoardTyped
<1> HIDE DEF m
<1>6. command'[c] = m
  BY <1>4 DEF BoardInv, BoardTyped
<1>7. Locking(c)'
  BY <1>2, <1>5, <1>6 DEF Locking, Kind
<1>8. p = l /\ m.inject = p + 1
  BY <1>1, <1>2, <1>5 DEF Counts
<1>9. BoardTyped' /\ (\A d \in Controller : Locking(d)') /\ Order' /\ Clocked'
  <2>1. lock' \in {Board!None, c, lock}
        /\ database' \in Controller \cup Request \cup {Board!None, Board!Missing}
        /\ cut' \in BOOLEAN /\ (cut => cut')
    BY <1>2 DEF BoardInv, BoardTyped
  <2>2. m.at \notin {"log", "save", "read"} /\ command[c].at \notin {"read", "save", "log"}
    BY <1>2, <1>5
  <2>3. UNCHANGED <<now, ledger, log, public, comments, request, late>> /\ m \in CommandRecord
    BY <1>2, <1>5
  <2> QED BY <1>1, <1>3, <1>4, <1>7, <1>8, <2>1, <2>2, <2>3, CommandMoves
<1>10. Holding'
  <2>1. \A d \in Controller \ {c} : command'[d].at = "idle"
    BY <1>3, <1>4 DEF BoardInv, BoardTyped
  <2> QED BY <1>2, <1>5, <1>6, <2>1 DEF BoardInv, Holding
<1> QED BY <1>9, <1>10 DEF BoardInv

LEMMA PublishKeeps ==
  ASSUME BoardInv, BoardAssumption, NEW c \in Controller, Board!Publish(c)
  PROVE  BoardInv'
<1>1. PICK p \in Nat, r \in Nat, l \in Nat : Counts(p, r, l)
  BY DEF BoardInv, Order
<1>2. /\ command[c].at = "publish" /\ command[c] \in CommandRecord /\ command[c].kind = "release"
      /\ lock = c
      /\ UNCHANGED <<now, ledger, log, lock, database, comments, request, cut, late, boardFaults>>
      /\ public' = public \cup {command[c].inject}
      /\ command' = [command EXCEPT ![c].at = "read"]
  BY DEF Board!Publish, BoardInv, BoardTyped, Locking, CommandRecord
<1>3. \A d \in Controller \ {c} : command[d] = Board!NoCommand /\ command[d].at = "idle"
  BY <1>2, CommandAlone
<1> DEFINE m == [command[c] EXCEPT !.at = "read"]
<1>4. m.at = "read" /\ m.kind = "release" /\ m.inject = command[c].inject /\ m \in CommandRecord
  BY <1>2 DEF CommandRecord, CommandStep, BoardInv, BoardTyped
<1>5. command'[c] = m /\ command' = [command EXCEPT ![c] = m]
  BY <1>2 DEF BoardInv, BoardTyped
<1> HIDE DEF m
<1>6. \A d \in Controller \ {c} : command'[d] = Board!NoCommand /\ command'[d].at = "idle"
  BY <1>3, <1>5
<1>7. BoardTyped'
  BY <1>2, <1>4, <1>5 DEF BoardInv, BoardTyped, CommandRecord
<1>8. \A d \in Controller : Locking(d)'
  BY <1>2, <1>4, <1>5, <1>6 DEF Locking, Kind
<1>9. Holding'
  BY <1>2, <1>4, <1>5, <1>6 DEF BoardInv, Holding, Board!Transitions
<1>10. Order'
  <2>1. p = l /\ r = p /\ m.inject = p + 1
    BY <1>1, <1>2, <1>4 DEF Counts
  <2>2. public' = 1 .. p + 1 /\ Board!Releases(ledger)' = First(r) /\ log' = First(l)
    BY <1>1, <1>2, <1>4, <2>1 DEF Counts
  <2>3. Counts(p + 1, r, l)'
    BY <1>4, <1>5, <1>6, <2>1, <2>2 DEF Counts
  <2>4. p + 1 \in Nat
    OBVIOUS
  <2> QED BY <2>3, <2>4 DEF Order
<1>11. Clocked'
  BY <1>2, <1>4, <1>5, <1>6 DEF BoardInv, Clocked
<1> QED BY <1>7, <1>8, <1>9, <1>10, <1>11 DEF BoardInv

LEMMA WriteLogKeeps ==
  ASSUME BoardInv, BoardAssumption, NEW c \in Controller, Board!WriteLog(c)
  PROVE  BoardInv'
<1>1. PICK p \in Nat, r \in Nat, l \in Nat : Counts(p, r, l)
  BY DEF BoardInv, Order
<1>2. /\ command[c].at = "log" /\ command[c].kind = "release" /\ lock = c
      /\ UNCHANGED <<now, ledger, public, boardStaging, comments, request, cut, late, boardFaults>>
      /\ log' = Append(log, command[c].inject)
      /\ command' = [command EXCEPT ![c] = Board!NoCommand] /\ lock' = Board!None
      /\ database' = IF database = c THEN Board!None ELSE database
  BY DEF Board!WriteLog, Board!Finish, BoardInv, BoardTyped, Locking
<1>3. \A d \in Controller \ {c} : command[d] = Board!NoCommand /\ command[d].at = "idle"
  BY <1>2, CommandAlone
<1>4. \A d \in Controller : command'[d] = Board!NoCommand /\ command'[d].at = "idle"
  BY <1>2, <1>3, Ended DEF BoardInv, BoardTyped
<1>5. BoardTyped'
  BY <1>2, Ended DEF BoardInv, BoardTyped, CommandRecord
<1>6. \A d \in Controller : Locking(d)'
  BY <1>4 DEF Locking
<1>7. Holding'
  <2>1. database' = Board!Missing => database = Board!Missing
    BY <1>2 DEF Board!None, Board!Missing
  <2>2. \A q \in Request : request[q].at \in {"control", "insert"} => database' = q
    BY <1>2 DEF BoardInv, Holding, BoardAssumption
  <2> QED BY <1>2, <1>4, <2>1, <2>2 DEF BoardInv, Holding
<1>8. Order'
  <2>1. p = r /\ r = l + 1 /\ command[c].inject = l + 1
    BY <1>1, <1>2 DEF Counts
  <2>2. public' = 1 .. p /\ Board!Releases(ledger)' = First(r) /\ log' = First(l + 1)
    BY <1>1, <1>2, <2>1, FirstIs DEF Counts
  <2>3. Counts(p, r, l + 1)'
    BY <1>4, <2>1, <2>2, Ended DEF Counts, Board!None
  <2>4. l + 1 \in Nat
    OBVIOUS
  <2> QED BY <2>3, <2>4 DEF Order
<1>9. Clocked'
  BY <1>2, <1>4 DEF BoardInv, Clocked
<1> QED BY <1>5, <1>6, <1>7, <1>8, <1>9 DEF BoardInv

LEMMA KillKeeps ==
  ASSUME BoardInv, BoardAssumption, NEW c \in Controller, Board!Kill(c)
  PROVE  BoardInv'
<1>1. /\ command[c] # Board!NoCommand /\ command' = [command EXCEPT ![c] = Board!NoCommand]
      /\ UNCHANGED <<now, ledger, log, public, boardStaging, lock, comments, request, late>>
      /\ database' = IF database = c THEN Board!None ELSE database
      /\ cut' = (cut \/ command[c].kind = "release")
  BY DEF Board!Kill
<1>2. command[c].at # "idle"
  BY <1>1 DEF BoardInv, Locking
<1>3. \A d \in Controller \ {c} : command[d] = Board!NoCommand /\ command[d].at = "idle"
  BY <1>2, CommandAlone
<1>4. cut' \in BOOLEAN /\ (cut => cut') /\ lock' \in {Board!None, lock}
      /\ (command[c].kind = "release" /\ command[c].at \in {"read", "save", "log"} => cut')
  BY <1>1 DEF BoardInv, BoardTyped
<1> QED BY <1>1, <1>3, <1>4, Quits

LEMMA InspectKeeps == ASSUME BoardInv, BoardAssumption, Board!Inspect PROVE BoardInv'
<1>1. lock # Board!None /\ command[lock] = Board!NoCommand /\ lock' = Board!None
      /\ UNCHANGED <<now, ledger, log, public, database, comments, command, request, cut, late>>
  BY DEF Board!Inspect
<1>2. lock \in Controller /\ command[lock].at = "idle"
  BY <1>1, Ended DEF BoardInv, BoardTyped
<1>3. \A d \in Controller : command[d].at = "idle"
  BY <1>2 DEF BoardInv, Locking
<1>4. BoardTyped'
  BY <1>1 DEF BoardInv, BoardTyped
<1>5. \A d \in Controller : Locking(d)'
  BY <1>1, <1>3 DEF BoardInv, Locking
<1>6. Holding' /\ Clocked'
  BY <1>1 DEF BoardInv, Holding, Clocked, EventOf
<1>7. Order'
  BY <1>1 DEF BoardInv, Order, Counts
<1> QED BY <1>4, <1>5, <1>6, <1>7 DEF BoardInv

\* An event appended changes no answer of elapsed_at that is stored, nor one about to be.
LEMMA SaveLedgerKeeps ==
  ASSUME BoardInv, BoardAssumption, NEW c \in Controller, Board!SaveLedger(c)
  PROVE  BoardInv'
<1> DEFINE e == EventOf(c)
           t == ledger'
<1>1. PICK p \in Nat, r \in Nat, l \in Nat : Counts(p, r, l)
  BY DEF BoardInv, Order
<1>2. /\ command[c].at = "save" /\ command[c] \in CommandRecord /\ command[c].kind \in Kind /\ lock = c
      /\ UNCHANGED <<now, log, public, boardStaging, comments, request, cut, late, boardFaults>>
      /\ t = Append(ledger, e)
  BY DEF Board!SaveLedger, EventOf, BoardInv, BoardTyped, Locking, CommandRecord
<1>3. /\ ledger \in Seq(Event) /\ e \in Event
      /\ e.kind = command[c].kind /\ e.when = command[c].when /\ e.inject = command[c].inject
  BY <1>2 DEF CommandRecord, Event, EventOf, BoardInv, BoardTyped
<1>4. \A d \in Controller \ {c} : command[d] = Board!NoCommand /\ command[d].at = "idle"
  BY <1>2, CommandAlone
<1> HIDE DEF e
<1>5. Regular(ledger) /\ Follows(ledger, e)
  BY <1>2 DEF BoardInv, Clocked, e
<1>6. Regular(t) /\ (Board!Position(ledger).started => Board!Position(t).started) /\ t \in Seq(Event)
  BY <1>2, <1>3, <1>5, RegularAppend
<1>7. /\ Board!Releases(ledger) \in Seq(Nat)
      /\ e.kind = "release" => Board!Releases(t) = Append(Board!Releases(ledger), e.inject)
      /\ e.kind # "release" => Board!Releases(t) = Board!Releases(ledger)
  BY <1>2, <1>3, ReleasesAppend
<1> HIDE DEF t
<1>8. \A d \in Controller : command'[d].at # "save"
  <2>1. CASE command' = [command EXCEPT ![c].at = "log"]
    BY <1>4, <2>1 DEF BoardInv, BoardTyped
  <2>2. CASE command' = [command EXCEPT ![c] = Board!NoCommand]
    BY <1>4, <2>2, Ended DEF BoardInv, BoardTyped
  <2> QED BY <2>1, <2>2 DEF Board!SaveLedger, Board!Finish
<1>9. Clocked'
  <2>1. comments # {} => Board!Position(t).started
    BY <1>6 DEF BoardInv, Clocked
  <2>2. \A q \in Request : request[q].at = "insert" => Board!Position(t).started
    BY <1>6 DEF BoardInv, Clocked
  <2>3. ASSUME ~late, NEW k \in comments
        PROVE  k.created <= now /\ k.elapsed = Board!ElapsedAt(t, k.created)
    <3>1. k.created <= now /\ k.elapsed = Board!ElapsedAt(ledger, k.created) /\ k.created \in Int
          /\ Board!Position(ledger).started
      BY <2>3 DEF BoardInv, BoardTyped, Clocked
    <3>2. CASE e.kind \in Board!Transitions
      <4>1. k.created <= e.when
        BY <1>2, <1>3, <2>3, <3>2 DEF BoardInv, Clocked
      <4> QED BY <1>2, <1>3, <1>5, <3>1, <4>1, TransitionAppend
    <3>3. CASE e.kind \notin Board!Transitions
      BY <1>2, <1>3, <3>1, <3>3, QuietAppend
    <3> QED BY <3>2, <3>3
  <2>4. ASSUME ~late, NEW q \in Request, request[q].at = "insert", NEW u \in Nat
        PROVE  Board!ElapsedAt(request[q].events, u) = Board!ElapsedAt(t, u)
    <3>1. Board!ElapsedAt(request[q].events, u) = Board!ElapsedAt(ledger, u)
      BY <2>4 DEF BoardInv, Clocked
    <3>2. e.kind \notin Board!Transitions
      <4>1. database = q /\ database # Board!Missing
        BY <2>4 DEF BoardInv, Holding
      <4>2. e.kind \in Board!Transitions => database \in {c, Board!Missing}
        BY <1>2, <1>3, <2>4 DEF BoardInv, Holding
      <4> QED BY <4>1, <4>2 DEF BoardAssumption
    <3>3. u \in Int
      OBVIOUS
    <3> QED BY <1>2, <1>3, <3>1, <3>2, <3>3, QuietAppend
  <2> QED BY <1>2, <1>6, <1>8, <2>1, <2>2, <2>3, <2>4 DEF Clocked, t
<1>10. CASE /\ command[c].kind = "release" /\ command' = [command EXCEPT ![c].at = "log"]
            /\ UNCHANGED <<lock, database>>
  <2> DEFINE m == [command[c] EXCEPT !.at = "log"]
  <2>1. m.at = "log" /\ m.kind = "release" /\ m.inject = command[c].inject /\ m \in CommandRecord
    BY <1>2, <1>10 DEF CommandRecord, CommandStep, BoardInv, BoardTyped
  <2>2. command'[c] = m /\ command' = [command EXCEPT ![c] = m]
    BY <1>10 DEF BoardInv, BoardTyped
  <2> HIDE DEF m
  <2>3. \A d \in Controller \ {c} : command'[d] = Board!NoCommand /\ command'[d].at = "idle"
    BY <1>4, <2>2
  <2>4. p = r + 1 /\ r = l /\ m.inject = r + 1
    BY <1>1, <1>2, <1>10, <2>1 DEF Counts
  <2>5. BoardTyped'
    BY <1>2, <1>6, <1>10, <2>1, <2>2 DEF BoardInv, BoardTyped, CommandRecord, t
  <2>6. \A d \in Controller : Locking(d)'
    BY <1>2, <1>10, <2>1, <2>2, <2>3 DEF Locking, Kind
  <2>7. Holding'
    BY <1>2, <1>10, <2>1, <2>2, <2>3 DEF BoardInv, Holding, Board!Transitions
  <2>8. Order'
    <3>1. public' = 1 .. p /\ Board!Releases(t) = First(r + 1) /\ log' = First(l)
      BY <1>1, <1>2, <1>3, <1>7, <1>10, <2>1, <2>4, FirstIs DEF Counts
    <3>2. Counts(p, r + 1, l)'
      BY <2>1, <2>2, <2>3, <2>4, <3>1 DEF Counts, t
    <3>3. r + 1 \in Nat
      OBVIOUS
    <3> QED BY <3>2, <3>3 DEF Order
  <2> QED BY <1>9, <2>5, <2>6, <2>7, <2>8 DEF BoardInv
<1>11. CASE command[c].kind # "release" /\ Board!Finish(c)
  <2>1. /\ command' = [command EXCEPT ![c] = Board!NoCommand] /\ lock' = Board!None
        /\ database' = IF database = c THEN Board!None ELSE database
    BY <1>11 DEF Board!Finish
  <2>2. \A d \in Controller : command'[d] = Board!NoCommand /\ command'[d].at = "idle"
    BY <1>4, <2>1, Ended DEF BoardInv, BoardTyped
  <2>3. BoardTyped'
    BY <1>2, <1>6, <2>1, Ended DEF BoardInv, BoardTyped, CommandRecord, t
  <2>4. \A d \in Controller : Locking(d)'
    BY <2>2 DEF Locking
  <2>5. Holding'
    <3>1. database' = Board!Missing => database = Board!Missing
      BY <2>1 DEF Board!None, Board!Missing
    <3>2. \A q \in Request : request[q].at \in {"control", "insert"} => database' = q
      BY <2>1 DEF BoardInv, Holding, BoardAssumption
    <3> QED BY <1>2, <2>2, <3>1, <3>2 DEF BoardInv, Holding
  <2>6. Order'
    <3>1. public' = 1 .. p /\ Board!Releases(t) = First(r) /\ log' = First(l)
      BY <1>1, <1>2, <1>3, <1>7, <1>11 DEF Counts
    <3>2. p = l \/ cut'
      BY <1>1, <1>2, <1>4, <1>11 DEF Counts
    <3>3. Counts(p, r, l)'
      BY <1>1, <2>2, <3>1, <3>2, Ended DEF Counts, Board!None, t
    <3> QED BY <3>3 DEF Order
  <2> QED BY <1>9, <2>3, <2>4, <2>5, <2>6 DEF BoardInv
<1> QED BY <1>10, <1>11 DEF Board!SaveLedger

LEMMA ElapsedTyped ==
  ASSUME NEW s \in Seq(Event), NEW moment \in Int
  PROVE  Board!ElapsedAt(s, moment) \in Int
<1>1. PICK n : Counted(s, moment, n)
  BY CountedExists
<1>2. n \in 0 .. Len(s) /\ Board!Clock(s)[n] \in Clocks
  BY <1>1, ClockSteps DEF Counted, ClockTo
<1>3. Board!Elapsed(Board!Clock(s)[n], moment) \in Int
  BY <1>2 DEF Board!Elapsed, Clocks
<1> QED BY <1>1, <1>3, ElapsedCounted

LEMMA ServeKeeps == ASSUME BoardInv, BoardAssumption, Board!Serve PROVE BoardInv'
<1>1. /\ database = Board!Missing /\ database' = Board!None
      /\ late' = (late \/ \E c \in Controller : command[c].kind \in Board!Transitions)
      /\ UNCHANGED <<now, ledger, log, public, boardStaging, lock, comments, command, request, cut>>
  BY DEF Board!Serve, Board!InitializeDatabase
<1>2. BoardTyped'
  BY <1>1 DEF BoardInv, BoardTyped
<1>3. \A c \in Controller : Locking(c)'
  BY <1>1 DEF BoardInv, Locking
<1>4. Order'
  BY <1>1 DEF BoardInv, Order, Counts
<1>5. Clocked'
  BY <1>1 DEF BoardInv, Clocked, EventOf
<1>6. Holding'
  <2>1. \A q \in Request : request'[q].at \notin {"control", "insert"}
    BY <1>1 DEF BoardInv, Holding
  <2>2. ~late' => \A c \in Controller : command'[c].kind \notin Board!Transitions
    BY <1>1
  <2>3. database' # Board!Missing
    BY <1>1 DEF Board!None, Board!Missing
  <2> QED BY <2>1, <2>2, <2>3 DEF Holding
<1> QED BY <1>2, <1>3, <1>4, <1>5, <1>6 DEF BoardInv

\* A request moves on, to no comment or to one with the ledger it has read: the ledger has
\* begun, and the database is still the request's own.
LEMMA RequestMoves ==
  ASSUME BoardInv, BoardAssumption, NEW q \in Request, NEW m \in RequestRecord,
         request' = [request EXCEPT ![q] = m],
         UNCHANGED <<now, ledger, log, public, boardStaging, lock, comments, command, cut, late>>,
         database' \in {q, Board!None, database},
         database' # database => database = Board!None \/ database = q,
         m.at # "idle" => database # Board!Missing,
         m.at \in {"control", "insert"} => database' = q,
         m.at = "insert" => m.events = ledger /\ Board!Position(ledger).started
  PROVE  BoardInv'
<1>1. request'[q] = m /\ \A x \in Request \ {q} : request'[x] = request[x]
  BY DEF BoardInv, BoardTyped
<1>2. BoardTyped'
  BY DEF BoardInv, BoardTyped
<1>3. \A c \in Controller : Locking(c)'
  BY DEF BoardInv, Locking
<1>4. Order'
  BY DEF BoardInv, Order, Counts
<1>5. Clocked'
  BY <1>1 DEF BoardInv, Clocked, EventOf
<1>6. Holding'
  <2>1. database' = Board!Missing => database = Board!Missing
    BY DEF Board!None, BoardAssumption, Board!Missing
  <2>2. ASSUME NEW x \in Request, request'[x].at \in {"control", "insert"} PROVE database' = x
    <3>1. CASE x = q
      BY <1>1, <2>2, <3>1
    <3>2. CASE x # q
      <4>1. database = x
        BY <1>1, <2>2, <3>2 DEF BoardInv, Holding
      <4> QED BY <3>2, <4>1 DEF BoardAssumption
    <3> QED BY <3>1, <3>2
  <2>3. ASSUME ~late, NEW c \in Controller, command[c].kind \in Board!Transitions, command[c].at \in {"read", "save"}
        PROVE  database' \in {c, Board!Missing}
    <3>1. database \in {c, Board!Missing}
      BY <2>3 DEF BoardInv, Holding
    <3>2. database # Board!None /\ database # q
      BY <3>1 DEF BoardAssumption, Board!None, Board!Missing
    <3> QED BY <3>1, <3>2
  <2>4. database' = Board!Missing => comments' = {} /\ \A x \in Request : request'[x].at = "idle"
    BY <1>1, <2>1 DEF BoardInv, Holding
  <2> QED BY <2>2, <2>3, <2>4 DEF Holding
<1> QED BY <1>2, <1>3, <1>4, <1>5, <1>6 DEF BoardInv

LEMMA NoRequestTyped == Board!NoRequest \in RequestRecord /\ Board!NoRequest.at = "idle"
<1>1. <<>> \in Seq(Event)
  OBVIOUS
<1> QED BY <1>1 DEF RequestRecord, Board!NoRequest, RequestStep

LEMMA RequestKeeps ==
  ASSUME BoardInv, BoardAssumption, NEW q \in Request,
         Board!Update(q) \/ Board!BeginImmediate(q) \/ Board!ReadControl(q)
  PROVE  BoardInv'
<1>1. request[q] \in RequestRecord /\ ledger \in Seq(Event)
  BY DEF BoardInv, BoardTyped
<1>2. CASE Board!Update(q)
  <2> DEFINE m == [request[q] EXCEPT !.at = "database"]
  <2>1. m.at = "database" /\ m \in RequestRecord
    BY <1>1 DEF RequestRecord, RequestStep
  <2>2. request' = [request EXCEPT ![q] = m] /\ database' = database /\ database # Board!Missing
        /\ UNCHANGED <<now, ledger, log, public, boardStaging, lock, comments, command, cut, late>>
    BY <1>2 DEF Board!Update
  <2> HIDE DEF m
  <2> QED BY <2>1, <2>2, RequestMoves
<1>3. CASE Board!BeginImmediate(q)
  <2> DEFINE m == [request[q] EXCEPT !.at = "control"]
  <2>1. m.at = "control" /\ m \in RequestRecord
    BY <1>1 DEF RequestRecord, RequestStep
  <2>2. request' = [request EXCEPT ![q] = m] /\ database = Board!None /\ database' = q
        /\ UNCHANGED <<now, ledger, log, public, boardStaging, lock, comments, command, cut, late>>
    BY <1>3 DEF Board!BeginImmediate
  <2> HIDE DEF m
  <2>3. database # Board!Missing
    BY <2>2 DEF Board!None, Board!Missing
  <2> QED BY <2>1, <2>2, <2>3, RequestMoves
<1>4. CASE Board!ReadControl(q)
  <2>1. request[q].at = "control" /\ database = q
        /\ UNCHANGED <<now, ledger, log, public, boardStaging, lock, comments, command, cut, late>>
    BY <1>4 DEF Board!ReadControl, BoardInv, Holding
  <2>2. CASE Board!Leave(q)
    <3>1. request' = [request EXCEPT ![q] = Board!NoRequest] /\ database' = Board!None
      BY <2>1, <2>2 DEF Board!Leave
    <3> QED BY <2>1, <3>1, NoRequestTyped, RequestMoves
  <2>3. CASE /\ {k \in DOMAIN ledger : ledger[k].kind \in Board!Transitions} # {}
             /\ request' = [request EXCEPT ![q] = [at |-> "insert", events |-> ledger]]
             /\ UNCHANGED database
    <3> DEFINE m == [at |-> "insert", events |-> ledger]
    <3>1. m.at = "insert" /\ m.events = ledger /\ m \in RequestRecord
      BY <1>1 DEF RequestRecord, RequestStep
    <3>2. Board!Position(ledger).started
      BY <1>1, <2>3 DEF BoardInv, Clocked, Regular
    <3>3. request' = [request EXCEPT ![q] = m] /\ database' = database
      BY <2>3
    <3>4. database # Board!Missing
      BY <2>1 DEF BoardAssumption
    <3> HIDE DEF m
    <3> QED BY <2>1, <3>1, <3>2, <3>3, <3>4, RequestMoves
  <2> QED BY <1>4, <2>2, <2>3 DEF Board!ReadControl
<1> QED BY <1>2, <1>3, <1>4

\* The comment holds the database since it read the ledger: no transition is about to be
\* appended behind it.
LEMMA InsertCommentKeeps ==
  ASSUME BoardInv, BoardAssumption, NEW q \in Request, Board!InsertComment(q)
  PROVE  BoardInv'
<1> DEFINE new == [created |-> now, elapsed |-> Board!ElapsedAt(request[q].events, now)]
<1>1. /\ request[q].at = "insert" /\ database = q /\ Board!Position(ledger).started
      /\ comments' = comments \cup {new}
      /\ request' = [request EXCEPT ![q] = Board!NoRequest] /\ database' = Board!None
      /\ UNCHANGED <<now, ledger, log, public, boardStaging, lock, command, cut, late, boardFaults>>
  BY DEF Board!InsertComment, Board!Leave, BoardInv, Holding, Clocked
<1>2. now \in Nat /\ now \in Int /\ request[q].events \in Seq(Event)
  BY DEF BoardInv, BoardTyped, RequestRecord
<1>3. new.created = now /\ new \in [created : Nat, elapsed : Int]
  BY <1>2, ElapsedTyped
<1>4. ~late => new.elapsed = Board!ElapsedAt(ledger, now)
  BY <1>1, <1>2 DEF BoardInv, Clocked
<1> HIDE DEF new
<1>5. request'[q] = Board!NoRequest /\ request'[q].at = "idle"
      /\ \A x \in Request \ {q} : request'[x] = request[x]
  BY <1>1, NoRequestTyped DEF BoardInv, BoardTyped
<1>6. BoardTyped'
  BY <1>1, <1>3, NoRequestTyped DEF BoardInv, BoardTyped
<1>7. \A c \in Controller : Locking(c)'
  BY <1>1 DEF BoardInv, Locking
<1>8. Order'
  BY <1>1 DEF BoardInv, Order, Counts
<1>9. ~late => \A c \in Controller : ~(command[c].kind \in Board!Transitions /\ command[c].at \in {"read", "save"})
  BY <1>1 DEF BoardInv, Holding, BoardAssumption
<1>10. Holding'
  <2>1. \A x \in Request : request'[x].at \notin {"control", "insert"}
    BY <1>1, <1>5 DEF BoardInv, Holding
  <2>2. database' # Board!Missing
    BY <1>1 DEF Board!None, Board!Missing
  <2> QED BY <1>1, <1>9, <2>1, <2>2 DEF Holding
<1>11. Clocked'
  <2>1. \A k \in comments' : k \in comments \/ k = new
    BY <1>1
  <2>2. ~late => \A k \in comments' : k.created <= now /\ k.elapsed = Board!ElapsedAt(ledger, k.created)
    BY <1>2, <1>3, <1>4, <2>1 DEF BoardInv, Clocked
  <2>3. \A x \in Request : request'[x].at = "insert" => x # q
    BY <1>5
  <2> QED BY <1>1, <1>5, <1>9, <2>2, <2>3 DEF BoardInv, Clocked, EventOf
<1> QED BY <1>6, <1>7, <1>8, <1>10, <1>11 DEF BoardInv

LEMMA TimeKeeps == ASSUME BoardInv, Board!Tick \/ Board!StepBack PROVE BoardInv'
<1>1. UNCHANGED <<ledger, log, public, boardStaging, lock, database, comments, command, request, cut>>
  BY DEF Board!Tick, Board!StepBack
<1>2. now \in Nat /\ now' \in Nat /\ late' \in BOOLEAN /\ (late => late')
  <2>1. now \in Nat /\ late \in BOOLEAN
    BY DEF BoardInv, BoardTyped
  <2>2. CASE Board!Tick
    BY <2>1, <2>2 DEF Board!Tick
  <2>3. CASE Board!StepBack
    <3>1. now' \in Nat
      BY <2>1, <2>3 DEF Board!StepBack
    <3>2. late' = (late \/ \E c \in comments : c.created = now)
      BY <2>3 DEF Board!StepBack
    <3> QED BY <2>1, <3>1, <3>2
  <2> QED BY <2>2, <2>3
<1>3. ~late' => \A k \in comments : k.created <= now'
  <2>1. ASSUME ~late', NEW k \in comments PROVE k.created <= now'
    <3>1. k.created <= now /\ k.created \in Nat
      BY <1>2, <2>1 DEF BoardInv, BoardTyped, Clocked
    <3>2. CASE Board!Tick
      BY <1>2, <3>1, <3>2 DEF Board!Tick
    <3>3. CASE Board!StepBack
      <4>1. k.created # now /\ now' = now - 1
        BY <2>1, <3>3 DEF Board!StepBack
      <4> QED BY <1>2, <3>1, <4>1
    <3> QED BY <3>2, <3>3
  <2> QED BY <2>1
<1>4. BoardTyped'
  BY <1>1, <1>2 DEF BoardInv, BoardTyped
<1>5. \A c \in Controller : Locking(c)'
  BY <1>1 DEF BoardInv, Locking
<1>6. Holding'
  BY <1>1, <1>2 DEF BoardInv, Holding
<1>7. Order'
  BY <1>1 DEF BoardInv, Order, Counts
<1>8. Clocked'
  BY <1>1, <1>2, <1>3 DEF BoardInv, Clocked, EventOf
<1> QED BY <1>4, <1>5, <1>6, <1>7, <1>8 DEF BoardInv

LEMMA BoardNext ==
  ASSUME BoardInv, BoardAssumption, [Board!Next]_Board!vars
  PROVE  BoardInv'
<1>1. ASSUME NEW c \in Controller, NEW kind \in Board!Transitions \cup {"decision"},
             Board!Command(c, kind, 0) \/ Board!Panel(c, kind, 0)
      PROVE  BoardInv'
  BY <1>1, BeginKeeps DEF Board!Command, Board!Panel
<1>2. ASSUME NEW c \in Controller, NEW n \in Board!Inject,
             Board!Command(c, "release", n) \/ Board!Panel(c, "release", n)
      PROVE  BoardInv'
  <2>1. n \in Nat
    BY DEF Board!Inject
  <2> QED BY <1>2, <2>1, BeginKeeps DEF Board!Command, Board!Panel
<1>3. ASSUME NEW c \in Controller,
             Board!TakeDatabase(c) \/ Board!ReadLedger(c) \/ Board!SaveLedger(c)
             \/ Board!VerifyRelease(c) \/ Board!Stage(c)
               \/ Board!Publish(c) \/ Board!WriteLog(c) \/ Board!Kill(c)
      PROVE  BoardInv'
  BY <1>3, TakeDatabaseKeeps, ReadLedgerKeeps, SaveLedgerKeeps, VerifyReleaseKeeps, StageKeeps,
     PublishKeeps, WriteLogKeeps, KillKeeps
<1>4. ASSUME NEW q \in Request,
             Board!Update(q) \/ Board!BeginImmediate(q) \/ Board!ReadControl(q) \/ Board!InsertComment(q)
      PROVE  BoardInv'
  BY <1>4, RequestKeeps, InsertCommentKeeps
<1>5. CASE Board!Inspect \/ Board!Serve \/ Board!Tick \/ Board!StepBack
  BY <1>5, InspectKeeps, ServeKeeps, TimeKeeps
<1>6. CASE UNCHANGED Board!vars
  <2>1. BoardTyped'
    BY <1>6 DEF BoardInv, BoardTyped, Board!vars
  <2>2. \A c \in Controller : Locking(c)'
    BY <1>6 DEF BoardInv, Locking, Board!vars
  <2>3. Holding' /\ Clocked'
    BY <1>6 DEF BoardInv, Holding, Clocked, EventOf, Board!vars
  <2>4. Order'
    BY <1>6 DEF BoardInv, Order, Counts, Board!vars
  <2> QED BY <2>1, <2>2, <2>3, <2>4 DEF BoardInv
<1> QED BY <1>1, <1>2, <1>3, <1>4, <1>5, <1>6 DEF Board!Next

LEMMA BoardCardinality == ASSUME NEW S PROVE Board!Cardinality(S) = Cardinality(S)
BY DEF Board!Cardinality, Cardinality

LEMMA UpToCard == ASSUME NEW n \in Nat PROVE Cardinality(1 .. n) = n
<1>1. 0 \in Nat /\ 1 \in Int /\ n \in Int
  OBVIOUS
<1> QED BY <1>1, FS_Interval

LEMMA FirstPrefix ==
  ASSUME NEW l \in Nat, NEW r \in Nat, l <= r
  PROVE  Board!IsPrefix(First(l), First(r))
<1>1. Len(First(l)) = l /\ Len(First(r)) = r /\ l <= r
  BY FirstIs
<1>2. SubSeq(First(r), 1, l) = First(l)
  BY DEF First
<1> QED BY <1>1, <1>2 DEF Board!IsPrefix

\* The counts of the three agree where nobody is at work and no release was cut short.
LEMMA OrderAgrees ==
  ASSUME BoardInv, BoardAssumption
  PROVE  Board!ReleasesAgree
<1>1. PICK p \in Nat, r \in Nat, l \in Nat : Counts(p, r, l)
  BY DEF BoardInv, Order
<1>2. /\ public = 1 .. p /\ Board!Releases(ledger) = First(r) /\ log = First(l)
      /\ l <= r /\ r <= p /\ p <= l + 1
  BY <1>1 DEF Counts
<1>3. Board!Cardinality(public) = p
  BY <1>2, UpToCard, BoardCardinality
<1>4. Len(First(r)) = r /\ Len(First(l)) = l
  BY FirstIs
<1>5. First(r) = [k \in 1 .. Len(First(r)) |-> k]
  BY <1>4 DEF First
<1>6. ASSUME lock = Board!None, ~cut PROVE Board!Verify
  <2>1. \A c \in Controller : command[c].at = "idle"
    BY <1>6 DEF BoardInv, Locking, BoardAssumption
  <2>2. p = l /\ r = l
    BY <1>1, <1>2, <1>6, <2>1 DEF Counts
  <2>3. DOMAIN First(l) = 1 .. l
    BY DEF First
  <2>4. {First(l)[k] : k \in DOMAIN First(l)} = 1 .. l
    BY <2>3, FirstIs
  <2> QED BY <1>2, <2>2, <2>4 DEF Board!Verify
<1>7. p - r \in {0, 1} /\ r - l \in {0, 1}
  BY <1>2
<1>8. public = 1 .. Board!Cardinality(public) /\ Board!IsPrefix(log, Board!Releases(ledger))
  BY <1>2, <1>3, FirstPrefix
<1> QED BY <1>2, <1>3, <1>4, <1>5, <1>6, <1>7, <1>8 DEF Board!ReleasesAgree

\* The elapsed time stored with a comment is the ledger's for good, and injects are public,
\* in the ledger and in the log in one order, none far ahead of the next, whoever is killed
\* (control.py, exercise.py, server.py).
THEOREM LedgersAlwaysAgree ==
  ASSUME BoardAssumption
  PROVE  Board!Spec => [](Board!CommentsOnClock /\ Board!ReleasesAgree)
<1>1. Board!Init => BoardInv
  BY BoardInit
<1>2. BoardInv /\ [Board!Next]_Board!vars => BoardInv'
  BY BoardNext
<1>3. BoardInv => Board!CommentsOnClock /\ Board!ReleasesAgree
  BY OrderAgrees DEF BoardInv, Clocked, Board!CommentsOnClock
<1> QED BY <1>1, <1>2, <1>3, PTL DEF Board!Spec

-----------------------------------------------------------------------------
(***************************************************************************)
(* Profile.  A profile that validation has left is one it leaves alone     *)
(* (ValidateOnce), so that what the journal's fingerprint was taken of is  *)
(* what every later command loads, and a desktop that runs was started by  *)
(* a row of it (ProfileInv).  The rows _check_capacity counts are at least *)
(* as many as the desktops that run: with no crossing of names a service   *)
(* is started by the one row counted for it (PlacedIsItem).                *)
(***************************************************************************)

Resource == [cpu : Int, memory : Int]
DesktopRow == [name : Name, worker : {"local", "w"}, endpoint : Int]
Account == Name \cup (Name \X Int)
TeamRow == [name : Name, members : Nat, desktop : Name, accounts : Seq(Account)]
ProfileRecord ==
  [desktops : Seq(DesktopRow), registration : BOOLEAN, host : Resource, worker : Resource,
   count : Int, teams : Seq(TeamRow)]

\* A profile is typed, and its teams and desktops can be numbered: a service name is made of
\* a team's number, whether or not compose has the service.
Writable(p) ==
  p \in ProfileRecord /\ Len(p.desktops) <= Len(Service) /\ Len(p.teams) <= Len(Service)

\* A name for each number, no two the same.
NameList(names) ==
  /\ names \in Seq(Name) /\ Len(names) = Len(Service)
  /\ \A j, k \in 1 .. Len(names) : names[j] = names[k] => j = k

ProfileAssumption ==
  /\ \A p \in Written : Writable(p)
  /\ NameList(Service) /\ NameList(TeamName) /\ Synthesized \in Seq(Name)
  /\ MaxServices \in Nat /\ MaxServices <= Len(Service) /\ MaxServices <= Len(Synthesized)

LEMMA NormalTeamOnce ==
  ASSUME NEW t \in TeamRow
  PROVE  /\ Profile!NormalTeam(t) \in TeamRow /\ Profile!NormalTeam(Profile!NormalTeam(t)) = Profile!NormalTeam(t)
<1> DEFINE a == IF t.accounts = <<>> THEN Profile!NeutralAccounts(t.name, t.members) ELSE t.accounts
           u == [name |-> t.name, members |-> t.members, desktop |-> t.desktop, accounts |-> a]
<1>1. t = [name |-> t.name, members |-> t.members, desktop |-> t.desktop, accounts |-> t.accounts]
  BY DEF TeamRow
<1>2. Profile!NormalTeam(t) = u
  BY <1>1 DEF Profile!NormalTeam
<1>3. a \in Seq(Account)
  <2>1. Profile!NeutralAccounts(t.name, t.members) \in Seq(Account)
    BY DEF Profile!NeutralAccounts, TeamRow, Account
  <2> QED BY <2>1 DEF TeamRow
<1>4. a = <<>> => Profile!NeutralAccounts(u.name, u.members) = a
  OBVIOUS
<1> HIDE DEF a
<1>5. u \in TeamRow
  BY <1>3 DEF TeamRow
<1>6. Profile!NormalTeam(u) = u
  BY <1>4 DEF Profile!NormalTeam
<1> QED BY <1>2, <1>5, <1>6

\* A neutral team has its accounts and is as valid as an explicit one.
LEMMA NeutralTeams ==
  ASSUME ProfileAssumption, NEW count \in Int, NEW desktops \in Seq(DesktopRow),
         Len(desktops) <= Len(Service), NEW T, T = Profile!NeutralRoster(count, desktops)
  PROVE  /\ T \in Seq(TeamRow) /\ Len(T) <= Len(Service) /\ Profile!ValidTeams(T, desktops)
         /\ \A k \in DOMAIN T : Profile!NormalTeam(T[k]) = T[k]
<1>1. CASE count > Len(desktops) \/ count <= 0
  <2>1. T = <<>>
    BY <1>1 DEF Profile!NeutralRoster
  <2>2. \A k \in DOMAIN T : FALSE
    BY <2>1
  <2>3. T \in Seq(TeamRow) /\ Len(T) <= Len(Service)
    BY <2>1
  <2> QED BY <2>2, <2>3 DEF Profile!ValidTeams
<1>2. CASE count <= Len(desktops) /\ count > 0
  <2> DEFINE team(k) == [name |-> TeamName[k], members |-> Profile!DefaultMembers,
                         desktop |-> desktops[k].name,
                         accounts |-> Profile!NeutralAccounts(TeamName[k], Profile!DefaultMembers)]
  <2>0. count \in Nat /\ \A k \in 1 .. count : k \in 1 .. Len(TeamName) /\ k \in 1 .. Len(desktops)
    BY <1>2 DEF ProfileAssumption, NameList
  <2>1. T = [k \in 1 .. count |-> team(k)]
    BY <1>2 DEF Profile!NeutralRoster
  <2>2. ASSUME NEW k \in 1 .. count
        PROVE  /\ team(k) \in TeamRow /\ Profile!NormalTeam(team(k)) = team(k)
               /\ Len(team(k).accounts) = team(k).members /\ Profile!IsInjective(team(k).accounts)
               /\ team(k).desktop \in Profile!Names(desktops) /\ team(k).name = TeamName[k]
    <3>1. TeamName[k] \in Name /\ desktops[k] \in DesktopRow /\ k \in DOMAIN desktops
      BY <2>0 DEF ProfileAssumption, NameList
    <3> DEFINE a == Profile!NeutralAccounts(TeamName[k], Profile!DefaultMembers)
    <3>2. a \in Seq(Account) /\ Len(a) = 2 /\ DOMAIN a = 1 .. 2
          /\ \A j \in 1 .. 2 : a[j] = <<TeamName[k], j>>
      BY <3>1 DEF Profile!NeutralAccounts, Profile!DefaultMembers, Account
    <3>3. a # <<>>
      BY <3>2
    <3>4. Profile!IsInjective(a)
      BY <3>2 DEF Profile!IsInjective
    <3> HIDE DEF a
    <3> DEFINE t == [name |-> TeamName[k], members |-> Profile!DefaultMembers,
                     desktop |-> desktops[k].name, accounts |-> a]
    <3>5. t \in TeamRow
      BY <3>1, <3>2 DEF TeamRow, DesktopRow, Profile!DefaultMembers
    <3>6. Profile!NormalTeam(t) = t
      BY <3>3 DEF Profile!NormalTeam
    <3>7. Len(t.accounts) = t.members /\ Profile!IsInjective(t.accounts)
      BY <3>2, <3>4 DEF Profile!DefaultMembers
    <3>8. t.desktop \in Profile!Names(desktops) /\ t.name = TeamName[k]
      BY <3>1 DEF Profile!Names
    <3>9. team(k) = t
      BY DEF a
    <3> HIDE DEF t
    <3> QED BY <3>5, <3>6, <3>7, <3>8, <3>9
  <2> HIDE DEF team
  <2>3. T \in Seq(TeamRow) /\ Len(T) = count /\ DOMAIN T = 1 .. count
        /\ \A k \in 1 .. count : T[k] = team(k)
    BY <2>0, <2>1, <2>2
  <2>4. Len(T) <= Len(Service)
    BY <1>2, <2>3
  <2>5. \A j, k \in 1 .. count : j # k => TeamName[j] # TeamName[k]
    BY <2>0 DEF ProfileAssumption, NameList
  <2>6. \A j, k \in DOMAIN T : j # k => T[j].name # T[k].name
    BY <2>2, <2>3, <2>5
  <2>7. Profile!ValidTeams(T, desktops)
    BY <2>2, <2>3, <2>6 DEF Profile!ValidTeams
  <2> QED BY <2>2, <2>3, <2>4, <2>7
<1> QED BY <1>1, <1>2

WithTeams(p, teams, count) == [p EXCEPT !.teams = teams, !.count = count]
WithDesktops(p, desktops) == [p EXCEPT !.desktops = desktops]

LEMMA RosterPut ==
  ASSUME NEW p \in ProfileRecord, NEW teams \in Seq(TeamRow), NEW count \in Int
  PROVE  /\ WithTeams(p, teams, count) \in ProfileRecord
         /\ WithTeams(p, teams, count).desktops = p.desktops
         /\ WithTeams(p, teams, count).registration = p.registration
         /\ WithTeams(p, teams, count).teams = teams
         /\ WithTeams(p, teams, count).count = count
<1> DEFINE lit(t, c) == [desktops |-> p.desktops, registration |-> p.registration, host |-> p.host,
                         worker |-> p.worker, count |-> c, teams |-> t]
<1>1. p = lit(p.teams, p.count)
  BY DEF ProfileRecord
<1>2. [lit(p.teams, p.count) EXCEPT !.teams = teams] = lit(teams, p.count)
  OBVIOUS
<1>3. [lit(teams, p.count) EXCEPT !.count = count] = lit(teams, count)
  OBVIOUS
<1>4. WithTeams(p, teams, count) = lit(teams, count)
  <2> HIDE DEF lit
  <2> QED BY <1>1, <1>2, <1>3 DEF WithTeams
<1>5. lit(teams, count) \in ProfileRecord
  BY DEF ProfileRecord
<1>6. /\ lit(teams, count).desktops = p.desktops /\ lit(teams, count).registration = p.registration
      /\ lit(teams, count).teams = teams /\ lit(teams, count).count = count
  OBVIOUS
<1> HIDE DEF lit
<1> QED BY <1>4, <1>5, <1>6

LEMMA DesktopsPut ==
  ASSUME NEW p \in ProfileRecord, NEW d \in Seq(DesktopRow), NEW v, v = WithDesktops(p, d)
  PROVE  v \in ProfileRecord /\ v.desktops = d /\ v.teams = p.teams /\ v.count = p.count
<1> DEFINE lit(x) == [desktops |-> x, registration |-> p.registration, host |-> p.host,
                      worker |-> p.worker, count |-> p.count, teams |-> p.teams]
<1>1. p = lit(p.desktops)
  BY DEF ProfileRecord
<1>2. [lit(p.desktops) EXCEPT !.desktops = d] = lit(d)
  OBVIOUS
<1>3. v = lit(d)
  <2> HIDE DEF lit
  <2> QED BY <1>1, <1>2 DEF WithDesktops
<1>4. lit(d) \in ProfileRecord
  BY DEF ProfileRecord
<1> QED BY <1>3, <1>4

\* Validating what validation returned returns it: every later command finds the profile
\* whose fingerprint the journal holds.
LEMMA ValidateOnce ==
  ASSUME ProfileAssumption, NEW p, Writable(p), NEW n, n = Profile!Validate(p), n # Profile!Refused
  PROVE  /\ Writable(n) /\ Profile!Validate(n) = n /\ Profile!ValidDesktops(n.desktops) /\ Profile!Capacity(n)
         /\ n.registration => Profile!ValidRegistration(n)
<1> DEFINE T == Profile!NormalTeams(p)
           v == [p EXCEPT !.teams = T, !.count = Len(T)]
<1>1. /\ p \in ProfileRecord /\ p.desktops \in Seq(DesktopRow) /\ p.teams \in Seq(TeamRow)
      /\ p.registration \in BOOLEAN /\ p.count \in Int
      /\ Len(p.desktops) <= Len(Service) /\ Len(p.teams) <= Len(Service)
  BY DEF Writable, ProfileRecord
<1>2. /\ n = v /\ Profile!ValidDesktops(p.desktops) /\ Profile!Capacity(v)
      /\ p.registration => Profile!ValidRegistration(p)
      /\ ~p.registration => T # <<>>
      /\ ~p.registration /\ p.teams # <<>> => Profile!ValidTeams(T, p.desktops)
  BY DEF Profile!Validate
<1>3. /\ T \in Seq(TeamRow) /\ Len(T) <= Len(Service)
      /\ p.registration => T = <<>>
      /\ ~p.registration => Profile!ValidTeams(T, p.desktops) /\ \A k \in DOMAIN T : Profile!NormalTeam(T[k]) = T[k]
  <2>1. CASE p.registration
    <3>1. T = <<>>
      BY <2>1 DEF Profile!NormalTeams
    <3> QED BY <2>1, <3>1, <1>1
  <2>2. CASE ~p.registration /\ p.teams # <<>>
    <3>1. T = [k \in DOMAIN p.teams |-> Profile!NormalTeam(p.teams[k])]
      BY <2>2 DEF Profile!NormalTeams
    <3>2. DOMAIN p.teams = 1 .. Len(p.teams) /\ \A k \in 1 .. Len(p.teams) : p.teams[k] \in TeamRow
      BY <1>1
    <3>3. \A k \in DOMAIN p.teams : Profile!NormalTeam(p.teams[k]) \in TeamRow
            /\ Profile!NormalTeam(Profile!NormalTeam(p.teams[k])) = Profile!NormalTeam(p.teams[k])
      BY <3>2, NormalTeamOnce
    <3>4. T \in Seq(TeamRow) /\ Len(T) = Len(p.teams)
      BY <1>1, <3>1, <3>2, <3>3
    <3> QED BY <1>1, <1>2, <2>2, <3>1, <3>3, <3>4
  <2>3. CASE ~p.registration /\ p.teams = <<>>
    <3> DEFINE count == IF p.count = Profile!Absent THEN Len(p.desktops) ELSE p.count
    <3>1. T = Profile!NeutralRoster(count, p.desktops) /\ count \in Int
      BY <1>1, <2>3 DEF Profile!NormalTeams
    <3> HIDE DEF count, T
    <3> QED BY <1>1, <2>3, <3>1, NeutralTeams
  <2> QED BY <2>1, <2>2, <2>3
<1> HIDE DEF T
<1>4. /\ v \in ProfileRecord /\ v.desktops = p.desktops /\ v.registration = p.registration
      /\ v.teams = T /\ v.count = Len(T)
  <2>1. Len(T) \in Int
    BY <1>3
  <2>2. v = WithTeams(p, T, Len(T))
    BY DEF WithTeams
  <2>3. p \in ProfileRecord /\ T \in Seq(TeamRow)
    BY <1>1, <1>3
  <2> HIDE DEF v
  <2> QED BY <2>1, <2>2, <2>3, RosterPut
<1> HIDE DEF v
<1>5. Writable(v)
  BY <1>1, <1>3, <1>4 DEF Writable
<1>6. Profile!NormalTeams(v) = T
  <2>1. CASE p.registration
    BY <1>3, <1>4, <2>1 DEF Profile!NormalTeams
  <2>2. CASE ~p.registration
    <3>1. Profile!NormalTeams(v) = [k \in DOMAIN T |-> Profile!NormalTeam(T[k])]
      BY <1>2, <1>4, <2>2 DEF Profile!NormalTeams
    <3>2. T = [k \in DOMAIN T |-> T[k]]
      BY <1>3
    <3> QED BY <1>3, <2>2, <3>1, <3>2
  <2> QED BY <1>1, <2>1, <2>2
<1>7. [v EXCEPT !.teams = Profile!NormalTeams(v), !.count = Len(Profile!NormalTeams(v))] = v
  BY <1>4, <1>6 DEF ProfileRecord
<1>8. p.registration => Profile!ValidRegistration(v)
  BY <1>2, <1>3, <1>4 DEF Profile!ValidRegistration
<1>9. Profile!Validate(v) = v
  BY <1>2, <1>3, <1>4, <1>6, <1>7, <1>8 DEF Profile!Validate
<1> QED BY <1>2, <1>4, <1>5, <1>8, <1>9

LEMMA OverrideWritable ==
  ASSUME ProfileAssumption, NEW p, Writable(p), NEW teams \in 1 .. MaxServices
  PROVE  Writable(Profile!TeamOverride(p, teams))
<1>1. p \in ProfileRecord /\ p.desktops \in Seq(DesktopRow) /\ Len(p.desktops) \in Nat
      /\ Len(p.desktops) <= Len(Service)
  BY DEF Writable, ProfileRecord
<1> DEFINE m == Len(p.desktops)
           row(k) == [name |-> Synthesized[m + k], worker |-> "local", endpoint |-> 1]
           extra == [k \in 1 .. teams - m |-> row(k)]
           d == p.desktops \o extra
<1>2. teams \in Nat /\ teams <= Len(Service) /\ teams <= Len(Synthesized) /\ Synthesized \in Seq(Name)
      /\ Len(Synthesized) \in Nat
  BY DEF ProfileAssumption, NameList
<1>3. \A k \in 1 .. teams - m : row(k) \in DesktopRow
  <2>1. \A k \in 1 .. teams - m : Synthesized[m + k] \in Name
    BY <1>1, <1>2
  <2> QED BY <2>1 DEF DesktopRow
<1> HIDE DEF row
<1>6. ASSUME d \in Seq(DesktopRow), Len(d) <= Len(Service) PROVE Writable(Profile!TeamOverride(p, teams))
  <2> DEFINE q == [p EXCEPT !.desktops = d]
             v == [q EXCEPT !.teams = <<>>, !.count = teams]
  <2>1. q \in ProfileRecord /\ q.desktops = d
    <3>1. q = WithDesktops(p, d)
      BY DEF WithDesktops
    <3> HIDE DEF d, q
    <3> QED BY <1>1, <1>6, <3>1, DesktopsPut
  <2>2. Profile!TeamOverride(p, teams) = v
    BY DEF Profile!TeamOverride, row
  <2> HIDE DEF q, d
  <2>3. <<>> \in Seq(TeamRow) /\ teams \in Int /\ Len(<<>>) <= Len(Service)
    BY <1>2
  <2>4. v = WithTeams(q, <<>>, teams)
    BY DEF WithTeams
  <2> HIDE DEF v
  <2>5. v \in ProfileRecord /\ v.desktops = d /\ v.teams = <<>>
    BY <2>1, <2>3, <2>4, RosterPut
  <2> QED BY <1>6, <2>2, <2>3, <2>5 DEF Writable
<1>4. CASE teams <= m
  <2>1. extra = <<>>
    BY <1>1, <1>2, <1>4
  <2>2. d \in Seq(DesktopRow) /\ Len(d) <= Len(Service)
    <3> HIDE DEF extra
    <3>1. d = p.desktops
      BY <1>1, <2>1
    <3> QED BY <1>1, <3>1
  <2> QED BY <1>2, <1>6, <2>2
<1>5. CASE teams > m
  <2>1. extra \in Seq(DesktopRow) /\ Len(extra) = teams - m
    BY <1>1, <1>2, <1>3, <1>5
  <2>2. d \in Seq(DesktopRow) /\ Len(d) = teams
    <3> HIDE DEF extra
    <3> QED BY <1>1, <1>2, <2>1
  <2> QED BY <1>2, <1>6, <2>2
<1> QED BY <1>1, <1>2, <1>4, <1>5

\* A profile as validation leaves it.
Kept(p) ==
  /\ p # Profile!Refused /\ Writable(p) /\ Profile!Validate(p) = p /\ Profile!ValidDesktops(p.desktops) /\ Profile!Capacity(p)
  /\ p.registration => Profile!ValidRegistration(p)

LEMMA LoadedIsKept ==
  ASSUME ProfileAssumption, Writable(profile), NEW teams \in 0 .. MaxServices,
         NEW p, p = Profile!Load(teams), p # Profile!Refused
  PROVE  Kept(p) /\ Profile!ValidWorkers(p) /\ p # Profile!None
<1> DEFINE q == IF teams = 0 THEN profile ELSE Profile!TeamOverride(profile, teams)
<1>1. Writable(q)
  BY OverrideWritable DEF ProfileAssumption
<1>2. p = Profile!Validate(q) /\ Profile!ValidWorkers(p)
  BY DEF Profile!Load
<1> HIDE DEF q
<1>3. Writable(p) /\ Profile!Validate(p) = p /\ Profile!ValidDesktops(p.desktops) /\ Profile!Capacity(p)
      /\ (p.registration => Profile!ValidRegistration(p))
  BY <1>1, <1>2, ValidateOnce
<1>4. p # Profile!None
  BY <1>3 DEF Writable, ProfileRecord, Profile!None
<1> QED BY <1>2, <1>3, <1>4 DEF Kept

\* The services whose desktops a profile may have started.
ServicesOf(p) == IF p.registration THEN Profile!Range(Slot) ELSE {Service[k] : k \in DOMAIN p.teams}

\* The journal's profile is one that validation leaves alone; once settled, every command
\* finds it again, and only its services have been started.
ProfileInv ==
  /\ Writable(profile) /\ override \in 0 .. MaxServices
  /\ journal # Profile!None => Kept(journal)
  /\ settled => journal # Profile!None
  /\ ~settled => started = {}
  /\ settled /\ ~profileLate => Profile!Load(override) = journal /\ started \subseteq Profile!Placed(journal, ServicesOf(journal))

\* journal' is the profile loaded.
LEMMA ProvisionKeeps ==
  ASSUME ProfileAssumption, ProfileInv, NEW teams \in 0 .. MaxServices, Profile!Provision(teams),
         override' = teams, UNCHANGED <<profile, relay>>,
         ~profileLate' => ~profileLate /\ (override = teams \/ journal = Profile!None)
  PROVE  ProfileInv'
<1> DEFINE p == Profile!Load(teams)
<1>1. Writable(profile) /\ Writable(profile')
  BY DEF ProfileInv
<1>2. Profile!Load(teams)' = p
  BY DEF Profile!Load, Profile!ValidWorkers
<1>3. Profile!Load(override)' = p
  BY <1>2
<1>4. CASE UNCHANGED <<journal, settled, started>>
  <2>1. settled' /\ ~profileLate' => Profile!Load(override) = journal /\ override = teams
    BY <1>4 DEF ProfileInv
  <2>2. settled' /\ ~profileLate' => Profile!Load(override)' = journal'
    BY <1>3, <1>4, <2>1
  <2>3. Profile!Placed(journal, ServicesOf(journal))' = Profile!Placed(journal, ServicesOf(journal))
    BY <1>4 DEF Profile!Placed, ServicesOf, Profile!DesktopSpec, Profile!RowOf
  <2>4. settled' /\ ~profileLate' => started' \subseteq Profile!Placed(journal, ServicesOf(journal))'
    BY <1>4, <2>3 DEF ProfileInv
  <2> QED BY <1>1, <1>4, <2>2, <2>4 DEF ProfileInv
<1>5. CASE /\ p # Profile!Refused /\ ~(journal \notin {Profile!None, p} /\ settled)
           /\ journal' = Profile!Validate(p)
           /\ \/ UNCHANGED <<settled, started>>
              \/ /\ settled' = TRUE
                 /\ started' = started \cup Profile!Placed(p, {Service[k] : k \in DOMAIN p.teams})
  <2>1. Kept(p) /\ Profile!ValidWorkers(p) /\ p # Profile!None /\ Profile!Validate(p) = p
    BY <1>1, <1>5, LoadedIsKept DEF Kept
  <2>2. journal' = p
    BY <1>5, <2>1
  <2> HIDE DEF p
  <2>3. settled => journal = p
    BY <1>5 DEF ProfileInv
  <2>5. Profile!Placed(p, {Service[k] : k \in DOMAIN p.teams}) \subseteq Profile!Placed(p, ServicesOf(p))
    <3>1. p.registration => p.teams = <<>>
      BY <2>1 DEF Kept, Profile!ValidRegistration
    <3>2. p.registration => \A k \in DOMAIN p.teams : FALSE
      BY <3>1
    <3> QED BY <3>2 DEF Profile!Placed, ServicesOf
  <2>6. settled /\ ~profileLate' => started \subseteq Profile!Placed(p, ServicesOf(p))
    BY <2>3 DEF ProfileInv
  <2>7. settled' /\ ~profileLate' => started' \subseteq Profile!Placed(p, ServicesOf(p))
    BY <1>5, <2>5, <2>6 DEF ProfileInv
  <2>8. ~settled' => started' = {}
    BY <1>5 DEF ProfileInv
  <2>9. journal' # Profile!None /\ journal' = p
    BY <2>1, <2>2
  <2>10. Kept(journal)'
    BY <2>1, <2>2
  <2>11. Profile!Placed(journal, ServicesOf(journal))' = Profile!Placed(p, ServicesOf(p))
    BY <2>2 DEF Profile!Placed, ServicesOf, Profile!DesktopSpec, Profile!RowOf
  <2> QED BY <1>1, <1>3, <2>7, <2>8, <2>9, <2>10, <2>11 DEF ProfileInv
<1> QED BY <1>4, <1>5 DEF Profile!Provision

LEMMA ProfileInit == ASSUME ProfileAssumption, Profile!Init PROVE ProfileInv
<1>1. override \in 0 .. MaxServices
  BY DEF Profile!Init, ProfileAssumption
<1> QED BY <1>1 DEF Profile!Init, ProfileInv, ProfileAssumption

LEMMA ProfileNext ==
  ASSUME ProfileAssumption, ProfileInv, [Profile!Next]_Profile!vars
  PROVE  ProfileInv'
<1>1. CASE Profile!Up
  <2>1. override \in 0 .. MaxServices
    BY DEF ProfileInv
  <2> QED BY <1>1, <2>1, ProvisionKeeps DEF Profile!Up
<1>2. ASSUME NEW teams \in 1 .. MaxServices, Profile!UpTeams(teams) PROVE ProfileInv'
  <2>1. teams \in 0 .. MaxServices
    BY DEF ProfileAssumption
  <2>2. override' = teams /\ Profile!Provision(teams) /\ UNCHANGED <<profile, relay>>
    BY <1>2 DEF Profile!UpTeams
  <2>3. ~profileLate' => ~profileLate /\ (override = teams \/ journal = Profile!None)
    BY <1>2 DEF Profile!UpTeams
  <2> QED BY <2>1, <2>2, <2>3, ProvisionKeeps
<1>3. ASSUME NEW slot \in Profile!Range(Slot), Profile!StartSlot(slot) PROVE ProfileInv'
  <2>1. /\ settled /\ Profile!Load(override).registration
        /\ started' = started \cup Profile!Placed(Profile!Load(override), {slot})
        /\ UNCHANGED <<profile, relay, override, journal, settled, profileLate>>
    BY <1>3 DEF Profile!StartSlot
  <2>2. ~profileLate => journal.registration /\ started' = started \cup Profile!Placed(journal, {slot})
    BY <2>1 DEF ProfileInv
  <2>3. ~profileLate => started' \subseteq Profile!Placed(journal, ServicesOf(journal))
    <3>1. ~profileLate => started \subseteq Profile!Placed(journal, ServicesOf(journal))
      BY <2>1 DEF ProfileInv
    <3>2. ~profileLate => Profile!Placed(journal, {slot}) \subseteq Profile!Placed(journal, ServicesOf(journal))
      BY <2>2 DEF Profile!Placed, ServicesOf
    <3> QED BY <2>2, <3>1, <3>2
  <2>4. Profile!Load(override)' = Profile!Load(override)
    BY <2>1 DEF Profile!Load, Profile!ValidWorkers
  <2>5. Profile!Placed(journal, ServicesOf(journal))' = Profile!Placed(journal, ServicesOf(journal))
    BY <2>1 DEF Profile!Placed, ServicesOf, Profile!DesktopSpec, Profile!RowOf
  <2>6. Kept(journal)' <=> Kept(journal)
    BY <2>1 DEF Kept
  <2> QED BY <2>1, <2>3, <2>4, <2>5, <2>6 DEF ProfileInv
<1>4. CASE Profile!Down \/ UNCHANGED Profile!vars
  <2>1. started' \subseteq started /\ UNCHANGED <<profile, relay, override, journal, settled, profileLate>>
    BY <1>4 DEF Profile!Down, Profile!vars
  <2>2. Profile!Load(override)' = Profile!Load(override)
    BY <2>1 DEF Profile!Load, Profile!ValidWorkers
  <2>3. Profile!Placed(journal, ServicesOf(journal))' = Profile!Placed(journal, ServicesOf(journal))
    BY <2>1 DEF Profile!Placed, ServicesOf, Profile!DesktopSpec, Profile!RowOf
  <2>4. Kept(journal)' <=> Kept(journal)
    BY <2>1 DEF Kept
  <2>5. settled /\ ~profileLate => started' \subseteq Profile!Placed(journal, ServicesOf(journal))
    BY <2>1 DEF ProfileInv
  <2>6. ~settled => started' = {}
    BY <2>1 DEF ProfileInv
  <2> QED BY <2>1, <2>2, <2>3, <2>4, <2>5, <2>6 DEF ProfileInv
<1> QED BY <1>1, <1>2, <1>3, <1>4 DEF Profile!Next

\* The rows _check_capacity counts, and what starting the one numbered k adds.
ActiveRows(p) ==
  IF p.registration THEN p.desktops
  ELSE [k \in DOMAIN p.teams |-> Profile!RowOf(p, p.teams[k].desktop)]
Item(p, k) ==
  [service |-> IF p.registration THEN p.desktops[k].name ELSE Service[k], row |-> ActiveRows(p)[k]]
OnHost(p, host) == {k \in DOMAIN ActiveRows(p) : ActiveRows(p)[k].worker = host}

LEMMA RowFound ==
  ASSUME NEW p, NEW name \in Profile!Names(p.desktops)
  PROVE  \E k \in DOMAIN p.desktops : Profile!RowOf(p, name) = p.desktops[k] /\ p.desktops[k].name = name
BY DEF Profile!Names, Profile!RowOf

LEMMA KeptTeams ==
  ASSUME NEW p, Kept(p), ~p.registration
  PROVE  \A k \in DOMAIN p.teams : p.teams[k].desktop \in Profile!Names(p.desktops)
<1> DEFINE n == WithTeams(p, Profile!NormalTeams(p), Len(Profile!NormalTeams(p)))
<1>1. p # Profile!Refused /\ p = Profile!Validate(p) /\ p \in ProfileRecord
  BY DEF Kept, Writable
<1>2. p = n /\ n.teams # <<>> /\ (p.teams # <<>> => Profile!ValidTeams(n.teams, p.desktops))
  BY <1>1 DEF Profile!Validate, WithTeams
<1> HIDE DEF n
<1>3. Profile!ValidTeams(p.teams, p.desktops)
  BY <1>2
<1> QED BY <1>3 DEF Profile!ValidTeams

\* Started without a crossing, a service is started by the row counted for it.
LEMMA PlacedIsItem ==
  ASSUME ProfileAssumption, NEW p, Kept(p), ~Profile!Crossed(p), NEW d \in Profile!Placed(p, ServicesOf(p))
  PROVE  /\ \E k \in DOMAIN ActiveRows(p) : d = Item(p, k)
         /\ \E k \in DOMAIN p.desktops : d.row = p.desktops[k]
<1>1. p \in ProfileRecord /\ p.registration \in BOOLEAN /\ Profile!ValidDesktops(p.desktops)
      /\ Len(p.teams) <= Len(Service) /\ p.teams \in Seq(TeamRow) /\ p.desktops \in Seq(DesktopRow)
  BY DEF Kept, Writable, ProfileRecord
<1>2. PICK s \in ServicesOf(p) : d = [service |-> s, row |-> Profile!DesktopSpec(p, s)]
  BY DEF Profile!Placed
<1>3. CASE p.registration
  <2>1. s \in Profile!Names(p.desktops)
    BY <1>2, <1>3 DEF Kept, Profile!ValidRegistration, ServicesOf
  <2>2. PICK k \in DOMAIN p.desktops : Profile!RowOf(p, s) = p.desktops[k] /\ p.desktops[k].name = s
    BY <2>1, RowFound
  <2>3. d = [service |-> p.desktops[k].name, row |-> p.desktops[k]]
    BY <1>2, <2>1, <2>2 DEF Profile!DesktopSpec
  <2>4. ActiveRows(p) = p.desktops
    BY <1>3 DEF ActiveRows
  <2>5. d = Item(p, k)
    BY <1>3, <2>3, <2>4 DEF Item
  <2>6. d.row = p.desktops[k]
    BY <2>3
  <2> QED BY <2>2, <2>4, <2>5, <2>6
<1>4. CASE ~p.registration
  <2>1. PICK k \in DOMAIN p.teams : s = Service[k]
    BY <1>2, <1>4 DEF ServicesOf
  <2>2. \A j \in DOMAIN p.teams : Service[j] = Service[k] => j = k
    BY <1>1 DEF ProfileAssumption, NameList
  <2>3. (CHOOSE j \in DOMAIN p.teams : Service[j] = Service[k]) = k
    BY <2>2
  <2>4. Profile!DesktopSpec(p, s) = Profile!RowOf(p, p.teams[k].desktop)
    <3>1. CASE s \in Profile!Names(p.desktops)
      BY <2>1, <3>1 DEF Profile!Crossed, Profile!DesktopSpec
    <3>2. CASE s \notin Profile!Names(p.desktops)
      BY <2>1, <2>3, <3>2 DEF Profile!DesktopSpec
    <3> QED BY <3>1, <3>2
  <2>5. DOMAIN ActiveRows(p) = DOMAIN p.teams /\ ActiveRows(p)[k] = Profile!RowOf(p, p.teams[k].desktop)
    BY <1>4 DEF ActiveRows
  <2>6. d = Item(p, k)
    BY <1>2, <1>4, <2>1, <2>4, <2>5 DEF Item
  <2>7. \E j \in DOMAIN p.desktops : Profile!RowOf(p, p.teams[k].desktop) = p.desktops[j]
    BY <1>4, RowFound, KeptTeams
  <2>8. d.row = Profile!RowOf(p, p.teams[k].desktop)
    BY <1>2, <2>4
  <2> QED BY <2>5, <2>6, <2>7, <2>8
<1> QED BY <1>1, <1>3, <1>4

\* As many at most as the numbers they are told apart by.
LEMMA ToldApart ==
  ASSUME NEW S, NEW K, IsFiniteSet(K), NEW f \in [S -> K], \A x, y \in S : f[x] = f[y] => x = y
  PROVE  IsFiniteSet(S) /\ Cardinality(S) <= Cardinality(K)
<1>1. f \in Injection(S, K)
  BY DEF Injection, IsInjective
<1> QED BY <1>1, FS_Injection

LEMMA HostCounted ==
  ASSUME ProfileAssumption, NEW p, Kept(p), ~Profile!Crossed(p), NEW host,
         NEW S, S \subseteq {d \in Profile!Placed(p, ServicesOf(p)) : d.row.worker = host}
  PROVE  /\ IsFiniteSet(S) /\ IsFiniteSet(OnHost(p, host))
         /\ Cardinality(S) <= Cardinality(OnHost(p, host))
<1>1. IsFiniteSet(OnHost(p, host))
  <2>1. \E n \in Nat : DOMAIN ActiveRows(p) = 1 .. n
    BY DEF Kept, Writable, ProfileRecord, ActiveRows
  <2>2. PICK n \in Nat : DOMAIN ActiveRows(p) = 1 .. n
    BY <2>1
  <2>3. IsFiniteSet(1 .. n)
    BY FS_Interval
  <2>4. OnHost(p, host) \in SUBSET (1 .. n)
    BY <2>2 DEF OnHost
  <2> QED BY <2>3, <2>4, FS_Subset
<1> DEFINE f == [d \in S |-> CHOOSE k \in OnHost(p, host) : d = Item(p, k)]
<1>2. ASSUME NEW d \in S PROVE \E k \in OnHost(p, host) : d = Item(p, k)
  <2>1. PICK k \in DOMAIN ActiveRows(p) : d = Item(p, k)
    BY PlacedIsItem
  <2>2. d.row = ActiveRows(p)[k] /\ d.row.worker = host
    BY <2>1 DEF Item
  <2> QED BY <2>1, <2>2 DEF OnHost
<1>3. \A d \in S : f[d] \in OnHost(p, host) /\ d = Item(p, f[d])
  BY <1>2
<1>4. f \in [S -> OnHost(p, host)]
  BY <1>3
<1> HIDE DEF f
<1>5. \A x, y \in S : f[x] = f[y] => x = y
  BY <1>3
<1> QED BY <1>1, <1>4, <1>5, ToldApart

LEMMA FitsFewer ==
  ASSUME NEW available \in Resource, NEW central \in {Profile!Central, Profile!Nothing}, NEW m \in Nat, NEW n \in Nat,
         m <= n, Profile!Fits(available, central, n)
  PROVE  Profile!Fits(available, central, m)
<1>1. available.cpu \in Int /\ available.memory \in Int /\ central.cpu \in Nat /\ central.memory \in Nat
  BY DEF Resource, Profile!Central, Profile!Nothing
<1>2. available.cpu >= central.cpu + m
  BY <1>1 DEF Profile!Fits, Profile!Desktop
<1>3. ((central.memory + m * 5) * 6) \div 5 <= ((central.memory + n * 5) * 6) \div 5
  BY <1>1
<1>4. available.memory >= ((central.memory + m * 5) * 6) \div 5
  BY <1>1, <1>3 DEF Profile!Fits, Profile!Desktop
<1> QED BY <1>1, <1>2, <1>4 DEF Profile!Fits, Profile!Desktop

LEMMA ProfileCardinality == ASSUME NEW S PROVE Profile!Cardinality(S) = Cardinality(S)
BY DEF Profile!Cardinality, Cardinality

LEMMA ProfileFits == ASSUME ProfileAssumption, ProfileInv PROVE Profile!PlacementFits
<1> SUFFICES ASSUME settled, ~profileLate, ~Profile!Crossed(journal) PROVE Profile!PlacementFits
  BY DEF Profile!PlacementFits
<1> DEFINE p == journal
           W == {d \in started : d.row.worker = "w"}
           L == started \ W
<1>1. Kept(p) /\ Profile!Load(override) = p /\ started \subseteq Profile!Placed(p, ServicesOf(p))
  BY DEF ProfileInv
<1>2. p \in ProfileRecord /\ p.host \in Resource /\ p.worker \in Resource
      /\ p.desktops \in Seq(DesktopRow) /\ Profile!ValidDesktops(p.desktops) /\ p # Profile!Refused
  BY <1>1 DEF Kept, Writable, ProfileRecord
<1>3. Profile!ValidWorkers(p)
  BY <1>1, <1>2 DEF Profile!Load
<1>4. \A d \in started : \E k \in DOMAIN p.desktops : d.row = p.desktops[k]
  BY <1>1, PlacedIsItem
<1>5. L \subseteq {d \in Profile!Placed(p, ServicesOf(p)) : d.row.worker = "local"}
      /\ W \subseteq {d \in Profile!Placed(p, ServicesOf(p)) : d.row.worker = "w"}
  <2>1. \A d \in started : d.row.worker \in {"local", "w"}
    <3>1. ASSUME NEW d \in started PROVE d.row.worker \in {"local", "w"}
      <4>1. PICK k \in DOMAIN p.desktops : d.row = p.desktops[k]
        BY <1>4
      <4>2. p.desktops[k] \in DesktopRow
        BY <1>2, <4>1
      <4> QED BY <4>1, <4>2 DEF DesktopRow
    <3> QED BY <3>1
  <2> QED BY <1>1, <2>1
<1>6. /\ IsFiniteSet(L) /\ IsFiniteSet(OnHost(p, "local"))
      /\ Cardinality(L) <= Cardinality(OnHost(p, "local"))
      /\ IsFiniteSet(W) /\ IsFiniteSet(OnHost(p, "w"))
      /\ Cardinality(W) <= Cardinality(OnHost(p, "w"))
  BY <1>1, <1>5, HostCounted
<1>7. /\ Cardinality(L) \in Nat /\ Cardinality(W) \in Nat
      /\ Cardinality(OnHost(p, "local")) \in Nat /\ Cardinality(OnHost(p, "w")) \in Nat
  BY <1>6, FS_CardinalityType
<1>8. Cardinality(started) - Cardinality(W) = Cardinality(L)
  <2>1. L \cup W = started /\ L \cap W = {}
    OBVIOUS
  <2>2. Cardinality(L \cup W) = Cardinality(L) + Cardinality(W) - Cardinality(L \cap W)
    BY <1>6, FS_Union
  <2>3. Cardinality(L \cap W) = 0
    BY <2>1, FS_EmptySet
  <2> HIDE DEF L, W
  <2> QED BY <1>7, <2>1, <2>2, <2>3
<1>9. /\ Profile!Fits(p.host, Profile!Central, Cardinality(OnHost(p, "local")))
      /\ Cardinality(OnHost(p, "w")) > 0 => Profile!Fits(p.worker, Profile!Nothing, Cardinality(OnHost(p, "w")))
  BY <1>1, ProfileCardinality DEF Kept, Profile!Capacity, OnHost, ActiveRows
<1> HIDE DEF p, W, L
<1>10. Profile!Fits(p.host, Profile!Central, Cardinality(L))
  BY <1>2, <1>6, <1>7, <1>9, FitsFewer
<1>11. Cardinality(W) > 0 => Profile!Fits(p.worker, Profile!Nothing, Cardinality(W))
  <2>1. Cardinality(W) > 0 => Cardinality(OnHost(p, "w")) > 0
    BY <1>6, <1>7
  <2> QED BY <1>2, <1>6, <1>7, <1>9, <2>1, FitsFewer
<1>12. ASSUME NEW d \in started, NEW e \in started,
              d.row.worker = "w", e.row.worker = "w", d.row # e.row
       PROVE  /\ d.row.endpoint # e.row.endpoint
              /\ relay # <<>> => relay[d.row.name] # relay[e.row.name]
  <2>1. PICK j \in DOMAIN p.desktops : d.row = p.desktops[j]
    BY <1>4
  <2>2. PICK k \in DOMAIN p.desktops : e.row = p.desktops[k]
    BY <1>4
  <2>3. j # k
    BY <1>12, <2>1, <2>2
  <2>4. d.row.name # e.row.name /\ d.row.endpoint # e.row.endpoint
    BY <1>2, <1>12, <2>1, <2>2, <2>3 DEF Profile!ValidDesktops
  <2>5. d.row \in Profile!Range(p.desktops) /\ e.row \in Profile!Range(p.desktops)
    BY <2>1, <2>2 DEF Profile!Range
  <2>6. relay # <<>> => d.row.name \in DOMAIN relay /\ e.row.name \in DOMAIN relay /\ Profile!IsInjective(relay)
    BY <1>3, <1>12, <2>5 DEF Profile!ValidWorkers
  <2> QED BY <2>4, <2>6 DEF Profile!IsInjective
<1> QED BY <1>8, <1>10, <1>11, <1>12, ProfileCardinality DEF Profile!PlacementFits, p, W, L

LEMMA ProfileIsSettled == ASSUME ProfileInv PROVE Profile!ProfileSettled
BY DEF ProfileInv, Profile!ProfileSettled, Kept

\* The profile the journal's fingerprint was taken of is the one every command works with, and
\* what it starts fits each host and collides with nothing (ridge/deploy/config.py).
THEOREM ProfileHolds ==
  ASSUME ProfileAssumption
  PROVE  Profile!Spec => [](Profile!ProfileSettled /\ Profile!PlacementFits)
<1>1. Profile!Init => ProfileInv
  BY ProfileInit
<1>2. ProfileInv /\ [Profile!Next]_Profile!vars => ProfileInv'
  BY ProfileNext
<1>3. ProfileInv => Profile!ProfileSettled /\ Profile!PlacementFits
  BY ProfileIsSettled, ProfileFits
<1> QED BY <1>1, <1>2, <1>3, PTL DEF Profile!Spec
=============================================================================
