-------------------------- MODULE OperationsProofs --------------------------
(***************************************************************************)
(* The parts side by side (MCOperations): a behaviour of the operations is *)
(* a behaviour of its part, so that what is proved of a part's module, for *)
(* every value of its constants, holds of the operations.  For each part   *)
(* two facts are shown:                                                    *)
(*                                                                         *)
(*   - <Part>Runs: in a behaviour of that part its module runs;            *)
(*   - <Part>Apart: in a behaviour of another it is never the one under    *)
(*     way.                                                                *)
(***************************************************************************)
EXTENDS MCOperations, TLAPS

-----------------------------------------------------------------------------
(* Recovery *)

LEMMA RecoveryRuns == Spec => (part = "recovery" => Recovery!Spec)
<1>1. Init /\ part = "recovery" => Recovery!Init
  BY DEF Init
<1>2. part = "recovery" /\ [Next]_vars => (part = "recovery")' /\ [Recovery!Next]_Recovery!vars
  BY DEF Next, vars, Still6, Still7, Still8, Still9, Still11, Still12, Still13, Still19, Recovery!vars,
         Recovery!exportVars, Recovery!createVars, Recovery!restoreVars
<1> QED BY <1>1, <1>2, PTL DEF Spec, Recovery!Spec

LEMMA RecoveryApart == Spec => (~(part = "recovery") => [](~(part = "recovery")))
<1>1. ~(part = "recovery") /\ [Next]_vars => (~(part = "recovery"))'
  BY DEF Next, vars, Still6, Still7, Still8, Still9, Still11, Still12, Still13, Still19
<1> QED BY <1>1, PTL DEF Spec

\* Every completed export holds the store and the applications at one instant: the fence
\* of export_release and of the backup's manifest, whatever is killed or retried.
THEOREM OperationsExport == Spec => []ExportIsOneInstant
<1>1. Recovery!Spec => []Recovery!ExportIsOneInstant
  BY Recovery!ExportsAreCoherent
<1>2. Recovery!ExportIsOneInstant => ExportIsOneInstant
  BY DEF ExportIsOneInstant
<1>3. ~(part = "recovery") => ExportIsOneInstant
  BY DEF ExportIsOneInstant
<1> QED BY <1>1, <1>2, <1>3, RecoveryRuns, RecoveryApart, PTL

-----------------------------------------------------------------------------
(* Journal *)

LEMMA JournalRuns == Spec => (part = "journal" => Journal!Spec)
<1>1. Init /\ part = "journal" => Journal!Init
  BY DEF Init
<1>2. part = "journal" /\ [Next]_vars => (part = "journal")' /\ [Journal!Next]_Journal!vars
  BY DEF Next, vars, Still6, Still7, Still8, Still9, Still11, Still12, Still13, Still19, Journal!vars,
         Journal!fileVars, Journal!stepVars
<1> QED BY <1>1, <1>2, PTL DEF Spec, Journal!Spec

LEMMA JournalApart == Spec => (~(part = "journal") => [](~(part = "journal")))
<1>1. ~(part = "journal") /\ [Next]_vars => (~(part = "journal"))'
  BY DEF Next, vars, Still6, Still7, Still8, Still9, Still11, Still12, Still13, Still19
<1> QED BY <1>1, PTL DEF Spec

\* No retried step leaves a second resource beside the one an earlier try created: the
\* resource carries its marker before the journal records it (LifecycleJournal).
THEOREM OperationsRetry == Spec => []OneResource
<1>0. Journal!NoneFresh
  BY OperationsAssumption DEF Journal!NoneFresh
<1>1. Journal!Spec => []Journal!OneResource
  BY <1>0, Journal!RetriesAdopt
<1>2. Journal!OneResource => OneResource
  BY DEF OneResource
<1>3. ~(part = "journal") => OneResource
  BY DEF OneResource
<1> QED BY <1>1, <1>2, <1>3, JournalRuns, JournalApart, PTL

-----------------------------------------------------------------------------
(* Deployment *)

LEMMA DeploymentRuns == Spec => (part = "deployment" => Deployment!Spec)
<1>1. Init /\ part = "deployment" => Deployment!Init
  BY DEF Init
<1>2. part = "deployment" /\ [Next]_vars => (part = "deployment")' /\ [Deployment!Next]_Deployment!vars
  BY DEF Next, vars, Still6, Still7, Still8, Still9, Still11, Still12, Still13, Still19, Deployment!vars,
         Deployment!hostVars, Deployment!storeVars
<1> QED BY <1>1, <1>2, PTL DEF Spec, Deployment!Spec

LEMMA DeploymentApart == Spec => (~(part = "deployment") => [](~(part = "deployment")))
<1>1. ~(part = "deployment") /\ [Next]_vars => (~(part = "deployment"))'
  BY DEF Next, vars, Still6, Still7, Still8, Still9, Still11, Still12, Still13, Still19
<1> QED BY <1>1, PTL DEF Spec

\* A journal that says ready or running has every stage of up verified, with any number of
\* operators, kills, outages and failed calls.
THEOREM OperationsReady == Spec => []ReadyMeansVerified
<1>0. Deployment!NoneFresh
  BY OperationsAssumption DEF Deployment!NoneFresh
<1>1. Deployment!Spec => []Deployment!ReadyMeansVerified
  BY <1>0, Deployment!ReadyIsVerified
<1>2. Deployment!ReadyMeansVerified => ReadyMeansVerified
  BY DEF ReadyMeansVerified
<1>3. ~(part = "deployment") => ReadyMeansVerified
  BY DEF ReadyMeansVerified
<1> QED BY <1>1, <1>2, <1>3, DeploymentRuns, DeploymentApart, PTL

LEMMA DeploymentStays == Spec => (part = "deployment" => [](part = "deployment"))
<1>1. part = "deployment" /\ [Next]_vars => (part = "deployment")'
  BY DEF Next, vars, Still6, Still7, Still8, Still9, Still11, Still12, Still13, Still19
<1> QED BY <1>1, PTL DEF Spec

\* Operations implement the run the facilitators were promised: an event is prepared once,
\* works only while it runs, runs only unfenced, and never moves after its fence.
THEOREM OperationsRefine == Spec => ImplementsEventRun
<1>0. Deployment!NoneFresh
  BY OperationsAssumption DEF Deployment!NoneFresh
<1>1. Deployment!Spec => Deployment!ImplementsEventRun
  BY <1>0, Deployment!LifecycleRefines
<1>2. part = "deployment" /\ Deployment!Run!Init => Run!Init
  BY DEF Deployment!Run!Init, Run!Init
<1>3. /\ part = "deployment" /\ (part = "deployment")'
      /\ [Deployment!Run!Next]_(Deployment!Run!vars)
      => [Run!Next]_(Run!vars)
  BY DEF Run!Next, Run!vars, Run!Prepare, Run!Begin, Run!Accept, Run!Interrupt, Run!Seal,
         Deployment!Run!Next, Deployment!Run!vars, Deployment!Run!Prepare,
         Deployment!Run!Begin, Deployment!Run!Accept, Deployment!Run!Interrupt,
         Deployment!Run!Seal
<1>4. ~(part = "deployment") => Run!Init
  BY DEF Run!Init
<1>5. ~(part = "deployment") /\ (~(part = "deployment"))' => [Run!Next]_(Run!vars)
  BY DEF Run!vars
<1> QED
  BY <1>1, <1>2, <1>3, <1>4, <1>5, DeploymentRuns, DeploymentStays, DeploymentApart, PTL
  DEF ImplementsEventRun, Run!Spec, Deployment!ImplementsEventRun, Deployment!Run!Spec

-----------------------------------------------------------------------------
(* Packaging, installation, files and accounts, the edge, the rehearsal, the profile *)

LEMMA PackagingRuns == Spec => (part = "packaging" => Preparation!Pack!Spec)
<1>1. Init /\ part = "packaging" => Preparation!Pack!Init
  BY DEF Init
<1>2. part = "packaging" /\ [Next]_vars => (part = "packaging")' /\ [Preparation!Pack!Next]_Preparation!Pack!vars
  BY DEF Next, vars, Still6, Still7, Still8, Still9, Still11, Still12, Still13, Still19, Preparation!Pack!vars
<1> QED BY <1>1, <1>2, PTL DEF Spec, Preparation!Pack!Spec

LEMMA PackagingApart == Spec => (~(part = "packaging") => [](~(part = "packaging")))
<1>1. ~(part = "packaging") /\ [Next]_vars => (~(part = "packaging"))'
  BY DEF Next, vars, Still6, Still7, Still8, Still9, Still11, Still12, Still13, Still19
<1> QED BY <1>1, PTL DEF Spec

\* What up accepts was built from one source, and a bundle or a distribution is of one
\* commit, with any number of builds at once.
THEOREM OperationsSource == Spec => []OneSource
<1>1. Preparation!Pack!Spec => [](Preparation!Pack!UpRunsOneSource /\ Preparation!Pack!BundleIsOneSource)
  BY Preparation!PackagesAreOneSource
<1>2. (Preparation!Pack!UpRunsOneSource /\ Preparation!Pack!BundleIsOneSource) => OneSource
  BY DEF OneSource
<1>3. ~(part = "packaging") => OneSource
  BY DEF OneSource
<1> QED BY <1>1, <1>2, <1>3, PackagingRuns, PackagingApart, PTL

LEMMA InstallationRuns == Spec => (part = "installation" => Preparation!Inst!Spec)
<1>1. Init /\ part = "installation" => Preparation!Inst!Init
  BY DEF Init
<1>2. part = "installation" /\ [Next]_vars => (part = "installation")' /\ [Preparation!Inst!Next]_Preparation!Inst!vars
  BY DEF Next, vars, Still6, Still7, Still8, Still9, Still11, Still12, Still13, Still19, Preparation!Inst!vars
<1> QED BY <1>1, <1>2, PTL DEF Spec, Preparation!Inst!Spec

LEMMA InstallationApart == Spec => (~(part = "installation") => [](~(part = "installation")))
<1>1. ~(part = "installation") /\ [Next]_vars => (~(part = "installation"))'
  BY DEF Next, vars, Still6, Still7, Still8, Still9, Still11, Still12, Still13, Still19
<1> QED BY <1>1, PTL DEF Spec

\* A destination that exists holds one verified bundle, whole, as long as one installer
\* works at a time, with any number of installers, kills and damaged bundles.
THEOREM OperationsInstall == Spec => []InstallIsWhole
<1>0. Preparation!InstallerAssumption
  BY OperationsAssumption
<1>1. Preparation!Inst!Spec => []Preparation!Inst!InstallIsWhole
  BY <1>0, Preparation!InstallsAreWhole
<1>2. Preparation!Inst!InstallIsWhole => InstallIsWhole
  BY DEF InstallIsWhole
<1>3. ~(part = "installation") => InstallIsWhole
  BY DEF InstallIsWhole
<1> QED BY <1>1, <1>2, <1>3, InstallationRuns, InstallationApart, PTL

LEMMA ProvisioningRuns == Spec => (part = "provisioning" => Preparation!Prov!Spec)
<1>1. Init /\ part = "provisioning" => Preparation!Prov!Init
  BY DEF Init
<1>2. part = "provisioning" /\ [Next]_vars => (part = "provisioning")' /\ [Preparation!Prov!Next]_Preparation!Prov!vars
  BY DEF Next, vars, Still6, Still7, Still8, Still9, Still11, Still12, Still13, Still19, Preparation!Prov!vars
<1> QED BY <1>1, <1>2, PTL DEF Spec, Preparation!Prov!Spec

LEMMA ProvisioningApart == Spec => (~(part = "provisioning") => [](~(part = "provisioning")))
<1>1. ~(part = "provisioning") /\ [Next]_vars => (~(part = "provisioning"))'
  BY DEF Next, vars, Still6, Still7, Still8, Still9, Still11, Still12, Still13, Still19
<1> QED BY <1>1, PTL DEF Spec

\* When up ends, the credentials of the handout are the ones the applications accept,
\* however often it was killed or its files were lost on the way.
THEOREM OperationsHandout == Spec => []HandoutWorks
<1>1. Preparation!Prov!Spec => []Preparation!Prov!HandoutWorks
  BY Preparation!HandoutAlwaysWorks
<1>2. Preparation!Prov!HandoutWorks => HandoutWorks
  BY DEF HandoutWorks
<1>3. ~(part = "provisioning") => HandoutWorks
  BY DEF HandoutWorks
<1> QED BY <1>1, <1>2, <1>3, ProvisioningRuns, ProvisioningApart, PTL

LEMMA EdgeRuns == Spec => (part = "edge" => Preparation!Edge!Spec)
<1>1. Init /\ part = "edge" => Preparation!Edge!Init
  BY DEF Init
<1>2. part = "edge" /\ [Next]_vars => (part = "edge")' /\ [Preparation!Edge!Next]_Preparation!Edge!vars
  BY DEF Next, vars, Still6, Still7, Still8, Still9, Still11, Still12, Still13, Still19, Preparation!Edge!vars
<1> QED BY <1>1, <1>2, PTL DEF Spec, Preparation!Edge!Spec

LEMMA EdgeApart == Spec => (~(part = "edge") => [](~(part = "edge")))
<1>1. ~(part = "edge") /\ [Next]_vars => (~(part = "edge"))'
  BY DEF Next, vars, Still6, Still7, Still8, Still9, Still11, Still12, Still13, Still19
<1> QED BY <1>1, PTL DEF Spec

\* An edge whose probe passed shows the configured certificate and relays the configured
\* ports, for any set of ports and targets.
THEOREM OperationsEdge == Spec => []EdgeAsConfigured
<1>1. Preparation!Edge!Spec => []Preparation!Edge!EdgeAsConfigured
  BY Preparation!EdgeIsAsConfigured
<1>2. Preparation!Edge!EdgeAsConfigured => EdgeAsConfigured
  BY DEF EdgeAsConfigured
<1>3. ~(part = "edge") => EdgeAsConfigured
  BY DEF EdgeAsConfigured
<1> QED BY <1>1, <1>2, <1>3, EdgeRuns, EdgeApart, PTL

LEMMA RehearsalRuns == Spec => (part = "rehearsal" => Preparation!Board!Spec)
<1>1. Init /\ part = "rehearsal" => Preparation!Board!Init
  BY DEF Init
<1>2. part = "rehearsal" /\ [Next]_vars => (part = "rehearsal")' /\ [Preparation!Board!Next]_Preparation!Board!vars
  BY DEF Next, vars, Still6, Still7, Still8, Still9, Still11, Still12, Still13, Still19, Preparation!Board!vars
<1> QED BY <1>1, <1>2, PTL DEF Spec, Preparation!Board!Spec

LEMMA RehearsalApart == Spec => (~(part = "rehearsal") => [](~(part = "rehearsal")))
<1>1. ~(part = "rehearsal") /\ [Next]_vars => (~(part = "rehearsal"))'
  BY DEF Next, vars, Still6, Still7, Still8, Still9, Still11, Still12, Still13, Still19
<1> QED BY <1>1, PTL DEF Spec

\* What a comment says of the exercise clock is what the ledger says for good, and
\* directories, ledger and log agree on the releases, for any controllers and requests.
THEOREM OperationsRehearsal == Spec => []LedgersAgree
<1>0. Preparation!BoardAssumption
  BY OperationsAssumption
<1>1. Preparation!Board!Spec => [](Preparation!Board!CommentsOnClock /\ Preparation!Board!ReleasesAgree)
  BY <1>0, Preparation!LedgersAlwaysAgree
<1>2. (Preparation!Board!CommentsOnClock /\ Preparation!Board!ReleasesAgree) => LedgersAgree
  BY DEF LedgersAgree
<1>3. ~(part = "rehearsal") => LedgersAgree
  BY DEF LedgersAgree
<1> QED BY <1>1, <1>2, <1>3, RehearsalRuns, RehearsalApart, PTL

LEMMA ProfileRuns == Spec => (part = "profile" => Preparation!Profile!Spec)
<1>1. Init /\ part = "profile" => Preparation!Profile!Init
  BY DEF Init
<1>2. part = "profile" /\ [Next]_vars => (part = "profile")' /\ [Preparation!Profile!Next]_Preparation!Profile!vars
  BY DEF Next, vars, Still6, Still7, Still8, Still9, Still11, Still12, Still13, Still19, Preparation!Profile!vars
<1> QED BY <1>1, <1>2, PTL DEF Spec, Preparation!Profile!Spec

LEMMA ProfileApart == Spec => (~(part = "profile") => [](~(part = "profile")))
<1>1. ~(part = "profile") /\ [Next]_vars => (~(part = "profile"))'
  BY DEF Next, vars, Still6, Still7, Still8, Still9, Still11, Still12, Still13, Still19
<1> QED BY <1>1, PTL DEF Spec

\* The profile the journal holds is the one later commands find, and the desktops started
\* by it fit their hosts: here for the profiles of the run, in ProfileHolds for any.
THEOREM OperationsProfile == Spec => []ProfileKept
<1>0. Preparation!ProfileAssumption
  BY OperationsAssumption
<1>1. Preparation!Profile!Spec => [](Preparation!Profile!ProfileSettled /\ Preparation!Profile!PlacementFits)
  BY <1>0, Preparation!ProfileHolds
<1>2. (Preparation!Profile!ProfileSettled /\ Preparation!Profile!PlacementFits) => ProfileKept
  BY DEF ProfileKept
<1>3. ~(part = "profile") => ProfileKept
  BY DEF ProfileKept
<1> QED BY <1>1, <1>2, <1>3, ProfileRuns, ProfileApart, PTL

=============================================================================
