----------------------------- MODULE Provisioning -----------------------------
(***************************************************************************)
(* What up writes and loads only once (ridge/deploy/local.py): the private *)
(* files of the runtime directory and the accounts the applications keep   *)
(* in volumes of their own.  Deployment has the stages and their services; *)
(* this module has the credentials and identities that pass through them.  *)
(* One up runs at a time (the event lock); it may be killed at any step,   *)
(* and a kill while a file is written leaves it torn, for none of them is  *)
(* written atomically.  Files may be lost, and the operator may remove the *)
(* volumes (down --volumes), the runtime directory, or both.               *)
(*                                                                         *)
(* A credential is stood for by the number of the drawing it came from; a  *)
(* file, by the credential or the identity numbers in it.  The static      *)
(* profile is modelled; a dynamic one draws no team credentials here       *)
(* (Registration).                                                         *)
(***************************************************************************)
EXTENDS Integers

CONSTANTS
  MaxKey,    \* bound on the drawings of credentials
  MaxFaults  \* bound on kills and lost files together

VARIABLES
  file,      \* what each private file holds: Absent, Torn or a number
  volume,    \* what each application's volume holds; see NoVolume
  verified,  \* the stages the journal has as verified
  running,   \* the journal does not say STOPPED: what runs was not stopped by down
  at,        \* the step up is at, "idle" outside it
  done,      \* history: the latest up ended with every stage verified
  key,       \* drawings made
  hurt,      \* history: a kill or a loss took a file since the last fresh start
  faults

vars == <<file, volume, verified, running, at, done, key, hurt, faults>>

Absent == 0
Torn == -1

File == {"secrets", "team", "api", "apiMarker", "facilitator", "irisSpec", "ctfdSpec", "guacSpec",
         "users", "sql", "irisInventory", "ctfdInventory", "discovered", "config", "state"}
App == {"iris", "ctfd", "guacamole", "wazuh"}

\* database: the password the volume's database was made with; account: the
\* credentials its accounts accept; ids: the numbers its teams have.
NoVolume == [database |-> Absent, account |-> Absent, ids |-> Absent]

Init ==
  /\ file = [f \in File |-> Absent] /\ volume = [a \in App |-> NoVolume]
  /\ verified = {} /\ running = TRUE /\ at = "idle" /\ done = FALSE
  /\ key = 0 /\ hurt = FALSE /\ faults = 0

Fault == faults < MaxFaults /\ faults' = faults + 1
NoFault == UNCHANGED <<faults, hurt>>

-----------------------------------------------------------------------------
(* How a step of up ends *)

Goes(step) == at' = step
\* An error, or a refusal: the command is over.
Refuses == at' = "idle" /\ UNCHANGED <<file, volume>> /\ NoFault

\* _write_private and write_text: the file has its new content, or the command is
\* killed over it.
Put(f, value, next) ==
  /\ \/ file' = [file EXCEPT ![f] = value] /\ Goes(next) /\ NoFault
     \/ file' = [file EXCEPT ![f] = Torn] /\ at' = "idle" /\ Fault /\ hurt' = TRUE
  /\ UNCHANGED volume

\* Seeded fault (SetupEnds): what an earlier up wrote is in the way of this one.
PutNew(f, value, next) == IF file[f] = Absent THEN Put(f, value, next) ELSE Refuses

PutOnce(f, value, next) ==
  IF file[f] = Absent THEN Put(f, value, next)
  ELSE Goes(next) /\ UNCHANGED <<file, volume>> /\ NoFault

Readable(fs) == \A f \in fs : file[f] \notin {Absent, Torn}

\* A transaction of application a: all of it, or none.
Commits(a, row, next) ==
  /\ volume' = [volume EXCEPT ![a] = row]
  /\ Goes(next) /\ UNCHANGED file /\ NoFault

Drawn == key + 1
Draw == key' = key + 1
NoDraw == UNCHANGED key

-----------------------------------------------------------------------------
(* Stage 2: credentials, specifications and databases *)

\* Seeded fault (HandoutWorks): lost team credentials are drawn again.
EnsureSecretsAnew ==
  /\ at = "secrets"
  /\ \/ file["secrets"] = Absent /\ Draw /\ Put("secrets", Drawn, "team")
     \/ file["secrets"] \notin {Absent, Torn} /\ file["team"] = Absent
        /\ Draw /\ Goes("team") /\ UNCHANGED <<file, volume>> /\ NoFault
     \/ file["secrets"] = Torn /\ NoDraw /\ Refuses
     \/ file["secrets"] \notin {Absent, Torn} /\ file["team"] # Absent
        /\ NoDraw /\ Goes("api") /\ UNCHANGED <<file, volume>> /\ NoFault
  /\ UNCHANGED <<verified, running, done>>

\* The thirteen secret files are all there, or none is; half a set is Torn.
EnsureSecrets ==
  /\ at = "secrets"
  /\ \/ file["secrets"] = Absent /\ Draw /\ Put("secrets", Drawn, "team")
     \/ file["secrets"] # Absent /\ NoDraw
        /\ IF file["secrets"] # Torn /\ file["team"] # Absent
             THEN Goes("api") /\ UNCHANGED <<file, volume>> /\ NoFault
             ELSE Refuses
  /\ UNCHANGED <<verified, running, done>>

WriteTeamCredentials ==
  /\ at = "team" /\ Put("team", key, "api")
  /\ UNCHANGED <<verified, running, done, key>>

\* The API secret and the digest that pins it.
EnsureApiSecret ==
  /\ at = "api" /\ NoDraw
  /\ IF file["api"] = Absent
       THEN IF file["apiMarker"] # Absent THEN Refuses ELSE Put("api", file["secrets"], "apiMarker")
       ELSE Goes("apiMarker") /\ UNCHANGED <<file, volume>> /\ NoFault
  /\ UNCHANGED <<verified, running, done>>

ApiSecretValid == Readable({"api"}) /\ file["apiMarker"] \in {Absent, file["api"]}

PinApiSecret ==
  /\ at = "apiMarker" /\ NoDraw
  /\ IF ApiSecretValid THEN PutOnce("apiMarker", file["api"], "facilitator") ELSE Refuses
  /\ UNCHANGED <<verified, running, done>>

\* Two files and a marker, all of one constant; half of them is Torn.
EnsureFacilitatorSecrets ==
  /\ at = "facilitator" /\ NoDraw
  /\ IF file["facilitator"] = Torn THEN Refuses ELSE PutOnce("facilitator", 1, "irisSpec")
  /\ UNCHANGED <<verified, running, done>>

SPECS == [irisSpec |-> "ctfdSpec", ctfdSpec |-> "guacSpec", guacSpec |-> "users"]

\* Each specification is made of the team credentials if it is missing; the
\* Guacamole one is read back, and its addresses brought up to date.
RenderSpec ==
  /\ at \in DOMAIN SPECS /\ NoDraw
  /\ IF Readable({"team"}) /\ ~(at = "guacSpec" /\ file["guacSpec"] = Torn)
       THEN PutOnce(at, file["team"], SPECS[at])
       ELSE Refuses
  /\ UNCHANGED <<verified, running, done>>

\* The indexer's user file, with the hashes of the Wazuh secrets.
RenderWazuhUsers ==
  /\ at = "users" /\ NoDraw
  /\ PutOnce("users", file["secrets"], "env")
  /\ UNCHANGED <<verified, running, done>>

\* Every environment file is rendered anew, with the discovered numbers or without.
RenderEnv ==
  /\ at \in {"env", "recreate"} /\ NoDraw
  /\ IF ApiSecretValid /\ file["discovered"] # Torn
       THEN /\ Goes(IF at = "env" THEN "sql" ELSE "verify4")
            /\ UNCHANGED <<file, volume>> /\ NoFault
       ELSE Refuses
  /\ UNCHANGED <<verified, running, done>>

GenerateSql ==
  /\ at = "sql" /\ NoDraw
  /\ IF Readable({"guacSpec"}) THEN Put("sql", file["guacSpec"], "databases") ELSE Refuses
  /\ UNCHANGED <<verified, running, done>>

\* A database without a volume is made with the password of the day; Guacamole's
\* runs the generated SQL, Wazuh's reads its user file.
StartDatabases ==
  /\ at = "databases" /\ NoDraw
  /\ volume' = [a \in App |->
       IF volume[a].database # Absent THEN volume[a]
       ELSE [NoVolume EXCEPT !.database = file["secrets"],
                             !.account = CASE a = "guacamole" -> file["sql"]
                                           [] a = "wazuh" -> file["users"]
                                           [] OTHER -> Absent]]
  /\ Goes("verify2") /\ UNCHANGED file /\ NoFault
  /\ UNCHANGED <<verified, running, done>>

-----------------------------------------------------------------------------
(* Stages 3 to 7 *)

\* An application reaches its database with the password of its environment file.
Connects(a) == volume[a].database = file["secrets"]

\* The login page of CTFd is asked for only when there is an inventory, the setup page
\* before; one that is set up already is taken to answer for both.
ApplicationsServe ==
  /\ Connects("iris") /\ Connects("ctfd")
  /\ file["ctfdInventory"] # Absent => volume["ctfd"].account # Absent

StartApplications ==
  /\ at = "applications" /\ NoDraw
  /\ IF ApplicationsServe
       THEN Goes("verify3") /\ UNCHANGED <<file, volume>> /\ NoFault
       ELSE Refuses
  /\ UNCHANGED <<verified, running, done>>

\* bootstrap: an account that is there is used again, its password never changed.
FoundOrCreated(a, credential, ids) ==
  IF volume[a].account = Absent
    THEN [volume[a] EXCEPT !.account = credential, !.ids = ids]
    ELSE volume[a]

BootstrapIris ==
  /\ at = "iris" /\ NoDraw
  /\ IF Readable({"irisSpec"})
       THEN \E ids \in {1, 2} :
              Commits("iris", FoundOrCreated("iris", file["irisSpec"], ids), "irisInventory")
       ELSE Refuses
  /\ UNCHANGED <<verified, running, done>>

\* An inventory that is there must be the one the application returns.
KeepInventory(a, inventory, next) ==
  IF file[inventory] \in {Absent, volume[a].ids}
    THEN PutOnce(inventory, volume[a].ids, next)
    ELSE Refuses

IrisInventory ==
  /\ at = "irisInventory" /\ NoDraw
  /\ KeepInventory("iris", "irisInventory", "ctfd")
  /\ UNCHANGED <<verified, running, done>>

ProvisionCtfd ==
  /\ at = "ctfd" /\ NoDraw
  /\ IF Readable({"ctfdSpec"})
       THEN \E ids \in {1, 2} :
              Commits("ctfd", FoundOrCreated("ctfd", file["ctfdSpec"], ids), "ctfdInventory")
       ELSE Refuses
  /\ UNCHANGED <<verified, running, done>>

CtfdInventory ==
  /\ at = "ctfdInventory" /\ NoDraw
  /\ KeepInventory("ctfd", "ctfdInventory", "discovered")
  /\ UNCHANGED <<verified, running, done>>

\* The numbers of IRIS's teams and of CTFd's, as one.
Discovered == 2 * file["irisInventory"] + file["ctfdInventory"]
ActualIds == 2 * volume["iris"].ids + volume["ctfd"].ids

RecordDiscovered ==
  /\ at = "discovered" /\ NoDraw
  /\ Put("discovered", Discovered, "recreate")
  /\ UNCHANGED <<verified, running, done>>

\* The SQL again, now by hand: team accounts converge to it.
ProvisionGuacamole ==
  /\ at = "connections" /\ NoDraw
  /\ IF Readable({"sql"})
       THEN Commits("guacamole", [volume["guacamole"] EXCEPT !.account = file["sql"]], "verify5")
       ELSE Refuses
  /\ UNCHANGED <<verified, running, done>>

\* The indexer's accounts are put by its administrator, whose password is in the
\* user file the volume was made with.
ProvisionWazuh ==
  /\ at = "evidence" /\ NoDraw
  /\ IF volume["wazuh"].account # Torn
       THEN Commits("wazuh", [volume["wazuh"] EXCEPT !.account = file["secrets"]], "verify6")
       ELSE Refuses
  /\ UNCHANGED <<verified, running, done>>

\* A controller that has a configuration and a store keeps both.
ControllerConfig ==
  /\ at = "config" /\ NoDraw
  /\ IF file["config"] # Absent /\ file["state"] # Absent
       THEN Goes("verify7") /\ UNCHANGED <<file, volume>> /\ NoFault
       ELSE IF Readable({"discovered", "team"})
              THEN Put("config", file["discovered"], "state")
              ELSE Refuses
  /\ UNCHANGED <<verified, running, done>>

InitializeState ==
  /\ at = "state" /\ NoDraw
  /\ PutOnce("state", file["config"], "verify7")
  /\ UNCHANGED <<verified, running, done>>

-----------------------------------------------------------------------------
(* up: the stages in order *)

FIRST == <<"", "secrets", "applications", "iris", "connections", "evidence", "config">>
VERIFY == <<"", "verify2", "verify3", "verify4", "verify5", "verify6", "verify7">>
ENTER == <<"", "enter2", "enter3", "enter4", "enter5", "enter6", "enter7", "over">>
Stage == 2..7

\* preflight.check: the store's teams are the configured ones, each application
\* knows them by these numbers, and the index opens to the writer's credential.
Preflight ==
  /\ Readable({"state", "config"}) /\ file["config"] = file["state"]
  /\ file["state"] = ActualIds
  /\ volume["wazuh"].account = file["secrets"]

\* What the probe of stage i asks of files and accounts.
Probe(i) ==
  CASE i = 2 -> file["secrets"] \notin {Absent, Torn} /\ ApiSecretValid /\ file["users"] # Absent
    [] i = 3 -> ApplicationsServe
    [] i = 4 -> /\ \A f \in {"irisInventory", "ctfdInventory", "discovered"} : file[f] # Absent
                /\ volume["ctfd"].account # Absent
    [] i = 5 -> volume["guacamole"].account # Absent
    [] i = 6 -> volume["wazuh"].account # Torn
    [] i = 7 -> Preflight

\* Stages whose probe asks for a service that down has stopped and no earlier stage
\* has started again.
Stopped(i) == ~running /\ i \in {2, 3, 7}

\* A verified stage is passed over while its probe holds, and applied again only
\* after a down.
EnterStage(i) ==
  /\ at = ENTER[i]
  /\ \/ /\ i \in verified /\ Probe(i) /\ ~Stopped(i)
        /\ Goes(ENTER[i + 1]) /\ UNCHANGED verified
     \/ /\ i \in verified /\ running /\ ~Probe(i)
        /\ Goes("idle") /\ UNCHANGED verified
     \/ /\ i \in verified => ~running /\ (~Probe(i) \/ Stopped(i))
        /\ Goes(FIRST[i]) /\ verified' = verified \ {i}
  /\ UNCHANGED <<file, volume, running, done, key, hurt, faults>>

VerifyStage(i) ==
  /\ at = VERIFY[i]
  /\ IF Probe(i) THEN verified' = verified \cup {i} /\ Goes(ENTER[i + 1])
                 ELSE verified' = verified \ {i} /\ Goes("idle")
  /\ UNCHANGED <<file, volume, running, done, key, hurt, faults>>

UpBegin ==
  /\ at = "idle" /\ (file["secrets"] = Absent => key < MaxKey)
  /\ Goes(ENTER[2]) /\ done' = FALSE
  /\ UNCHANGED <<file, volume, verified, running, key, hurt, faults>>

UpEnd ==
  /\ at = "over"
  /\ Goes("idle") /\ done' = TRUE /\ running' = TRUE
  /\ UNCHANGED <<file, volume, verified, key, hurt, faults>>

UpStep ==
  \/ EnsureSecrets \/ WriteTeamCredentials \/ EnsureApiSecret \/ PinApiSecret
  \/ EnsureFacilitatorSecrets \/ RenderSpec \/ RenderWazuhUsers \/ RenderEnv \/ GenerateSql
  \/ StartDatabases \/ StartApplications \/ BootstrapIris \/ IrisInventory \/ ProvisionCtfd
  \/ CtfdInventory \/ RecordDiscovered \/ ProvisionGuacamole \/ ProvisionWazuh
  \/ ControllerConfig \/ InitializeState \/ UpEnd
  \/ \E i \in Stage : EnterStage(i) \/ VerifyStage(i)

\* Between two writes; the stage is not verified.
Kill ==
  /\ at # "idle" /\ Fault
  /\ at' = "idle" /\ hurt' = (hurt \/ at = "team")
  /\ UNCHANGED <<file, volume, verified, running, done, key>>

-----------------------------------------------------------------------------
(* The operator and the disk *)

\* One file, or one of a set.
Lose ==
  /\ at = "idle" /\ Fault /\ hurt' = TRUE /\ done' = FALSE
  /\ \E f \in File :
       /\ file[f] # Absent
       /\ file' = [file EXCEPT ![f] = IF f \in {"secrets", "facilitator"} THEN Torn ELSE Absent]
  /\ UNCHANGED <<volume, verified, running, at, key>>

Down ==
  /\ at = "idle" /\ running
  /\ running' = FALSE
  /\ UNCHANGED <<file, volume, verified, at, done, key, hurt, faults>>

\* down --volumes, which wants a recovery set and so a store: the runtime stays, and
\* with it the inventories for whose sake up then asks the new databases in vain.
Wipe ==
  /\ at = "idle" /\ volume["iris"].database # Absent /\ Readable({"state"})
  /\ volume' = [a \in App |-> NoVolume]
  /\ running' = FALSE /\ done' = FALSE /\ hurt' = TRUE
  /\ UNCHANGED <<file, verified, at, key, faults>>

\* The runtime is removed "and run up again", the journal with it.
RemoveRuntime ==
  /\ at = "idle" /\ key < MaxKey /\ \E f \in File : file[f] # Absent
  /\ file' = [f \in File |-> Absent] /\ verified' = {} /\ running' = TRUE /\ done' = FALSE
  /\ hurt' = (volume["iris"].database # Absent)
  /\ UNCHANGED <<volume, at, key, faults>>

Next == UpBegin \/ UpStep \/ Kill \/ Lose \/ Down \/ Wipe \/ RemoveRuntime

Spec == Init /\ [][Next]_vars

\* The operator repeats up; an up that has begun goes on.
Fairness == WF_vars(UpStep) /\ WF_vars(UpBegin)

FairSpec == Spec /\ Fairness

-----------------------------------------------------------------------------
(* Properties *)

\* When up ends, the credentials in the participants' handout are the ones every
\* application accepts, and the controller knows the teams by the numbers the
\* applications gave them: whatever was killed, lost, wiped or started over before
\* ("secrets are never rotated in place").
HandoutWorks ==
  done => /\ file["team"] # Absent => \A a \in App \ {"wazuh"} : volume[a].account = file["team"]
          /\ \A a \in {"iris", "ctfd"} : Connects(a)
          /\ file["state"] = ActualIds

\* A setup that no kill caught in a write, no loss and no wipe disturbed ends
\* however often it is killed between two steps.
Unfinished == ~done /\ ~hurt
SetupEnds == Unfinished ~> ~Unfinished

=============================================================================
