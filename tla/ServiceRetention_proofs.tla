----------------------- MODULE ServiceRetention_proofs -----------------------
(*****************************************************************************)
(* For any services, deployments and interruptions: what is loaded can run,  *)
(* an upgrade is done as a whole or not at all, and every record that can    *)
(* be recovered finds the release it goes back to, unless it is stranded.    *)
(* The inductive invariant says where a release can be (PlaceOK), where the  *)
(* first installation is (MovedOK), what each step of the controller finds   *)
(* (StepOK), what the cleanup leaves alone (SweepOK) and, as long as no      *)
(* interrupted deployment was overtaken, that what a deployment replaced is  *)
(* saved whole (OwedOK), to which release host and services belong at each   *)
(* step (StageOK) and that a rollback finds its way to it (WayOK).           *)
(*****************************************************************************)
EXTENDS ServiceRetention, TLAPS

USE ReleaseAssumption, SweepAssumption

RecordState == [phase : Phase, previous : Release, inPlace : BOOLEAN, services : SUBSET Service, retired : BOOLEAN]
ConfigState == [env : Release, models : Release, agents : [Service -> Release], hasModels : BOOLEAN]
HostState == [env : Release, models : Release, agents : [Service -> Release]]
ControlState == [at : Forward \cup Backward \cup {"rest"}, txn : Deployment, recovers : BOOLEAN]
SweepState == [at : {"none", "next", "detach", "remove", "mark"}, items : SUBSET Release, item : Release]

ReleaseTypes ==
    /\ app \in Release \cup {InPlace, Missing} /\ releases \subseteq Release /\ built \subseteq Release
    /\ moved \in 0..MaxDeployments /\ host \in HostState /\ loaded \subseteq Service
    /\ record \in [Deployment -> RecordState] /\ saved \in [Deployment -> ConfigState]
    /\ begun \in 0..MaxDeployments /\ control \in ControlState
    /\ owed \subseteq Deployment /\ overtaken \in BOOLEAN /\ mishaps \in 0..MaxFaults
SweepTypes ==
    /\ plan.items \subseteq Release /\ sweep \in SweepState
    /\ unfinished \in BOOLEAN /\ sweepFaults \in 0..MaxSweepFaults

\* "app" is the first installation, or a complete release that is there, or nothing for the
\* moment; what a deployment replaced was complete.
PlaceOK ==
    /\ app \in {InPlace, Missing} \cup (releases \cap built)
    /\ loaded # {} => app # Missing
    /\ app = InPlace => 0 \notin releases /\ \A n \in Deployment : record[n].previous = 0
    /\ \A n \in Deployment : record[n].previous \in built
    /\ \A n \in Deployment : record[n].phase # "none" => n <= begun

\* The first installation is at "app" until a deployment moves it; a deployment that began on
\* the plain directory replaces it.
MovedOK ==
    /\ app = InPlace <=> moved = 0
    /\ app = Missing => 0 \in releases
    /\ \A n \in Deployment : record[n].inPlace => record[n].previous = 0
    /\ control.at \in BeforeCutover \cup {"cutover"} => (Of.inPlace <=> app = InPlace)

\* What each step of the controller finds.
Pointed == {"configure", "migrate", "start", "check", "queue"}
Restored == {"undo env", "undo models", "undo start", "undo check"}
StepOK ==
    /\ control.at # "rest" => Txn <= begun
    /\ control.at \in Forward => Txn \in releases /\ (control.at # "build" => Txn \in built)
    /\ control.at \in BeforeCutover \cup {"cutover", "stop", "models"} => Of.previous = Active /\ app # Missing
    /\ control.at \in {"models", "activate", "configure", "migrate", "undo pointer", "undo env", "undo models"}
            => loaded = {}
    /\ control.at \in Pointed => app = Txn
    /\ control.at \in (Forward \ (BeforeCutover \cup {"cutover", "queue"})) \cup Backward => Of.phase \in CutOver
    /\ control.at = "queue" => Of.phase = "healthy"
    /\ \A n \in Deployment : n > begun => ~saved[n].hasModels
    /\ control.at \in BeforeCutover \cup {"cutover", "stop", "models"} => ~saved[Txn].hasModels

\* The cleanup keeps the lock and off the active release; a record that --recover accepts finds
\* its release, unless the release is just being removed and the record still to be marked.
Available(n) == PreviousExists(n) \/ AtOriginal(n) \/ Stranded(n)
SweepOK ==
    /\ sweep.at # "none" => /\ control.at = "rest" /\ app \in releases /\ app \notin sweep.items
                            /\ sweep.at = "detach" => sweep.item # app
    /\ sweep.at \in {"detach", "remove", "mark"} => unfinished
    /\ sweep.at # "none" \/ ~unfinished => \A n \in Deployment : Recoverable(n) =>
            Available(n) \/ (sweep.at \in {"remove", "mark"} /\ record[n].previous = sweep.item)

\* As long as nobody overtook an interrupted deployment: what a deployment replaced is saved
\* whole, and host and services belong to the release that the step in progress says.
Whole(n) ==
    /\ record[n].services = Service
    /\ saved[n].env = record[n].previous
    /\ saved[n].agents = [s \in Service |-> record[n].previous]
    /\ saved[n].hasModels => saved[n].models = record[n].previous
Belongs(r) == host.env = r /\ host.models = r /\ loaded = Service /\ host.agents = [s \in Service |-> r]
AgentsOf(r) == \A s \in loaded : host.agents[s] = r
OwedOK ==
    /\ \A m, n \in owed : m = n
    /\ \A n \in Deployment :
          /\ record[n].phase \in CutOver => n \in owed
          /\ record[n].phase \in CutOver \cup {"healthy"} => Whole(n)
          /\ record[n].phase = "healthy" => saved[n].hasModels
          /\ n \in owed => /\ record[n].phase \in CutOver
                           /\ saved[n].hasModels \/ host.models = record[n].previous
StageOK ==
    /\ control.at # "rest" => owed \subseteq {Txn}
    /\ owed = {} => Belongs(Active)
    /\ control.at \in BeforeCutover \cup {"cutover", "queue"} => owed = {}
    /\ control.at = "cutover" => Whole(Txn)
    /\ control.at \in {"stop", "models"} => host.models = Of.previous
    /\ control.at \in {"activate"} \cup Pointed => saved[Txn].hasModels
    /\ control.at \in {"migrate", "start", "check"} => host.env = Txn
    /\ control.at \in {"start", "check"} => host.models = Txn /\ AgentsOf(Txn)
    /\ control.at = "check" => loaded = Service
    /\ control.at \in {"undo models", "undo start", "undo check"} => host.env = Of.previous
    /\ control.at \in {"undo start", "undo check"} => host.models = Of.previous /\ AgentsOf(Of.previous)
    /\ control.at = "undo check" => loaded = Service
WayOK ==
    /\ app = Missing => moved \in owed
    /\ control.at \in Restored => Active = Of.previous
CohereOK == ~overtaken => OwedOK /\ StageOK /\ WayOK

RetentionInv == ReleaseTypes /\ SweepTypes /\ PlaceOK /\ MovedOK /\ StepOK /\ SweepOK /\ CohereOK

-----------------------------------------------------------------------------
\* A record or a backup that was changed, and what of it was not.
Phased(n, phase) ==
    /\ record' \in [Deployment -> RecordState]
    /\ \A m \in Deployment : /\ record'[m].phase = IF m = n THEN phase ELSE record[m].phase
                            /\ record'[m].previous = record[m].previous
                            /\ record'[m].inPlace = record[m].inPlace
                            /\ record'[m].services = record[m].services
                            /\ record'[m].retired = record[m].retired
Goes(step) == control' \in ControlState /\ control'.at = step /\ control'.txn = Txn
RecordWith(r, phase, services, retired) ==
    [phase |-> phase, previous |-> r.previous, inPlace |-> r.inPlace, services |-> services, retired |-> retired]

LEMMA RecordWithOK ==
    ASSUME NEW r \in RecordState, NEW phase \in Phase, NEW services \in SUBSET Service, NEW retired \in BOOLEAN
    PROVE  /\ RecordWith(r, phase, services, retired) \in RecordState
           /\ [r EXCEPT !.phase = phase] = RecordWith(r, phase, r.services, r.retired)
           /\ [[r EXCEPT !.phase = phase] EXCEPT !.services = services] = RecordWith(r, phase, services, r.retired)
           /\ [r EXCEPT !.retired = retired] = RecordWith(r, r.phase, r.services, retired)
<1>1. RecordWith(r, phase, services, retired) \in RecordState
  BY DEF RecordWith, RecordState
<1>2. r = RecordWith(r, r.phase, r.services, r.retired)
  BY DEF RecordWith, RecordState
<1>3. [r EXCEPT !.phase = phase] = RecordWith(r, phase, r.services, r.retired)
  BY DEF RecordWith, RecordState
<1>4. [RecordWith(r, phase, r.services, r.retired) EXCEPT !.services = services] = RecordWith(r, phase, services, r.retired)
  BY DEF RecordWith
<1>5. [RecordWith(r, r.phase, r.services, r.retired) EXCEPT !.retired = retired] = RecordWith(r, r.phase, r.services, retired)
  BY DEF RecordWith
<1> HIDE DEF RecordWith
<1> QED  BY <1>1, <1>2, <1>3, <1>4, <1>5

ConfigWith(env, models, agents, hasModels) == [env |-> env, models |-> models, agents |-> agents, hasModels |-> hasModels]

LEMMA ConfigWithOK ==
    ASSUME NEW c \in ConfigState, NEW env, NEW models, NEW agents, NEW hasModels \in BOOLEAN
    PROVE  /\ [[c EXCEPT !.env = env] EXCEPT !.agents = agents] = ConfigWith(env, c.models, agents, c.hasModels)
           /\ [[c EXCEPT !.models = models] EXCEPT !.hasModels = hasModels] = ConfigWith(c.env, models, c.agents, hasModels)
<1>0. c.hasModels \in BOOLEAN
  BY DEF ConfigState
<1>1. c = ConfigWith(c.env, c.models, c.agents, c.hasModels)
  BY DEF ConfigWith, ConfigState
<1>2. [ConfigWith(c.env, c.models, c.agents, c.hasModels) EXCEPT !.env = env] = ConfigWith(env, c.models, c.agents, c.hasModels)
  BY DEF ConfigWith
<1>3. [ConfigWith(env, c.models, c.agents, c.hasModels) EXCEPT !.agents = agents] = ConfigWith(env, c.models, agents, c.hasModels)
  BY DEF ConfigWith
<1>4. [ConfigWith(c.env, c.models, c.agents, c.hasModels) EXCEPT !.models = models] = ConfigWith(c.env, models, c.agents, c.hasModels)
  BY DEF ConfigWith
<1>5. [ConfigWith(c.env, models, c.agents, c.hasModels) EXCEPT !.hasModels = hasModels] = ConfigWith(c.env, models, c.agents, hasModels)
  BY <1>0 DEF ConfigWith
<1> HIDE DEF ConfigWith
<1> QED  BY <1>1, <1>2, <1>3, <1>4, <1>5

LEMMA PhaseOK ==
    ASSUME ReleaseTypes, NEW n \in Deployment, NEW phase \in Phase, record' = [record EXCEPT ![n].phase = phase]
    PROVE  Phased(n, phase)
<1> DEFINE r == RecordWith(record[n], phase, record[n].services, record[n].retired)
<1>1. record[n] \in RecordState /\ record[n].services \in SUBSET Service /\ record[n].retired \in BOOLEAN
  BY DEF ReleaseTypes, RecordState
<1>2. r \in RecordState /\ [record[n] EXCEPT !.phase = phase] = r
  BY <1>1, RecordWithOK
<1>3. record' = [record EXCEPT ![n] = r]
  BY <1>2
<1>4. /\ r.phase = phase /\ r.previous = record[n].previous /\ r.services = record[n].services
      /\ r.retired = record[n].retired /\ r.inPlace = record[n].inPlace
  BY DEF RecordWith
<1> HIDE DEF r
<1> QED  BY <1>2, <1>3, <1>4 DEF Phased, ReleaseTypes

LEMMA GoesOK ==
    ASSUME ReleaseTypes, NEW step \in Forward \cup Backward, GoOn(step)
    PROVE  Goes(step)
<1>1. control \in ControlState
  BY DEF ReleaseTypes
<1>2. control' = [at |-> step, txn |-> control.txn, recovers |-> control.recovers]
  BY <1>1 DEF GoOn, ControlState
<1>3. control.txn \in Deployment /\ control.recovers \in BOOLEAN
  BY <1>1 DEF ControlState
<1> QED  BY <1>2, <1>3 DEF Goes, ControlState, Txn

LEMMA TxnOK == ReleaseTypes => Txn \in Deployment /\ Of \in RecordState
BY DEF ReleaseTypes, ControlState, Txn, Of

LEMMA RestingOK == Resting \in ControlState /\ Resting.at = "rest"
BY DEF Resting, ControlState, Deployment

LEMMA PhasesOK == /\ CutOver \subseteq Phase /\ Terminal \subseteq Phase
                  /\ \A phase \in CutOver : phase \notin {"none", "building", "preflight-backup", "built", "healthy", "rolled-back", "failed-before-cutover"}
BY DEF CutOver, Terminal, Phase

-----------------------------------------------------------------------------
\* What an action does to the record, the backup, the host and the controller.
LEMMA BeginEffect ==
    ASSUME ReleaseTypes, BeginDeployment
    PROVE  /\ begun + 1 \in Deployment /\ begun \in Nat
           /\ record' \in [Deployment -> RecordState]
           /\ \A m \in Deployment \ {begun + 1} : record'[m] = record[m]
           /\ record'[begun + 1].phase = "building" /\ record'[begun + 1].previous = Active
           /\ record'[begun + 1].inPlace = (app = InPlace)
           /\ record'[begun + 1].services = record[begun + 1].services
           /\ control' \in ControlState /\ control'.at = "build" /\ control'.txn = begun + 1
<1>1. begun + 1 \in Deployment /\ begun \in Nat
  BY DEF BeginDeployment, ReleaseTypes, Deployment
<1>2. Active \in Release /\ (app = InPlace) \in BOOLEAN
  BY DEF BeginDeployment, AppExists, ReleaseTypes, Active, Release
<1> DEFINE n == begun + 1
           inPlace == app = InPlace
           r == [phase |-> "building", previous |-> Active, inPlace |-> inPlace,
                 services |-> record[n].services, retired |-> record[n].retired]
<1>3. record[n] \in RecordState
  BY <1>1 DEF ReleaseTypes
<1>4. /\ r \in RecordState /\ r.phase = "building" /\ r.previous = Active /\ r.inPlace = inPlace
      /\ r.services = record[n].services
  BY <1>2, <1>3 DEF RecordState, Phase
<1>5. record' = [record EXCEPT ![n] = r]
  <2> DEFINE one == [record EXCEPT ![n].phase = "building"]
             two == [one EXCEPT ![n].previous = Active]
  <2>1. record' = [two EXCEPT ![n].inPlace = inPlace]
    BY DEF BeginDeployment
  <2>2. one[n] = RecordWith(record[n], "building", record[n].services, record[n].retired)
    <3>1. record[n].services \in SUBSET Service /\ record[n].retired \in BOOLEAN /\ "building" \in Phase
      BY <1>3 DEF RecordState, Phase
    <3>2. one[n] = [record[n] EXCEPT !.phase = "building"]
      BY <1>1 DEF ReleaseTypes
    <3> QED  BY <1>3, <3>1, <3>2, RecordWithOK
  <2>3. one = [record EXCEPT ![n] = one[n]]
    BY <1>1 DEF ReleaseTypes
  <2>4. [[one[n] EXCEPT !.previous = Active] EXCEPT !.inPlace = inPlace] = r
    <3> DEFINE first == [phase |-> "building", previous |-> record[n].previous, inPlace |-> record[n].inPlace,
                         services |-> record[n].services, retired |-> record[n].retired]
               second == [phase |-> "building", previous |-> Active, inPlace |-> record[n].inPlace,
                          services |-> record[n].services, retired |-> record[n].retired]
    <3> HIDE DEF one, n, inPlace
    <3>1. one[n] = first
      BY <2>2 DEF RecordWith
    <3>2. [first EXCEPT !.previous = Active] = second
      OBVIOUS
    <3>3. [second EXCEPT !.inPlace = inPlace] = r
      OBVIOUS
    <3> HIDE DEF first, second, r
    <3> QED  BY <3>1, <3>2, <3>3
  <2> HIDE DEF r, inPlace
  <2>5. two = [record EXCEPT ![n] = [one[n] EXCEPT !.previous = Active]]
    BY <1>1, <2>3 DEF ReleaseTypes
  <2>6. two[n] = [one[n] EXCEPT !.previous = Active]
    BY <1>1, <2>5 DEF ReleaseTypes
  <2> HIDE DEF one, two
  <2> QED  BY <1>1, <2>1, <2>4, <2>5, <2>6 DEF ReleaseTypes
<1>6. control' = [at |-> "build", txn |-> n, recovers |-> FALSE]
  BY DEF BeginDeployment
<1> HIDE DEF r, inPlace
<1>7. control' \in ControlState
  BY <1>1, <1>6 DEF ControlState, Forward
<1> QED  BY <1>1, <1>4, <1>5, <1>6, <1>7 DEF ReleaseTypes, inPlace

LEMMA CaptureEffect ==
    ASSUME ReleaseTypes, CaptureConfiguration
    PROVE  /\ record' \in [Deployment -> RecordState] /\ saved' \in [Deployment -> ConfigState]
           /\ \A m \in Deployment \ {Txn} : record'[m] = record[m] /\ saved'[m] = saved[m]
           /\ record'[Txn].phase = "built" /\ record'[Txn].previous = Of.previous /\ record'[Txn].services = loaded
           /\ record'[Txn].retired = Of.retired /\ record'[Txn].inPlace = Of.inPlace
           /\ saved'[Txn].env = host.env /\ saved'[Txn].agents = host.agents
           /\ saved'[Txn].hasModels <=> saved[Txn].hasModels
           /\ Goes("cutover")
<1>1. Txn \in Deployment /\ record[Txn] \in RecordState /\ saved[Txn] \in ConfigState /\ host \in HostState /\ loaded \in SUBSET Service
  BY TxnOK DEF ReleaseTypes, Of
<1> DEFINE r == RecordWith(record[Txn], "built", loaded, record[Txn].retired)
           c == ConfigWith(host.env, saved[Txn].models, host.agents, saved[Txn].hasModels)
<1>2. r \in RecordState /\ [[record[Txn] EXCEPT !.phase = "built"] EXCEPT !.services = loaded] = r
  <2>1. record[Txn].retired \in BOOLEAN
    BY <1>1 DEF RecordState
  <2> QED  BY <1>1, <2>1, RecordWithOK DEF Phase
<1>3. record' = [record EXCEPT ![Txn] = r]
  <2> DEFINE half == [record EXCEPT ![Txn].phase = "built"]
  <2>1. record' = [half EXCEPT ![Txn].services = loaded]
    BY DEF CaptureConfiguration
  <2>2. half[Txn] = [record[Txn] EXCEPT !.phase = "built"]
    BY <1>1 DEF ReleaseTypes
  <2>3. record' = [half EXCEPT ![Txn] = r]
    BY <1>2, <2>1, <2>2
  <2> HIDE DEF r
  <2> QED  BY <2>3
<1>4. c \in ConfigState
  BY <1>1 DEF ConfigState, HostState, ConfigWith
<1>5. saved' = [saved EXCEPT ![Txn] = c]
  <2> DEFINE half == [saved EXCEPT ![Txn].env = host.env]
  <2>1. saved' = [half EXCEPT ![Txn].agents = host.agents]
    BY DEF CaptureConfiguration
  <2>2. half[Txn] = [saved[Txn] EXCEPT !.env = host.env]
    BY <1>1 DEF ReleaseTypes
  <2>3. [[saved[Txn] EXCEPT !.env = host.env] EXCEPT !.agents = host.agents] = c
    BY <1>1, ConfigWithOK
  <2>4. saved' = [half EXCEPT ![Txn] = c]
    BY <2>1, <2>2, <2>3
  <2> HIDE DEF c
  <2> QED  BY <2>4
<1>6. r.phase = "built" /\ r.previous = Of.previous /\ r.services = loaded /\ r.retired = Of.retired
      /\ r.inPlace = Of.inPlace
  BY DEF RecordWith, Of
<1>7. c.env = host.env /\ c.agents = host.agents /\ (c.hasModels <=> saved[Txn].hasModels)
  BY DEF ConfigWith
<1>8. Goes("cutover")
  BY GoesOK DEF CaptureConfiguration, Forward
<1> HIDE DEF r, c
<1> QED  BY <1>1, <1>2, <1>3, <1>4, <1>5, <1>6, <1>7, <1>8 DEF ReleaseTypes

LEMMA ModelsEffect ==
    ASSUME ReleaseTypes, CaptureModels
    PROVE  /\ saved' \in [Deployment -> ConfigState]
           /\ \A m \in Deployment \ {Txn} : saved'[m] = saved[m]
           /\ saved'[Txn].env = saved[Txn].env /\ saved'[Txn].agents = saved[Txn].agents
           /\ saved'[Txn].models = host.models /\ saved'[Txn].hasModels
           /\ Phased(Txn, "activating") /\ Goes("activate")
<1>1. Txn \in Deployment /\ saved[Txn] \in ConfigState /\ host \in HostState
  BY TxnOK DEF ReleaseTypes
<1> DEFINE c == ConfigWith(saved[Txn].env, host.models, saved[Txn].agents, TRUE)
<1>2. c \in ConfigState
  BY <1>1 DEF ConfigState, HostState, ConfigWith
<1>3. saved' = [saved EXCEPT ![Txn] = c]
  <2> DEFINE half == [saved EXCEPT ![Txn].models = host.models]
  <2>1. saved' = [half EXCEPT ![Txn].hasModels = TRUE]
    BY DEF CaptureModels
  <2>2. half[Txn] = [saved[Txn] EXCEPT !.models = host.models]
    BY <1>1 DEF ReleaseTypes
  <2>4. [[saved[Txn] EXCEPT !.models = host.models] EXCEPT !.hasModels = TRUE] = c
    BY <1>1, ConfigWithOK
  <2>5. saved' = [half EXCEPT ![Txn] = c]
    BY <2>1, <2>2, <2>4
  <2> HIDE DEF c
  <2> QED  BY <2>5
<1>4. c.env = saved[Txn].env /\ c.agents = saved[Txn].agents /\ c.models = host.models /\ c.hasModels
  BY DEF ConfigWith
<1>5. Phased(Txn, "activating") /\ Goes("activate")
  BY <1>1, PhaseOK, GoesOK DEF CaptureModels, SavePhase, Phase, CutOver, Forward
<1> HIDE DEF c
<1> QED  BY <1>1, <1>2, <1>3, <1>4, <1>5 DEF ReleaseTypes

LEMMA RaisesEffect ==
    ASSUME ReleaseTypes, Raises
    PROVE  \/ /\ control.at \in BeforeCutover /\ Phased(Txn, "failed-before-cutover") /\ control' = Resting /\ owed' = owed
           \/ /\ control.at \in Forward \ BeforeCutover /\ Phased(Txn, "rolling-back")
              /\ Goes("undo stop") /\ owed' = owed \cup {Txn}
           \/ /\ control.at \in Backward /\ (record' = record \/ Phased(Txn, "rollback-failed"))
              /\ control' = Resting /\ owed' = owed
<1>1. Txn \in Deployment /\ {"failed-before-cutover", "rolling-back", "rollback-failed"} \subseteq Phase
  BY TxnOK DEF Phase, CutOver, Terminal
<1>2. \A phase \in Phase : SavePhase(phase) => Phased(Txn, phase)
  BY <1>1, PhaseOK DEF SavePhase
<1>3. CASE control.at \in BeforeCutover
  BY <1>1, <1>2, <1>3 DEF Raises
<1>4. CASE control.at \in Forward \ BeforeCutover
  BY <1>1, <1>2, <1>4, GoesOK DEF Raises, Backward
<1>5. CASE control.at \notin Forward
  <2>1. control.at \in Backward
    BY <1>5 DEF Raises, ReleaseTypes, ControlState
  <2>2. control.at \notin BeforeCutover
    BY <1>5 DEF BeforeCutover, Forward
  <2> QED  BY <1>1, <1>2, <1>5, <2>1, <2>2 DEF Raises
<1> QED  BY <1>3, <1>4, <1>5

LEMMA RecoverEffect ==
    ASSUME ReleaseTypes, NEW n \in Deployment, Recover(n)
    PROVE  /\ Phased(n, "rolling-back")
           /\ control' \in ControlState /\ control'.at = "undo stop" /\ control'.txn = n
<1>1. Phased(n, "rolling-back")
  BY PhaseOK DEF Recover, Phase, CutOver
<1> QED  BY <1>1 DEF Recover, ControlState, Backward

LEMMA DefinedOK ==
    ASSUME ReleaseTypes, NEW s \in Of.services
    PROVE  \E r \in Release :
              /\ s \in Service /\ Defined(s) \in HostState
              /\ r = IF control.at = "start" THEN Txn ELSE saved[Txn].agents[s]
              /\ Defined(s).env = host.env /\ Defined(s).models = host.models
              /\ Defined(s).agents = [host.agents EXCEPT ![s] = r]
<1>1. Txn \in Deployment /\ Of \in RecordState /\ saved[Txn] \in ConfigState /\ host \in HostState
  BY TxnOK DEF ReleaseTypes
<1> DEFINE r == IF control.at = "start" THEN Txn ELSE saved[Txn].agents[s]
<1>3. s \in Service /\ Txn \in Release /\ saved[Txn].agents[s] \in Release
  BY <1>1 DEF RecordState, ConfigState, Deployment, Release
<1>4. r \in Release
  BY <1>3
<1>5. Defined(s) = [host EXCEPT !.agents[s] = r]
  BY DEF Defined
<1> HIDE DEF r
<1>6. /\ Defined(s) \in HostState /\ Defined(s).env = host.env /\ Defined(s).models = host.models
      /\ Defined(s).agents = [host.agents EXCEPT ![s] = r]
  BY <1>1, <1>3, <1>4, <1>5 DEF HostState
<1> QED  BY <1>3, <1>4, <1>6 DEF r

LEMMA StartEffect ==
    ASSUME ReleaseTypes, StartService
    PROVE  \E s \in Of.services \ loaded, r \in Release :
              /\ loaded' = loaded \cup {s} /\ host' \in HostState /\ s \in Service
              /\ r = IF control.at = "start" THEN Txn ELSE saved[Txn].agents[s]
              /\ host'.env = host.env /\ host'.models = host.models /\ host'.agents = [host.agents EXCEPT ![s] = r]
<1>1. PICK s \in Of.services \ loaded : host' = Defined(s) /\ loaded' = loaded \cup {s}
  BY DEF StartService
<1> QED  BY <1>1, DefinedOK

LEMMA PlacesOK ==
    /\ Deployment \subseteq Release /\ 0 \in Release /\ 0 \notin Deployment /\ InPlace \notin Release /\ Missing \notin Release /\ InPlace # Missing
    /\ \A r \in Release : r \in Deployment \/ r = 0
    /\ ReleaseTypes => Active \in Release \cup {Missing} /\ (Active = Missing <=> app = Missing) /\ (app # InPlace => Active = app)
    /\ ReleaseTypes => Txn \in Release
<1>1. /\ Deployment \subseteq Release /\ 0 \in Release /\ 0 \notin Deployment /\ InPlace \notin Release
      /\ Missing \notin Release /\ InPlace # Missing /\ \A r \in Release : r \in Deployment \/ r = 0
  BY DEF Release, Deployment, InPlace, Missing
<1>2. ReleaseTypes => app \in Release \cup {InPlace, Missing}
  BY DEF ReleaseTypes
<1> QED  BY <1>1, <1>2, TxnOK DEF Active

LEMMA HostOK ==
    ASSUME NEW h \in HostState, NEW r \in Release
    PROVE  /\ [h EXCEPT !.env = r] \in HostState /\ [h EXCEPT !.models = r] \in HostState
           /\ [h EXCEPT !.env = r].env = r /\ [h EXCEPT !.env = r].models = h.models /\ [h EXCEPT !.env = r].agents = h.agents
           /\ [h EXCEPT !.models = r].models = r /\ [h EXCEPT !.models = r].env = h.env /\ [h EXCEPT !.models = r].agents = h.agents
BY DEF HostState

-----------------------------------------------------------------------------
LEMMA ReleaseTypeStep ==
    ASSUME ReleaseTypes, ReleaseNext
    PROVE  ReleaseTypes'
<1>1. Txn \in Deployment /\ Txn \in Release /\ Of \in RecordState /\ saved[Txn] \in ConfigState /\ host \in HostState
  BY TxnOK, PlacesOK DEF ReleaseTypes
<1>2. /\ \A phase \in Phase : SavePhase(phase) => record' \in [Deployment -> RecordState]
      /\ \A step \in Forward \cup Backward : GoOn(step) => control' \in ControlState
  BY <1>1, PhaseOK, GoesOK DEF SavePhase, Phased, Goes
<1>3. Resting \in ControlState
  BY RestingOK
<1>4. CASE BeginDeployment
  BY <1>4, BeginEffect DEF BeginDeployment, ReleaseTypes, Deployment, Release
<1>5. CASE Build
  BY <1>1, <1>2, <1>5 DEF Build, ReleaseTypes, Phase, Forward
<1>6. CASE Backup
  BY <1>1, <1>2, <1>6 DEF Backup, ReleaseTypes, Forward
<1>7. CASE CaptureConfiguration
  BY <1>7, CaptureEffect DEF CaptureConfiguration, ReleaseTypes, Goes
<1>8. CASE CutoverBegins
  BY <1>1, <1>2, <1>8 DEF CutoverBegins, ReleaseTypes, Phase, CutOver, Forward
<1>9. CASE StopService
  BY <1>9 DEF StopService, ReleaseTypes
<1>10. CASE Stopped
  BY <1>1, <1>2, <1>10 DEF Stopped, ReleaseTypes, Forward, Backward
<1>11. CASE CaptureModels
  BY <1>11, ModelsEffect DEF CaptureModels, ReleaseTypes, Goes, Phased
<1>12. CASE MoveAway
  BY <1>1, <1>12, PlacesOK DEF MoveAway, ReleaseTypes, Deployment
<1>13. CASE PointApp
  BY <1>1, <1>2, <1>13 DEF PointApp, ReleaseTypes, Phase, CutOver, Forward
<1>14. CASE Configure
  BY <1>1, <1>2, <1>14, HostOK DEF Configure, ReleaseTypes, Phase, CutOver, Forward
<1>15. CASE Migrate
  BY <1>1, <1>2, <1>15, HostOK DEF Migrate, ReleaseTypes, Phase, CutOver, Forward
<1>16. CASE StartService
  <2>1. loaded' \subseteq Service /\ host' \in HostState
    BY <1>16, StartEffect DEF ReleaseTypes
  <2> QED  BY <2>1, <1>16 DEF StartService, ReleaseTypes
<1>17. CASE Started
  BY <1>1, <1>2, <1>17 DEF Started, ReleaseTypes, Phase, CutOver, Forward, Backward
<1>18. CASE Accepted
  BY <1>1, <1>2, <1>18 DEF Accepted, ReleaseTypes, Phase, Terminal, Forward
<1>19. CASE QueueBackup
  BY <1>3, <1>19 DEF QueueBackup, Finish, ReleaseTypes
<1>20. CASE UndoPointer
  <2>1. Of.previous \in Release
    BY <1>1 DEF RecordState
  <2> QED  BY <1>1, <1>2, <1>20, <2>1 DEF UndoPointer, ReleaseTypes, Backward
<1>21. CASE UndoEnv
  <2>1. saved[Txn].env \in Release
    BY <1>1 DEF ConfigState
  <2> QED  BY <1>1, <1>2, <1>21, <2>1, HostOK DEF UndoEnv, ReleaseTypes, Backward
<1>22. CASE UndoModels
  <2>1. saved[Txn].models \in Release
    BY <1>1 DEF ConfigState
  <2>2. host' \in HostState
    BY <1>1, <1>22, <2>1, HostOK DEF UndoModels
  <2> QED  BY <1>1, <1>2, <1>22, <2>2 DEF UndoModels, ReleaseTypes, Backward
<1>23. CASE RolledBack
  BY <1>1, <1>2, <1>3, <1>23 DEF RolledBack, Finish, ReleaseTypes, Phase, Terminal
<1>24. ASSUME Raises PROVE record' \in [Deployment -> RecordState] /\ control' \in ControlState /\ owed' \subseteq Deployment
  BY <1>1, <1>3, <1>24, RaisesEffect DEF ReleaseTypes, Goes, Phased
<1>25. CASE CannotGoOn
  BY <1>24, <1>25 DEF CannotGoOn, ReleaseTypes
<1>28. CASE CannotStart
  <2>1. host' \in HostState
    BY <1>28, DefinedOK DEF CannotStart
  <2> QED  BY <1>24, <1>28, <2>1 DEF CannotStart, ReleaseTypes
<1>26. CASE Mishap
  <2>1. record' \in [Deployment -> RecordState] /\ control' \in ControlState /\ owed' \subseteq Deployment
    BY <1>3, <1>24, <1>26 DEF Mishap, Killed, ReleaseTypes
  <2>2. mishaps' \in 0..MaxFaults
    BY <1>26 DEF Mishap, ReleaseTypes
  <2> QED  BY <1>26, <2>1, <2>2 DEF Mishap, ReleaseTypes
<1>27. ASSUME NEW n \in Deployment, Recover(n) PROVE ReleaseTypes'
  BY <1>27, RecoverEffect DEF Recover, Phased, ReleaseTypes
<1> QED
  BY <1>4, <1>5, <1>6, <1>7, <1>8, <1>9, <1>10, <1>11, <1>12, <1>13, <1>14, <1>15, <1>16, <1>17, <1>18, <1>19,
     <1>20, <1>21, <1>22, <1>23, <1>25, <1>26, <1>27, <1>28 DEF ReleaseNext, ControllerStep, Deploy, RollBack, Services

-----------------------------------------------------------------------------
\* What a record keeps, except that of the deployment that begins.
RecordKept ==
    /\ begun' = begun
    /\ \A n \in Deployment : /\ record'[n].previous = record[n].previous
                             /\ record'[n].inPlace = record[n].inPlace
                             /\ record'[n].retired = record[n].retired
                             /\ record'[n].phase = record[n].phase \/ (n = Txn /\ control.at # "rest") \/ Recover(n)
PlaceKept == app' = app /\ releases' = releases /\ moved' = moved /\ built \subseteq built' /\ loaded' \subseteq loaded

LEMMA RecordStep ==
    ASSUME ReleaseTypes, ReleaseNext
    PROVE  BeginDeployment \/ RecordKept
<1>1. Txn \in Deployment
  BY TxnOK
<1>2. ASSUME NEW phase \in Phase, SavePhase(phase), control.at # "rest", begun' = begun PROVE RecordKept
  <2>1. Phased(Txn, phase)
    BY <1>1, <1>2, PhaseOK DEF SavePhase
  <2> QED  BY <1>2, <2>1 DEF Phased, RecordKept
<1>3. ASSUME record' = record, begun' = begun PROVE RecordKept
  BY <1>3 DEF RecordKept
<1>4. CASE Build \/ Backup \/ CutoverBegins
  BY <1>2, <1>3, <1>4 DEF Build, Backup, CutoverBegins, Phase, CutOver
<1>5. CASE CaptureConfiguration
  <2>1. ASSUME NEW n \in Deployment
        PROVE  record'[n].previous = record[n].previous /\ (record'[n].inPlace = record[n].inPlace) /\ (record'[n].retired = record[n].retired) /\ (n # Txn => record'[n] = record[n])
    BY <1>5, CaptureEffect DEF Of
  <2> QED  BY <1>5, <2>1 DEF RecordKept, CaptureConfiguration
<1>6. CASE StopService \/ Stopped \/ MoveAway \/ StartService \/ QueueBackup \/ UndoPointer \/ UndoEnv \/ UndoModels
  BY <1>3, <1>6 DEF StopService, Stopped, MoveAway, StartService, QueueBackup, UndoPointer, UndoEnv, UndoModels
<1>7. CASE CaptureModels \/ PointApp \/ Configure \/ Migrate
  BY <1>2, <1>7 DEF CaptureModels, PointApp, Configure, Migrate, Phase, CutOver
<1>8. CASE Started \/ Accepted \/ RolledBack
  BY <1>2, <1>3, <1>8 DEF Started, Accepted, RolledBack, Phase, CutOver, Terminal
<1>9. ASSUME Raises, begun' = begun PROVE RecordKept
  BY <1>1, <1>9, RaisesEffect DEF Phased, RecordKept, Raises
<1>10. CASE CannotGoOn \/ CannotStart \/ Mishap
  BY <1>3, <1>9, <1>10 DEF CannotGoOn, CannotStart, Mishap, Killed
<1>11. ASSUME NEW n \in Deployment, Recover(n) PROVE RecordKept
  BY <1>11, RecoverEffect DEF Phased, RecordKept, Recover
<1> QED
  BY <1>4, <1>5, <1>6, <1>7, <1>8, <1>10, <1>11 DEF ReleaseNext, ControllerStep, Deploy, RollBack, Services

LEMMA PlaceKeptStep ==
    ASSUME ReleaseNext
    PROVE  BeginDeployment \/ MoveAway \/ PointApp \/ UndoPointer \/ StartService \/ PlaceKept
<1>1. CASE Build \/ Backup \/ CaptureConfiguration \/ CutoverBegins \/ CaptureModels \/ Configure \/ Migrate \/ Accepted \/ QueueBackup
  BY <1>1 DEF PlaceKept, Build, Backup, CaptureConfiguration, CutoverBegins, CaptureModels, Configure, Migrate, Accepted, QueueBackup
<1>2. CASE StopService \/ Stopped \/ Started \/ UndoEnv \/ UndoModels \/ RolledBack
  BY <1>2 DEF PlaceKept, StopService, Stopped, Started, UndoEnv, UndoModels, RolledBack
<1>3. CASE CannotGoOn \/ CannotStart \/ Mishap \/ \E n \in Deployment : Recover(n)
  BY <1>3 DEF PlaceKept, CannotGoOn, CannotStart, Mishap, Recover
<1> QED
  BY <1>1, <1>2, <1>3 DEF ReleaseNext, ControllerStep, Deploy, RollBack, Services

LEMMA PlaceStep ==
    ASSUME ReleaseTypes, PlaceOK, StepOK, ReleaseNext
    PROVE  PlaceOK'
<1>1. Txn \in Deployment /\ Of \in RecordState /\ Of = record[Txn] /\ Of.previous \in Release
  BY TxnOK DEF Of, RecordState
<1>2. \A n \in Deployment : record'[n].phase # "none" => n <= begun'
  <2>1. CASE BeginDeployment
    <3>1. begun' = begun + 1
      BY <2>1 DEF BeginDeployment
    <3>2. \A n \in Deployment \ {begun + 1} : record'[n] = record[n]
      BY <2>1, BeginEffect
    <3> QED  BY <3>1, <3>2, <2>1, BeginEffect DEF PlaceOK, Deployment
  <2>2. CASE RecordKept
    <3>1. ASSUME NEW n \in Deployment, Recover(n) PROVE record[n].phase # "none"
      BY <3>1, PhasesOK DEF Recover, Recoverable
    <3> QED  BY <2>2, <3>1, <1>1 DEF RecordKept, PlaceOK, StepOK
  <2> QED  BY <2>1, <2>2, RecordStep
<1>3. CASE BeginDeployment
  <2>1. /\ app' = app /\ releases' = releases \cup {begun + 1} /\ built' = built /\ loaded' = loaded /\ app # Missing
        /\ begun + 1 \in Deployment
    BY <1>3, BeginEffect, PlacesOK DEF BeginDeployment, AppExists, ReleaseTypes
  <2>2. \A n \in Deployment : record'[n].previous = Active \/ record'[n].previous = record[n].previous
    BY <1>3, BeginEffect
  <2>3. 0 # begun + 1
    BY <2>1, PlacesOK
  <2>4. Active \in built
    <3>1. CASE app = InPlace
      BY <2>1, <3>1 DEF PlaceOK, Active
    <3> QED  BY <2>1, <3>1 DEF PlaceOK, Active
  <2> QED  BY <1>2, <2>1, <2>2, <2>3, <2>4, PlacesOK DEF PlaceOK, Active
<1>4. ASSUME ~BeginDeployment
      PROVE  RecordKept /\ \A n \in Deployment : record'[n].previous = record[n].previous
  BY <1>4, RecordStep DEF RecordKept
<1>5. MoveAway => ~BeginDeployment
  BY DEF MoveAway, BeginDeployment
<1>6. PointApp => ~BeginDeployment
  BY DEF PointApp, BeginDeployment
<1>7. UndoPointer => ~BeginDeployment
  BY DEF UndoPointer, BeginDeployment
<1>8. StartService => ~BeginDeployment
  BY DEF StartService, BeginDeployment
<1>9. CASE MoveAway
  BY <1>2, <1>4, <1>5, <1>9, PlacesOK DEF MoveAway, PlaceOK, StepOK
<1>10. CASE PointApp
  <2>1. Txn \in releases /\ Txn \in built /\ loaded = {}
    BY <1>10 DEF PointApp, StepOK, Forward
  <2> QED  BY <1>1, <1>2, <1>4, <1>6, <1>10, <2>1, PlacesOK DEF PointApp, PlaceOK
<1>11. CASE UndoPointer
  <2>1. loaded = {}
    BY <1>11 DEF UndoPointer, StepOK
  <2> QED  BY <1>1, <1>2, <1>4, <1>7, <1>11, <2>1, PlacesOK DEF UndoPointer, PreviousExists, PlaceOK
<1>12. CASE StartService
  <2>1. app # Missing
    BY <1>12, PlacesOK DEF StartService, AppExists, ReleaseTypes
  <2> QED  BY <1>2, <1>4, <1>8, <1>12, <2>1 DEF StartService, PlaceOK
<1>13. CASE PlaceKept /\ ~BeginDeployment
  BY <1>2, <1>4, <1>13 DEF PlaceKept, PlaceOK
<1> QED  BY <1>3, <1>9, <1>10, <1>11, <1>12, <1>13, PlaceKeptStep

LEMMA MovedStep ==
    ASSUME ReleaseTypes, PlaceOK, MovedOK, StepOK, ReleaseNext
    PROVE  MovedOK'
<1>1. Txn \in Deployment /\ Of = record[Txn] /\ Of' = record'[Txn'] /\ Txn' = control'.txn
  BY TxnOK DEF Of, Txn
<1>2. \A n \in Deployment : record'[n].inPlace => record'[n].previous = 0
  <2>1. CASE BeginDeployment
    <3>1. \A n \in Deployment \ {begun + 1} : record'[n].inPlace => record'[n].previous = 0
      BY <2>1, BeginEffect DEF MovedOK
    <3>2. record'[begun + 1].inPlace => record'[begun + 1].previous = 0
      BY <2>1, BeginEffect DEF Active
    <3> QED  BY <3>1, <3>2
  <2>2. CASE RecordKept
    BY <2>2 DEF RecordKept, MovedOK
  <2> QED  BY <2>1, <2>2, RecordStep
<1>3. (app' = InPlace <=> moved' = 0) /\ (app' = Missing => 0 \in releases')
  <2>1. CASE MoveAway
    BY <1>1, <2>1, PlacesOK DEF MoveAway
  <2>2. CASE PointApp
    BY <1>1, <2>2, PlacesOK DEF PointApp, MovedOK
  <2>3. CASE UndoPointer
    <3>1. Of.previous \in Release
      BY <1>1 DEF ReleaseTypes, RecordState
    <3>2. CASE PreviousExists(Txn) /\ app' = Of.previous
      <4>1. app # InPlace
        BY <1>1, <3>2, PlacesOK DEF PreviousExists, PlaceOK
      <4> QED  BY <2>3, <3>1, <3>2, <4>1, PlacesOK DEF UndoPointer, MovedOK
    <3>3. CASE app' = app
      BY <2>3, <3>3 DEF UndoPointer, MovedOK
    <3> QED  BY <2>3, <3>2, <3>3 DEF UndoPointer
  <2>4. CASE BeginDeployment \/ StartService
    BY <2>4 DEF BeginDeployment, StartService, MovedOK
  <2>5. CASE PlaceKept
    BY <2>5 DEF PlaceKept, MovedOK
  <2> QED  BY <2>1, <2>2, <2>3, <2>4, <2>5, PlaceKeptStep
<1>4. ASSUME control'.at \in BeforeCutover \cup {"cutover"} PROVE Of'.inPlace <=> app' = InPlace
  <2>1. CASE BeginDeployment
    <3>1. Txn' = begun + 1 /\ app' = app
      BY <1>1, <2>1, BeginEffect DEF BeginDeployment
    <3> QED  BY <1>1, <2>1, <3>1, BeginEffect
  <2>2. CASE Build \/ Backup \/ CaptureConfiguration
    <3>1. control.at \in BeforeCutover /\ app' = app /\ ~BeginDeployment
      BY <2>2 DEF Build, Backup, CaptureConfiguration, BeforeCutover, BeginDeployment
    <3>2. control'.txn = Txn
      BY <2>2, GoesOK DEF Build, Backup, CaptureConfiguration, Goes, Forward
    <3>3. RecordKept
      BY <3>1, RecordStep
    <3> QED  BY <1>1, <3>1, <3>2, <3>3 DEF RecordKept, MovedOK
  <2>3. CASE ~BeginDeployment /\ ~Build /\ ~Backup /\ ~CaptureConfiguration
    <3>1. ASSUME NEW step \in {"stop", "models", "undo pointer", "activate", "configure", "migrate", "start", "check",
                               "undo check", "queue", "undo env", "undo models", "undo start", "undo stop"},
                 control'.at = step PROVE FALSE
      BY <1>4, <3>1 DEF BeforeCutover
    <3>2. ASSUME control' = Resting PROVE FALSE
      BY <1>4, <3>2, RestingOK DEF BeforeCutover
    <3>3. ASSUME control' = control, control.at \notin BeforeCutover \cup {"cutover"} PROVE FALSE
      BY <1>4, <3>3
    <3>4. ~StopService /\ ~MoveAway /\ ~StartService
      BY <3>3 DEF StopService, MoveAway, StartService, BeforeCutover
    <3>5. ~CutoverBegins /\ ~Stopped /\ ~CaptureModels /\ ~PointApp /\ ~Configure /\ ~Migrate /\ ~Started /\ ~Accepted
      BY <3>1, GoesOK DEF CutoverBegins, Stopped, CaptureModels, PointApp, Configure, Migrate, Started, Accepted, Goes, Forward, Backward
    <3>6. ~UndoPointer /\ ~UndoEnv /\ ~UndoModels
      BY <3>1, GoesOK DEF UndoPointer, UndoEnv, UndoModels, Goes, Backward
    <3>7. ~QueueBackup /\ ~RolledBack
      BY <3>2 DEF QueueBackup, RolledBack, Finish
    <3>8. ~Raises /\ ~Killed
      BY <3>1, <3>2, RaisesEffect DEF Killed, Goes
    <3>9. \A n \in Deployment : ~Recover(n)
      BY <3>1, RecoverEffect
    <3> QED
      BY <2>3, <3>4, <3>5, <3>6, <3>7, <3>8, <3>9
      DEF ReleaseNext, ControllerStep, Deploy, RollBack, Services, CannotGoOn, CannotStart, Mishap
  <2> QED  BY <2>1, <2>2, <2>3
<1> QED  BY <1>2, <1>3, <1>4 DEF MovedOK

-----------------------------------------------------------------------------
\* The controller's next step, its deployment and what the record of that now says.
At(step, phase) == /\ control'.at = step /\ Txn' = Txn /\ Of'.phase = phase /\ Of'.previous = Of.previous
                   /\ begun' = begun

LEMMA AtOK ==
    ASSUME ReleaseTypes, begun' = begun, NEW step \in Forward \cup Backward, GoOn(step)
    PROVE  /\ \A phase \in Phase : SavePhase(phase) => At(step, phase)
           /\ record' = record => At(step, Of.phase)
<1>1. Goes(step) /\ Txn' = Txn
  BY GoesOK DEF Goes, Txn
<1>2. \A phase \in Phase : SavePhase(phase) => Phased(Txn, phase)
  BY TxnOK, PhaseOK DEF SavePhase
<1> QED  BY <1>1, <1>2, TxnOK DEF Phased, Goes, At, Of

LEMMA StepStep ==
    ASSUME ReleaseTypes, PlaceOK, StepOK, ReleaseNext
    PROVE  StepOK'
<1>1. Txn \in Deployment /\ Txn \in Release /\ Of \in RecordState /\ Of = record[Txn] /\ Of.previous \in Release
  BY TxnOK, PlacesOK DEF Of, RecordState
<1>2. Of' = record'[Txn'] /\ Txn' = control'.txn
  BY DEF Of, Txn
<1>3. /\ {"preflight-backup", "built", "healthy"} \cup CutOver \cup Terminal \subseteq Phase
      /\ {"stopping", "activating", "configuring", "migrating", "starting", "checking", "rolling-back"} \subseteq CutOver
  BY DEF Phase, CutOver, Terminal
<1>4. control \in ControlState
  BY DEF ReleaseTypes
<1>5. CASE BeginDeployment
  <2>1. /\ control'.at = "build" /\ Txn' = begun + 1 /\ begun' = begun + 1 /\ begun \in Nat /\ saved' = saved /\ app' = app
        /\ releases' = releases \cup {begun + 1} /\ app # Missing
    BY <1>2, <1>5, BeginEffect, PlacesOK DEF BeginDeployment, AppExists, ReleaseTypes
  <2>2. Of'.previous = Active /\ Active' = Active
    BY <1>2, <1>5, <2>1, BeginEffect DEF Active
  <2>3. \A n \in Deployment : n > begun' => n > begun
    BY <2>1 DEF Deployment
  <2>4. Txn' \in Deployment /\ ~saved'[Txn'].hasModels
    <3>1. begun + 1 \in Deployment /\ begun + 1 > begun
      BY <1>5, <2>1, BeginEffect
    <3> QED  BY <2>1, <3>1 DEF StepOK
  <2>5. \A n \in Deployment : n > begun' => ~saved'[n].hasModels
    BY <2>1, <2>3 DEF StepOK
  <2>6. Txn' <= begun' /\ Txn' \in releases'
    BY <2>1
  <2> QED  BY <2>1, <2>2, <2>4, <2>5, <2>6 DEF StepOK, Forward, Backward, BeforeCutover, Pointed, Restored
<1>6. CASE Build
  <2>1. At("backup", "preflight-backup")
    BY <1>3, <1>6, AtOK DEF Build, Forward
  <2>2. app' = app /\ releases' = releases /\ built' = built \cup {Txn} /\ saved' = saved /\ Active' = Active
    BY <1>6 DEF Build, Active
  <2> QED  BY <1>6, <2>1, <2>2 DEF Build, At, StepOK, Forward, Backward, BeforeCutover, Pointed, Restored
<1>7. CASE Backup
  <2>1. At("capture", Of.phase)
    BY <1>7, AtOK DEF Backup, Forward
  <2>2. app' = app /\ Active' = Active
    BY <1>7 DEF Backup, Active
  <2> QED  BY <1>7, <2>1, <2>2 DEF Backup, At, StepOK, Forward, Backward, BeforeCutover, Pointed, Restored
<1>8. CASE CaptureConfiguration
  <2>1. At("cutover", "built")
    BY <1>2, <1>8, CaptureEffect DEF CaptureConfiguration, At, Goes
  <2>2. app' = app /\ Active' = Active
    BY <1>8 DEF CaptureConfiguration, Active
  <2>3. \A n \in Deployment : saved'[n].hasModels => saved[n].hasModels
    BY <1>1, <1>8, CaptureEffect
  <2> QED  BY <1>1, <1>8, <2>1, <2>2, <2>3 DEF CaptureConfiguration, At, StepOK, Forward, Backward, BeforeCutover, Pointed, Restored
<1>9. CASE CutoverBegins
  <2>1. At("stop", "stopping") /\ "stopping" \in CutOver
    BY <1>3, <1>9, AtOK DEF CutoverBegins, Forward
  <2>2. app' = app /\ Active' = Active
    BY <1>9 DEF CutoverBegins, Active
  <2> QED  BY <1>9, <2>1, <2>2 DEF CutoverBegins, At, StepOK, Forward, Backward, BeforeCutover, Pointed, Restored
<1>10. CASE StopService
  <2>1. control' = control /\ record' = record /\ app' = app /\ Active' = Active /\ Txn' = Txn /\ Of' = Of
    BY <1>10 DEF StopService, Active, Txn, Of
  <2> QED  BY <1>10, <2>1 DEF StopService, StepOK, Forward, Backward, BeforeCutover, Pointed, Restored
<1>11. CASE Stopped
  <2>1. At(IF control.at = "stop" THEN "models" ELSE "undo pointer", Of.phase)
    BY <1>11, AtOK DEF Stopped, Forward, Backward
  <2>2. app' = app /\ Active' = Active
    BY <1>11 DEF Stopped, Active
  <2> QED  BY <1>11, <2>1, <2>2 DEF Stopped, At, StepOK, Forward, Backward, BeforeCutover, Pointed, Restored
<1>12. CASE CaptureModels
  <2>1. At("activate", "activating") /\ "activating" \in CutOver
    BY <1>3, <1>12, AtOK DEF CaptureModels, Forward
  <2>2. app' = app /\ Active' = Active
    BY <1>12 DEF CaptureModels, Active
  <2>3. \A n \in Deployment : n > begun => ~saved'[n].hasModels
    <3>1. Txn <= begun /\ begun \in Nat /\ Txn \in Nat
      BY <1>1, <1>12 DEF CaptureModels, StepOK, ReleaseTypes, Deployment
    <3>2. \A n \in Deployment : n > begun => n # Txn
      BY <3>1 DEF Deployment
    <3> QED  BY <1>12, <3>2, ModelsEffect DEF StepOK
  <2> QED  BY <1>12, <2>1, <2>2, <2>3 DEF CaptureModels, At, StepOK, Forward, Backward, BeforeCutover, Pointed, Restored
<1>13. CASE MoveAway
  <2>1. control' = control /\ record' = record /\ Txn' = Txn /\ Of' = Of
    BY <1>13 DEF MoveAway, Txn, Of
  <2> QED  BY <1>13, <2>1 DEF MoveAway, StepOK, Forward, Backward, BeforeCutover, Pointed, Restored
<1>14. CASE PointApp
  <2>1. At("configure", "configuring") /\ "configuring" \in CutOver
    BY <1>3, <1>14, AtOK DEF PointApp, Forward
  <2> QED  BY <1>14, <2>1 DEF PointApp, At, StepOK, Forward, Backward, BeforeCutover, Pointed, Restored
<1>15. CASE Configure
  <2>1. At("migrate", "migrating") /\ "migrating" \in CutOver
    BY <1>3, <1>15, AtOK DEF Configure, Forward
  <2> QED  BY <1>15, <2>1 DEF Configure, At, StepOK, Forward, Backward, BeforeCutover, Pointed, Restored
<1>16. CASE Migrate
  <2>1. At("start", "starting") /\ "starting" \in CutOver
    BY <1>3, <1>16, AtOK DEF Migrate, Forward
  <2> QED  BY <1>16, <2>1 DEF Migrate, At, StepOK, Forward, Backward, BeforeCutover, Pointed, Restored
<1>17. CASE StartService
  <2>1. control' = control /\ record' = record /\ app' = app /\ Active' = Active /\ Txn' = Txn /\ Of' = Of
    BY <1>17 DEF StartService, Active, Txn, Of
  <2>2. /\ control.at \in {"start", "undo start"} /\ releases' = releases /\ built' = built
        /\ saved' = saved /\ begun' = begun
    BY <1>17 DEF StartService
  <2> QED  BY <2>1, <2>2 DEF StepOK, Forward, Backward, BeforeCutover, Pointed, Restored
<1>18. CASE Started
  <2>1. CASE control.at = "start"
    <3>1. At("check", "checking") /\ "checking" \in CutOver
      BY <1>3, <1>18, <2>1, AtOK DEF Started, Forward
    <3> QED  BY <1>18, <2>1, <3>1 DEF Started, At, StepOK, Forward, Backward, BeforeCutover, Pointed, Restored
  <2>2. CASE control.at = "undo start"
    <3>1. At("undo check", Of.phase)
      BY <1>18, <2>2, AtOK DEF Started, Backward
    <3>2. app' = app /\ Active' = Active
      BY <1>18 DEF Started, Active
    <3> QED  BY <1>18, <2>2, <3>1, <3>2 DEF Started, At, StepOK, Forward, Backward, BeforeCutover, Pointed, Restored
  <2> QED  BY <1>18, <2>1, <2>2 DEF Started
<1>19. CASE Accepted
  <2>1. At("queue", "healthy")
    BY <1>3, <1>19, AtOK DEF Accepted, Forward
  <2> QED  BY <1>19, <2>1 DEF Accepted, At, StepOK, Forward, Backward, BeforeCutover, Pointed, Restored
<1>20. ASSUME control' = Resting, saved' = saved, begun' = begun PROVE StepOK'
  BY <1>20, RestingOK DEF StepOK, Forward, Backward, BeforeCutover, Pointed, Restored
<1>21. CASE QueueBackup \/ RolledBack
  BY <1>20, <1>21 DEF QueueBackup, RolledBack, Finish
<1>22. CASE UndoPointer
  <2>1. At("undo env", Of.phase)
    BY <1>22, AtOK DEF UndoPointer, Backward
  <2> QED  BY <1>22, <2>1 DEF UndoPointer, At, StepOK, Forward, Backward, BeforeCutover, Pointed, Restored
<1>23. CASE UndoEnv
  <2>1. At("undo models", Of.phase)
    BY <1>23, AtOK DEF UndoEnv, Backward
  <2>2. Active' = Active
    BY <1>23 DEF UndoEnv, Active
  <2> QED  BY <1>23, <2>1, <2>2 DEF UndoEnv, At, StepOK, Forward, Backward, BeforeCutover, Pointed, Restored
<1>24. CASE UndoModels
  <2>1. At("undo start", Of.phase)
    BY <1>24, AtOK DEF UndoModels, Backward
  <2>2. Active' = Active
    BY <1>24 DEF UndoModels, Active
  <2> QED  BY <1>24, <2>1, <2>2 DEF UndoModels, At, StepOK, Forward, Backward, BeforeCutover, Pointed, Restored
<1>25. ASSUME NEW n \in Deployment, Phased(n, "rolling-back"), control'.at = "undo stop", control'.txn = n,
              n <= begun, saved' = saved, begun' = begun
       PROVE  StepOK'
  <2>1. Txn' = n /\ Of'.phase = "rolling-back" /\ "rolling-back" \in CutOver
    BY <1>2, <1>3, <1>25 DEF Phased
  <2> QED  BY <1>25, <2>1 DEF StepOK, Forward, Backward, BeforeCutover, Pointed, Restored
<1>26. ASSUME Raises, saved' = saved, begun' = begun PROVE StepOK'
  <2>1. control.at # "rest"
    BY <1>26 DEF Raises
  <2>2. Txn <= begun
    BY <2>1 DEF StepOK
  <2> QED  BY <1>1, <1>20, <1>25, <1>26, <2>2, RaisesEffect DEF Goes
<1>27. CASE CannotGoOn \/ CannotStart \/ Mishap
  BY <1>20, <1>26, <1>27 DEF CannotGoOn, CannotStart, Mishap, Killed
<1>28. ASSUME NEW n \in Deployment, Recover(n) PROVE StepOK'
  <2>1. record[n].phase # "none"
    BY <1>28, PhasesOK DEF Recover, Recoverable
  <2>2. n <= begun
    BY <2>1 DEF PlaceOK
  <2> QED  BY <1>25, <1>28, <2>2, RecoverEffect DEF Recover
<1> QED
  BY <1>5, <1>6, <1>7, <1>8, <1>9, <1>10, <1>11, <1>12, <1>13, <1>14, <1>15, <1>16, <1>17, <1>18, <1>19,
     <1>21, <1>22, <1>23, <1>24, <1>27, <1>28 DEF ReleaseNext, ControllerStep, Deploy, RollBack, Services

-----------------------------------------------------------------------------
LEMMA BeforeCutoverStep ==
    ASSUME ReleaseTypes, ReleaseNext, control.at \in BeforeCutover
    PROVE  record'[Txn].phase = Of.phase \/ record'[Txn].phase \in {"preflight-backup", "built", "failed-before-cutover"}
<1>1. Txn \in Deployment
  BY TxnOK
<1>2. ASSUME record' = record PROVE record'[Txn].phase = Of.phase
  BY <1>2 DEF Of
<1>3. CASE Build
  <2>1. SavePhase("preflight-backup")
    BY <1>3 DEF Build
  <2>2. Phased(Txn, "preflight-backup")
    BY <1>1, <2>1, PhaseOK DEF SavePhase, Phase
  <2> QED  BY <1>1, <2>2 DEF Phased
<1>4. CASE Backup
  BY <1>2, <1>4 DEF Backup
<1>5. CASE CaptureConfiguration
  BY <1>5, CaptureEffect
<1>6. CASE Raises
  <2>1. Phased(Txn, "failed-before-cutover")
    BY <1>6, RaisesEffect DEF BeforeCutover, Backward
  <2> QED  BY <1>1, <2>1 DEF Phased
<1>7. CASE CannotGoOn \/ CannotStart \/ Mishap
  BY <1>2, <1>6, <1>7 DEF CannotGoOn, CannotStart, Mishap, Killed
<1>8. ~BeginDeployment /\ ~\E n \in Deployment : Recover(n)
  BY DEF BeginDeployment, Recover, BeforeCutover
<1>9. ~CutoverBegins /\ ~CaptureModels /\ ~MoveAway /\ ~PointApp /\ ~Configure /\ ~Migrate /\ ~Accepted /\ ~QueueBackup
  BY DEF CutoverBegins, CaptureModels, MoveAway, PointApp, Configure, Migrate, Accepted, QueueBackup, BeforeCutover
<1>10. ~RollBack /\ ~Services
  BY DEF RollBack, UndoPointer, UndoEnv, UndoModels, RolledBack, Services, StopService, Stopped, StartService, Started, BeforeCutover
<1> QED
  BY <1>3, <1>4, <1>5, <1>7, <1>8, <1>9, <1>10 DEF ReleaseNext, ControllerStep, Deploy

LEMMA AvailableStep ==
    ASSUME ReleaseTypes, PlaceOK, MovedOK, StepOK, ReleaseNext, NEW n \in Deployment, Available(n),
           record'[n].previous = record[n].previous, record'[n].inPlace = record[n].inPlace
    PROVE  Available(n)'
<1>1. Txn \in Deployment /\ Of = record[Txn] /\ record[n].previous \in Release /\ Of.previous \in Release
  BY TxnOK DEF Of, ReleaseTypes, RecordState
<1>2. ASSUME app' = app, moved' = moved, releases \subseteq releases' PROVE Available(n)'
  BY <1>2 DEF Available, PreviousExists, PathMade, AtOriginal, Stranded
<1>3. ASSUME app # InPlace, moved' = moved, releases' = releases PROVE Available(n)'
  <2>1. moved # 0
    BY <1>3 DEF MovedOK
  <2>2. CASE record[n].inPlace
    <3>1. CASE moved = n /\ app # Missing
      <4>1. ~AtOriginal(n) /\ ~Stranded(n)
        BY <1>3, <2>2, <3>1 DEF AtOriginal, Stranded
      <4>2. PreviousExists(n)
        BY <4>1 DEF Available
      <4> QED  BY <1>3, <4>2 DEF Available, PreviousExists, PathMade
    <3>2. CASE moved = n /\ app = Missing
      <4>1. PreviousExists(n)
        BY <2>2, <3>2 DEF MovedOK, PreviousExists, PathMade
      <4> QED  BY <1>3, <4>1 DEF Available, PreviousExists, PathMade
    <3>3. CASE moved # n
      <4>1. Stranded(n)'
        BY <1>3, <2>1, <2>2, <3>3 DEF Stranded
      <4> QED  BY <4>1 DEF Available
    <3> QED  BY <3>1, <3>2, <3>3
  <2>3. CASE ~record[n].inPlace
    <3>1. PreviousExists(n)
      BY <1>1, <1>3, <2>3, PlacesOK DEF Available, PreviousExists, PathMade, AtOriginal, Stranded, PlaceOK
    <3> QED  BY <1>3, <3>1 DEF Available, PreviousExists, PathMade
  <2> QED  BY <2>2, <2>3
<1>4. CASE MoveAway
  <2>1. CASE record[n].inPlace
    <3>1. AtOriginal(n)'
      BY <1>4, <2>1 DEF MoveAway, AtOriginal
    <3> QED  BY <3>1 DEF Available
  <2>2. CASE ~record[n].inPlace
    <3>1. record[n].previous \in releases
      BY <1>1, <1>4, <2>2, PlacesOK DEF MoveAway, Available, PreviousExists, AtOriginal, Stranded
    <3>2. PreviousExists(n)'
      BY <1>4, <2>2, <3>1 DEF MoveAway, PreviousExists, PathMade
    <3> QED  BY <3>2 DEF Available
  <2> QED  BY <2>1, <2>2
<1>5. CASE PointApp
  BY <1>3, <1>5 DEF PointApp
<1>6. CASE UndoPointer
  <2>1. CASE app = InPlace
    <3>1. app' = app
      BY <1>1, <1>6, <2>1 DEF UndoPointer, PreviousExists, PlaceOK
    <3> QED  BY <1>2, <1>6, <3>1 DEF UndoPointer
  <2>2. CASE app # InPlace
    BY <1>3, <1>6, <2>2 DEF UndoPointer
  <2> QED  BY <2>1, <2>2
<1>7. CASE BeginDeployment \/ StartService
  BY <1>2, <1>7 DEF BeginDeployment, StartService
<1>8. CASE PlaceKept
  BY <1>2, <1>8 DEF PlaceKept
<1> QED  BY <1>4, <1>5, <1>6, <1>7, <1>8, PlaceKeptStep

LEMMA RecoverableStep ==
    ASSUME ReleaseTypes, PlaceOK, MovedOK, StepOK, ReleaseNext, NEW n \in Deployment, Recoverable(n)'
    PROVE  /\ record'[n].previous = record[n].previous /\ record'[n].inPlace = record[n].inPlace
           /\ Recoverable(n) \/ Available(n)
<1>1. Txn \in Deployment /\ Of = record[Txn] /\ control.at \in Forward \cup Backward \cup {"rest"}
  BY TxnOK DEF Of, ReleaseTypes, ControlState
<1>2. /\ record'[n].phase \in CutOver \cup {"healthy"} /\ ~record'[n].retired
      /\ \A phase \in {"building", "preflight-backup", "built", "failed-before-cutover"} : phase \notin CutOver \cup {"healthy"}
  BY DEF Recoverable, CutOver
<1>3. CASE BeginDeployment
  <2>1. n # begun + 1 /\ record'[n] = record[n]
    BY <1>2, <1>3, BeginEffect
  <2> QED  BY <1>2, <2>1 DEF Recoverable
<1>4. CASE RecordKept
  <2>1. record'[n].previous = record[n].previous /\ record'[n].inPlace = record[n].inPlace /\ ~record[n].retired
    BY <1>2, <1>4 DEF RecordKept
  <2>2. CASE record'[n].phase = record[n].phase
    BY <1>2, <2>1, <2>2 DEF Recoverable
  <2>3. CASE Recover(n)
    BY <2>1, <2>3 DEF Recover
  <2>4. CASE record'[n].phase # record[n].phase /\ n = Txn /\ control.at # "rest"
    <3>1. control.at \notin BeforeCutover
      BY <1>1, <1>2, <2>4, BeforeCutoverStep
    <3>2. CASE control.at = "cutover"
      <4>1. AtOriginal(n)
        BY <1>1, <2>4, <3>2 DEF StepOK, MovedOK, AtOriginal, Active
      <4> QED  BY <2>1, <4>1 DEF Available
    <3>3. CASE control.at # "cutover"
      <4>1. Of.phase \in CutOver \cup {"healthy"}
        BY <1>1, <2>4, <3>1, <3>3 DEF StepOK
      <4> QED  BY <1>1, <2>1, <2>4, <4>1 DEF Recoverable
    <3> QED  BY <3>2, <3>3
  <2> QED  BY <1>4, <2>2, <2>3, <2>4 DEF RecordKept
<1> QED  BY <1>3, <1>4, RecordStep

LEMMA DeploymentKeepsSweepOK ==
    ASSUME ReleaseTypes, PlaceOK, MovedOK, StepOK, SweepOK, DeploymentStep
    PROVE  SweepOK'
<1>1. sweep.at = "none" /\ ReleaseNext /\ sweep' = sweep /\ unfinished' = unfinished
  BY DEF DeploymentStep
<1>2. ASSUME ~unfinished, NEW n \in Deployment, Recoverable(n)' PROVE Available(n)'
  <2>1. /\ record'[n].previous = record[n].previous /\ record'[n].inPlace = record[n].inPlace
        /\ Recoverable(n) \/ Available(n)
    BY <1>1, <1>2, RecoverableStep
  <2>2. Available(n)
    BY <1>1, <1>2, <2>1 DEF SweepOK
  <2> QED  BY <1>1, <2>1, <2>2, AvailableStep
<1> QED  BY <1>1, <1>2 DEF SweepOK

-----------------------------------------------------------------------------
LEMMA WholeKept ==
    ASSUME NEW n \in Deployment, Whole(n), record'[n].services = record[n].services,
           record'[n].previous = record[n].previous, saved'[n] = saved[n]
    PROVE  Whole(n)'
BY DEF Whole

\* The phase of the only deployment that may be owed its end changes.
LEMMA OwedStep ==
    ASSUME ReleaseTypes, OwedOK, NEW n \in Deployment, NEW phase \in Phase, Phased(n, phase), saved' = saved,
           owed \subseteq {n}, owed' = IF phase \in CutOver THEN {n} ELSE {},
           phase \in CutOver \cup {"healthy"} => Whole(n),
           phase = "healthy" => saved[n].hasModels,
           phase \in CutOver => saved[n].hasModels \/ host'.models = record[n].previous
    PROVE  OwedOK'
<1>1. ASSUME NEW m \in Deployment, m # n
      PROVE  /\ record'[m].phase = record[m].phase /\ record[m].phase \notin CutOver /\ m \notin owed'
             /\ Whole(m) => Whole(m)'
  BY <1>1, WholeKept DEF Phased, OwedOK
<1>2. record'[n].phase = phase /\ record'[n].previous = record[n].previous /\ (Whole(n) => Whole(n)')
  BY WholeKept DEF Phased
<1>3. ASSUME NEW m \in Deployment
      PROVE  /\ record'[m].phase \in CutOver => m \in owed'
             /\ record'[m].phase \in CutOver \cup {"healthy"} => Whole(m)'
             /\ record'[m].phase = "healthy" => saved'[m].hasModels
             /\ m \in owed' => /\ record'[m].phase \in CutOver
                               /\ saved'[m].hasModels \/ host'.models = record'[m].previous
  <2>1. CASE m = n
    BY <1>2, <2>1
  <2>2. CASE m # n
    BY <1>1, <2>2 DEF OwedOK
  <2> QED  BY <2>1, <2>2
<1> QED  BY <1>3 DEF OwedOK

LEMMA OwedSame ==
    ASSUME OwedOK, record' = record, saved' = saved, owed' = owed,
           \A n \in owed : host'.models = host.models \/ saved[n].hasModels \/ host'.models = record[n].previous
    PROVE  OwedOK'
<1>1. \A n \in Deployment : Whole(n) => Whole(n)'
  BY WholeKept
<1> QED  BY <1>1 DEF OwedOK

LEMMA OwedFacts ==
    ASSUME ReleaseTypes, StepOK, OwedOK, StageOK
    PROVE  /\ control.at \in (Forward \ (BeforeCutover \cup {"cutover", "queue"})) \cup Backward =>
                  owed = {Txn} /\ Whole(Txn) /\ (saved[Txn].hasModels \/ host.models = Of.previous)
           /\ control.at = "queue" => Whole(Txn) /\ saved[Txn].hasModels
<1>1. Txn \in Deployment /\ Of = record[Txn]
  BY TxnOK DEF Of
<1>2. control.at \in Forward \cup Backward => control.at # "rest"
  BY DEF Forward, Backward
<1> QED  BY ZenonT(40), <1>1, <1>2 DEF StepOK, OwedOK, StageOK, Forward

-----------------------------------------------------------------------------
LEMMA BeginCoheres ==
    ASSUME ReleaseTypes, OwedOK, StageOK, BeginDeployment, owed = {}
    PROVE  OwedOK' /\ StageOK'
<1>1. /\ begun + 1 \in Deployment /\ control'.at = "build" /\ Txn' = begun + 1 /\ saved' = saved /\ host' = host
      /\ loaded' = loaded /\ Active' = Active /\ owed' = {}
      /\ \A m \in Deployment \ {begun + 1} : record'[m] = record[m]
      /\ record'[begun + 1].phase = "building"
  BY BeginEffect DEF BeginDeployment, Active, Txn
<1>2. "building" \notin CutOver \cup {"healthy"}
  BY DEF CutOver
<1>3. ASSUME NEW m \in Deployment PROVE Whole(m) /\ m # begun + 1 => Whole(m)'
  BY <1>1, WholeKept
<1>4. OwedOK'
  BY <1>1, <1>2, <1>3 DEF OwedOK
<1>5. Belongs(Active) /\ Belongs(Active)' = Belongs(Active)
  BY <1>1 DEF StageOK, Belongs
<1>6. StageOK'
  BY <1>1, <1>5 DEF StageOK, Forward, Backward, BeforeCutover, Pointed
<1> QED  BY <1>4, <1>6

LEMMA EarlyCoheres ==
    ASSUME ReleaseTypes, StepOK, OwedOK, StageOK, Build \/ Backup \/ CaptureConfiguration \/ CutoverBegins
    PROVE  OwedOK' /\ StageOK'
<1>1. Txn \in Deployment /\ Of = record[Txn] /\ Of' = record'[Txn'] /\ Txn' = control'.txn
  BY TxnOK DEF Of, Txn
<1>2. /\ {"preflight-backup", "stopping"} \subseteq Phase /\ "preflight-backup" \notin CutOver \cup {"healthy"} /\ "stopping" \in CutOver
  BY DEF Phase, CutOver
<1>3. control.at \in BeforeCutover \cup {"cutover"}
  BY DEF Build, Backup, CaptureConfiguration, CutoverBegins, BeforeCutover
<1>4. owed = {} /\ Belongs(Active) /\ Of.previous = Active
  BY <1>3 DEF StageOK, StepOK
<1>5. host' = host /\ loaded' = loaded /\ Active' = Active
  BY DEF Build, Backup, CaptureConfiguration, CutoverBegins, Active
<1>6. Belongs(Active)'
  BY <1>4, <1>5 DEF Belongs
<1>7. CASE Build
  <2>1. At("backup", "preflight-backup") /\ Phased(Txn, "preflight-backup") /\ owed' = {} /\ saved' = saved
    BY <1>1, <1>2, <1>4, <1>7, AtOK, PhaseOK DEF Build, Forward, SavePhase
  <2>2. OwedOK'
    BY <1>1, <1>2, <1>4, <1>5, <2>1, OwedStep
  <2> QED  BY <1>6, <2>1, <2>2 DEF At, StageOK, Forward, Backward, BeforeCutover, Pointed
<1>8. CASE Backup
  <2>1. At("capture", Of.phase) /\ record' = record /\ owed' = owed /\ saved' = saved
    BY <1>8, AtOK DEF Backup, Forward
  <2>2. OwedOK'
    BY <1>4, <2>1, OwedSame
  <2> QED  BY <1>4, <1>6, <2>1, <2>2 DEF At, StageOK, Forward, Backward, BeforeCutover, Pointed
<1>9. CASE CaptureConfiguration
  <2>1. /\ control'.at = "cutover" /\ Txn' = Txn /\ owed' = {}
        /\ \A m \in Deployment \ {Txn} : record'[m] = record[m] /\ saved'[m] = saved[m]
        /\ record'[Txn].phase = "built" /\ record'[Txn].previous = Active /\ record'[Txn].services = Service
        /\ saved'[Txn].env = Active /\ saved'[Txn].agents = [s \in Service |-> Active]
        /\ ~saved'[Txn].hasModels
    <3>1. ~saved[Txn].hasModels
      BY <1>9 DEF CaptureConfiguration, StepOK, BeforeCutover
    <3>2. host.env = Active /\ host.agents = [s \in Service |-> Active] /\ loaded = Service
      BY <1>4 DEF Belongs
    <3>3. owed' = {}
      BY <1>4, <1>9 DEF CaptureConfiguration
    <3> QED  BY <1>1, <1>4, <1>9, <3>1, <3>2, <3>3, CaptureEffect DEF Goes
  <2>2. "built" \notin CutOver \cup {"healthy"}
    BY DEF CutOver
  <2>3. ASSUME NEW m \in Deployment, m # Txn PROVE Whole(m) => Whole(m)'
    BY <2>1, <2>3, WholeKept
  <2>4. OwedOK'
    <3>1. ASSUME NEW m \in Deployment
          PROVE  /\ record'[m].phase \notin CutOver
                 /\ record'[m].phase = "healthy" => Whole(m)' /\ saved'[m].hasModels
      <4>1. CASE m = Txn
        BY <2>1, <2>2, <4>1
      <4>2. CASE m # Txn
        <5>1. record'[m] = record[m] /\ saved'[m] = saved[m]
          BY <2>1, <4>2
        <5> QED  BY <1>4, <2>3, <4>2, <5>1 DEF OwedOK
      <4> QED  BY <4>1, <4>2
    <3> QED  BY <2>1, <3>1 DEF OwedOK
  <2>5. Whole(Txn)'
    BY <1>1, <2>1 DEF Whole
  <2> QED  BY <1>6, <2>1, <2>4, <2>5 DEF StageOK, Forward, Backward, BeforeCutover, Pointed
<1>10. CASE CutoverBegins
  <2>1. At("stop", "stopping") /\ Phased(Txn, "stopping") /\ owed' = {Txn} /\ saved' = saved
    BY <1>1, <1>2, <1>4, <1>10, AtOK, PhaseOK DEF CutoverBegins, Forward, SavePhase
  <2>2. Whole(Txn) /\ host'.models = Of.previous
    BY <1>4, <1>5, <1>10 DEF CutoverBegins, StageOK, Belongs
  <2>3. OwedOK'
    BY <1>1, <1>2, <1>4, <2>1, <2>2, OwedStep
  <2> QED  BY <2>1, <2>2, <2>3 DEF At, StageOK, Forward, Backward, BeforeCutover, Pointed
<1> QED  BY <1>7, <1>8, <1>9, <1>10

LEMMA StopCoheres ==
    ASSUME ReleaseTypes, StepOK, OwedOK, StageOK, StopService \/ Stopped \/ CaptureModels \/ MoveAway \/ PointApp
    PROVE  OwedOK' /\ StageOK'
<1>1. Txn \in Deployment /\ Of = record[Txn] /\ Of' = record'[Txn'] /\ Txn' = control'.txn
  BY TxnOK DEF Of, Txn
<1>2. /\ {"activating", "configuring"} \subseteq CutOver /\ CutOver \subseteq Phase
  BY DEF Phase, CutOver
<1>3. control.at \in {"stop", "undo stop", "models", "activate"} /\ owed' = owed /\ host' = host
  BY DEF StopService, Stopped, CaptureModels, MoveAway, PointApp
<1>4. owed = {Txn} /\ Whole(Txn) /\ (saved[Txn].hasModels \/ host.models = Of.previous)
  BY <1>3, OwedFacts DEF Forward, Backward, BeforeCutover
<1>5. CASE StopService \/ MoveAway
  <2>1. record' = record /\ saved' = saved /\ control' = control /\ Txn' = Txn /\ Of' = Of
    BY <1>5 DEF StopService, MoveAway, Txn, Of
  <2>2. OwedOK'
    BY <1>3, <2>1, OwedSame
  <2> QED  BY <1>3, <1>4, <2>1, <2>2 DEF StageOK, Forward, Backward, BeforeCutover, Pointed
<1>6. CASE Stopped
  <2>1. At(IF control.at = "stop" THEN "models" ELSE "undo pointer", Of.phase) /\ record' = record /\ saved' = saved
    BY <1>6, AtOK DEF Stopped, Forward, Backward
  <2>2. OwedOK'
    BY <1>3, <2>1, OwedSame
  <2> QED  BY <1>3, <1>4, <1>6, <2>1, <2>2 DEF At, Stopped, StageOK, Forward, Backward, BeforeCutover, Pointed
<1>7. CASE CaptureModels
  <2>1. /\ Phased(Txn, "activating") /\ control'.at = "activate" /\ Txn' = Txn
        /\ \A m \in Deployment \ {Txn} : saved'[m] = saved[m]
        /\ saved'[Txn].env = saved[Txn].env /\ saved'[Txn].agents = saved[Txn].agents
        /\ saved'[Txn].models = Of.previous /\ saved'[Txn].hasModels
    BY <1>1, <1>7, ModelsEffect DEF Goes, CaptureModels, StageOK
  <2>2. Whole(Txn)' /\ record'[Txn].phase \in CutOver /\ record'[Txn].phase # "healthy"
    BY <1>1, <1>2, <1>4, <2>1, PhasesOK DEF Whole, Phased
  <2>3. ASSUME NEW m \in Deployment, m # Txn
        PROVE  /\ record'[m].phase \notin CutOver
               /\ record'[m].phase = "healthy" => Whole(m)' /\ saved'[m].hasModels
    <3>1. record'[m].phase = record[m].phase /\ record[m].phase \notin CutOver /\ saved'[m] = saved[m]
      BY <1>4, <2>1, <2>3 DEF Phased, OwedOK
    <3>2. Whole(m) => Whole(m)'
      BY <2>1, <2>3, <3>1, WholeKept DEF Phased
    <3> QED  BY <3>1, <3>2 DEF OwedOK
  <2>4. OwedOK'
    BY ZenonT(40), <1>1, <1>3, <1>4, <2>1, <2>2, <2>3 DEF OwedOK
  <2> QED  BY <1>3, <1>4, <2>1, <2>4 DEF StageOK, Forward, Backward, BeforeCutover, Pointed
<1>8. CASE PointApp
  <2>1. At("configure", "configuring") /\ Phased(Txn, "configuring") /\ saved' = saved
    BY <1>1, <1>2, <1>8, AtOK, PhaseOK DEF PointApp, Forward, SavePhase
  <2>2. OwedOK'
    BY <1>1, <1>2, <1>3, <1>4, <2>1, OwedStep, PhasesOK
  <2>3. saved[Txn].hasModels
    BY <1>8 DEF PointApp, StageOK
  <2> QED  BY <1>3, <1>4, <2>1, <2>2, <2>3 DEF At, StageOK, Forward, Backward, BeforeCutover, Pointed
<1> QED  BY <1>5, <1>6, <1>7, <1>8

LEMMA StartCoheres ==
    ASSUME ReleaseTypes, StepOK, OwedOK, StageOK, Configure \/ Migrate \/ StartService \/ Started
    PROVE  OwedOK' /\ StageOK'
<1>1. Txn \in Deployment /\ Of = record[Txn] /\ Of' = record'[Txn'] /\ Txn' = control'.txn /\ host \in HostState /\ Txn \in Release
  BY TxnOK, PlacesOK DEF Of, Txn, ReleaseTypes
<1>2. /\ {"migrating", "starting", "checking"} \subseteq CutOver /\ CutOver \subseteq Phase
  BY DEF Phase, CutOver
<1>3. control.at \in {"configure", "migrate", "start", "undo start"} /\ owed' = owed /\ saved' = saved
  BY DEF Configure, Migrate, StartService, Started
<1>4. owed = {Txn} /\ Whole(Txn) /\ (saved[Txn].hasModels \/ host.models = Of.previous)
  BY <1>3, OwedFacts DEF Forward, Backward, BeforeCutover
<1>5. CASE Configure
  <2>1. At("migrate", "migrating") /\ Phased(Txn, "migrating")
    BY <1>1, <1>2, <1>5, AtOK, PhaseOK DEF Configure, Forward, SavePhase
  <2>2. saved[Txn].hasModels /\ host'.env = Txn
    BY <1>1, <1>5, HostOK DEF Configure, StageOK, Pointed
  <2>3. OwedOK'
    BY <1>1, <1>2, <1>3, <1>4, <2>1, <2>2, OwedStep, PhasesOK
  <2> QED  BY <1>3, <1>4, <2>1, <2>2, <2>3 DEF At, StageOK, Forward, Backward, BeforeCutover, Pointed
<1>6. CASE Migrate
  <2>1. At("start", "starting") /\ Phased(Txn, "starting")
    BY <1>1, <1>2, <1>6, AtOK, PhaseOK DEF Migrate, Forward, SavePhase
  <2>2. saved[Txn].hasModels /\ host'.env = Txn /\ host'.models = Txn
    BY <1>1, <1>6, HostOK DEF Migrate, StageOK, Pointed
  <2>3. OwedOK'
    BY <1>1, <1>2, <1>3, <1>4, <2>1, <2>2, OwedStep, PhasesOK
  <2>4. loaded' = {}
    BY <1>6 DEF Migrate, StepOK
  <2>5. AgentsOf(Txn)'
    BY <2>4 DEF AgentsOf
  <2> QED  BY <1>3, <1>4, <2>1, <2>2, <2>3, <2>5 DEF At, StageOK, Forward, Backward, BeforeCutover, Pointed
<1>7. CASE StartService
  <2>1. PICK s \in Of.services \ loaded, r \in Release :
           /\ loaded' = loaded \cup {s} /\ s \in Service
           /\ r = IF control.at = "start" THEN Txn ELSE saved[Txn].agents[s]
           /\ host'.env = host.env /\ host'.models = host.models /\ host'.agents = [host.agents EXCEPT ![s] = r]
    BY <1>7, StartEffect
  <2>2. control' = control /\ record' = record /\ Txn' = Txn /\ Of' = Of /\ control.at \in {"start", "undo start"}
    BY <1>7 DEF StartService, Txn, Of
  <2>3. OwedOK'
    BY <1>3, <2>1, <2>2, OwedSame
  <2>4. \A t \in loaded : t # s /\ t \in Service
    BY <2>1 DEF ReleaseTypes
  <2>5. ASSUME NEW q \in Release, r = q, AgentsOf(q) PROVE \A t \in loaded' : host'.agents[t] = q
    BY <1>1, <2>1, <2>4, <2>5 DEF AgentsOf, HostState
  <2>6. CASE control.at = "start"
    <3>1. AgentsOf(Txn)'
      BY <1>1, <2>1, <2>2, <2>5, <2>6 DEF StageOK, AgentsOf
    <3> QED  BY <1>3, <1>4, <2>1, <2>2, <2>3, <2>6, <3>1 DEF StageOK, Forward, Backward, BeforeCutover, Pointed
  <2>7. CASE control.at = "undo start"
    <3>1. r = Of.previous
      BY <1>1, <1>4, <2>1, <2>7 DEF Whole
    <3>2. AgentsOf(Of.previous)'
      BY <1>1, <2>1, <2>2, <2>5, <2>7, <3>1 DEF StageOK, AgentsOf
    <3> QED  BY <1>3, <1>4, <2>1, <2>2, <2>3, <2>7, <3>2 DEF StageOK, Forward, Backward, BeforeCutover, Pointed
  <2> QED  BY <2>2, <2>6, <2>7
<1>8. CASE Started
  <2>1. loaded' = Service /\ host' = host
    BY <1>1, <1>4, <1>8 DEF Started, Whole, ReleaseTypes
  <2>2. CASE control.at = "start"
    <3>1. At("check", "checking") /\ Phased(Txn, "checking")
      BY <1>1, <1>2, <1>8, <2>2, AtOK, PhaseOK DEF Started, Forward, SavePhase
    <3>2. saved[Txn].hasModels /\ host.env = Txn /\ host.models = Txn /\ AgentsOf(Txn) /\ loaded' = loaded
      BY <1>8, <2>2 DEF Started, StageOK, Pointed
    <3>3. OwedOK'
      BY <1>1, <1>2, <1>3, <1>4, <3>1, <3>2, OwedStep, PhasesOK
    <3>4. AgentsOf(Txn)'
      BY <2>1, <3>1, <3>2 DEF AgentsOf, At
    <3> QED  BY <1>3, <1>4, <2>1, <3>1, <3>2, <3>3, <3>4 DEF At, StageOK, Forward, Backward, BeforeCutover, Pointed
  <2>3. CASE control.at = "undo start"
    <3>1. At("undo check", Of.phase) /\ record' = record
      BY <1>8, <2>3, AtOK DEF Started, Backward
    <3>2. host.env = Of.previous /\ host.models = Of.previous /\ AgentsOf(Of.previous) /\ loaded' = loaded
      BY <1>8, <2>3 DEF Started, StageOK
    <3>3. OwedOK'
      BY <1>3, <2>1, <3>1, OwedSame
    <3>4. AgentsOf(Of.previous)'
      BY <2>1, <3>1, <3>2 DEF AgentsOf, At
    <3> QED  BY <1>3, <1>4, <2>1, <3>1, <3>2, <3>3, <3>4 DEF At, StageOK, Forward, Backward, BeforeCutover, Pointed
  <2> QED  BY <1>8, <2>2, <2>3 DEF Started
<1> QED  BY <1>5, <1>6, <1>7, <1>8

\* Host and services belong to one release when the last of them does.
LEMMA BelongsOK ==
    ASSUME ReleaseTypes, NEW r \in Release, host.env = r, host.models = r, AgentsOf(r), loaded = Service
    PROVE  Belongs(r)
<1>1. host.agents = [s \in Service |-> host.agents[s]]
  BY DEF ReleaseTypes, HostState
<1> QED  BY <1>1 DEF Belongs, AgentsOf

LEMMA EndCoheres ==
    ASSUME ReleaseTypes, StepOK, OwedOK, StageOK, WayOK, Accepted \/ QueueBackup \/ RolledBack
    PROVE  OwedOK' /\ StageOK'
<1>1. /\ Txn \in Deployment /\ Of = record[Txn] /\ Of' = record'[Txn'] /\ Txn' = control'.txn /\ Txn \in Release
      /\ Of.previous \in Release
  BY TxnOK, PlacesOK DEF Of, Txn, RecordState
<1>2. /\ {"healthy", "rolled-back"} \subseteq Phase \ CutOver
  BY DEF Phase, CutOver, Terminal
<1>3. host' = host /\ loaded' = loaded /\ Active' = Active /\ saved' = saved
  BY DEF Accepted, QueueBackup, RolledBack, Active
<1>4. Belongs(Active) => Belongs(Active)'
  BY <1>3 DEF Belongs
<1>5. CASE Accepted
  <2>1. owed = {Txn} /\ Whole(Txn) /\ saved[Txn].hasModels
    BY <1>5, OwedFacts DEF Accepted, StageOK, Forward, Backward, BeforeCutover, Pointed
  <2>2. At("queue", "healthy") /\ Phased(Txn, "healthy") /\ owed' = {}
    BY <1>1, <1>2, <1>5, <2>1, AtOK, PhaseOK DEF Accepted, Forward, SavePhase
  <2>3. OwedOK'
    BY <1>1, <1>2, <2>1, <2>2, <1>3, OwedStep
  <2>4. Active = Txn
    BY <1>1, <1>5, PlacesOK DEF Accepted, StepOK, Pointed
  <2>5. host.env = Txn /\ host.models = Txn /\ AgentsOf(Txn) /\ loaded = Service
    BY <1>5 DEF Accepted, StageOK
  <2>6. Belongs(Active)'
    BY <1>1, <1>4, <2>4, <2>5, BelongsOK
  <2> QED  BY <1>3, <2>1, <2>2, <2>3, <2>6 DEF At, StageOK, Forward, Backward, BeforeCutover, Pointed
<1>6. CASE QueueBackup
  <2>1. owed = {} /\ owed' = {} /\ record' = record /\ control'.at = "rest"
    BY <1>6, RestingOK DEF QueueBackup, Finish, StageOK
  <2>2. OwedOK'
    BY <1>3, <2>1, OwedSame
  <2>3. Belongs(Active)'
    BY <1>4, <2>1 DEF StageOK
  <2> QED  BY <2>1, <2>2, <2>3 DEF StageOK, Forward, Backward, BeforeCutover, Pointed
<1>7. CASE RolledBack
  <2>1. owed = {Txn}
    BY <1>7, OwedFacts DEF RolledBack, Backward
  <2>2. Phased(Txn, "rolled-back") /\ owed' = {} /\ control'.at = "rest"
    BY <1>1, <1>2, <1>7, <2>1, PhaseOK, RestingOK DEF RolledBack, Finish, SavePhase
  <2>3. OwedOK'
    BY <1>1, <1>2, <2>1, <2>2, <1>3, OwedStep
  <2>4. Active = Of.previous
    BY <1>7 DEF RolledBack, WayOK, Restored
  <2>5. host.env = Of.previous /\ host.models = Of.previous /\ AgentsOf(Of.previous) /\ loaded = Service
    BY <1>7 DEF RolledBack, StageOK
  <2>6. Belongs(Active)'
    BY <1>1, <1>4, <2>4, <2>5, BelongsOK
  <2> QED  BY <2>2, <2>3, <2>6 DEF StageOK, Forward, Backward, BeforeCutover, Pointed
<1> QED  BY <1>5, <1>6, <1>7

LEMMA UndoCoheres ==
    ASSUME ReleaseTypes, StepOK, OwedOK, StageOK, UndoPointer \/ UndoEnv \/ UndoModels
    PROVE  OwedOK' /\ StageOK'
<1>1. /\ Txn \in Deployment /\ Of = record[Txn] /\ host \in HostState /\ saved[Txn] \in ConfigState
      /\ Of.previous \in Release
  BY TxnOK DEF Of, Txn, RecordState, ReleaseTypes
<1>2. control.at \in Backward /\ owed' = owed /\ saved' = saved /\ record' = record /\ loaded' = loaded
  BY DEF UndoPointer, UndoEnv, UndoModels, Backward
<1>3. owed = {Txn} /\ Whole(Txn) /\ (saved[Txn].hasModels \/ host.models = Of.previous)
  BY <1>2, OwedFacts
<1>4. saved[Txn].env = Of.previous /\ (saved[Txn].hasModels => saved[Txn].models = Of.previous)
  BY <1>1, <1>3 DEF Whole
<1>5. CASE UndoPointer
  <2>1. At("undo env", Of.phase) /\ host' = host
    BY <1>2, <1>5, AtOK DEF UndoPointer, Backward
  <2>2. OwedOK'
    BY <1>2, <2>1, OwedSame
  <2> QED  BY <1>2, <1>3, <2>1, <2>2 DEF At, StageOK, Forward, Backward, BeforeCutover, Pointed
<1>6. CASE UndoEnv
  <2>1. At("undo models", Of.phase) /\ host'.env = Of.previous /\ host'.models = host.models
    BY ZenonT(40), <1>1, <1>2, <1>4, <1>6, AtOK, HostOK DEF UndoEnv, Backward
  <2>2. OwedOK'
    BY <1>2, <2>1, OwedSame
  <2> QED  BY <1>2, <1>3, <2>1, <2>2 DEF At, StageOK, Forward, Backward, BeforeCutover, Pointed
<1>7. CASE UndoModels
  <2>1. At("undo start", Of.phase)
    BY <1>2, <1>7, AtOK DEF UndoModels, Backward
  <2>2. host'.env = Of.previous /\ host'.models = Of.previous
    <3>1. host.env = Of.previous
      BY <1>7 DEF UndoModels, StageOK
    <3>2. CASE saved[Txn].hasModels
      BY <1>1, <1>4, <1>7, <3>1, <3>2, HostOK DEF UndoModels
    <3>3. CASE ~saved[Txn].hasModels
      BY <1>3, <1>7, <3>1, <3>3 DEF UndoModels
    <3> QED  BY <3>2, <3>3
  <2>3. OwedOK'
    BY <1>1, <1>2, <1>3, <2>2, OwedSame
  <2>4. loaded' = {}
    BY <1>7 DEF UndoModels, StepOK
  <2>5. AgentsOf(Of.previous)'
    BY <2>4 DEF AgentsOf
  <2> QED  BY <1>2, <1>3, <2>1, <2>2, <2>3, <2>5 DEF At, StageOK, Forward, Backward, BeforeCutover, Pointed
<1> QED  BY <1>5, <1>6, <1>7

LEMMA FallCoheres ==
    ASSUME ReleaseTypes, StepOK, OwedOK, StageOK,
           \/ Raises
           \/ Killed,
           host' = host, loaded' = loaded, saved' = saved, Active' = Active
    PROVE  OwedOK' /\ StageOK'
<1>1. /\ Txn \in Deployment /\ Of = record[Txn] /\ Of' = record'[Txn'] /\ Txn' = control'.txn
  BY TxnOK DEF Of, Txn
<1>2. /\ {"failed-before-cutover"} \subseteq Phase \ (CutOver \cup {"healthy"}) /\ {"rolling-back", "rollback-failed"} \subseteq CutOver
      /\ CutOver \subseteq Phase /\ "healthy" \notin CutOver
  BY DEF Phase, CutOver, Terminal
<1>3. Belongs(Active) => Belongs(Active)'
  BY DEF Belongs
<1>4. ASSUME owed' = owed, control'.at = "rest" PROVE StageOK'
  BY <1>3, <1>4 DEF StageOK, Forward, Backward, BeforeCutover, Pointed
<1>5. ASSUME record' = record, control' = Resting, owed' = owed PROVE OwedOK' /\ StageOK'
  BY <1>4, <1>5, OwedSame, RestingOK
<1>6. CASE Killed
  BY <1>5, <1>6 DEF Killed
<1>7. CASE control.at \in BeforeCutover /\ Phased(Txn, "failed-before-cutover") /\ control' = Resting /\ owed' = owed
  <2>1. owed = {}
    BY <1>7 DEF StageOK
  <2>2. OwedOK'
    BY <1>1, <1>2, <1>7, <2>1, OwedStep
  <2> QED  BY <1>4, <1>7, <2>2, RestingOK
<1>8. CASE control.at \in Forward \ BeforeCutover /\ Phased(Txn, "rolling-back") /\ Goes("undo stop") /\ owed' = owed \cup {Txn}
  <2>1. owed \subseteq {Txn}
    BY <1>8 DEF StageOK, Forward
  <2>2. Whole(Txn) /\ (saved[Txn].hasModels \/ host.models = Of.previous)
    <3>1. CASE control.at = "cutover"
      BY <1>1, <3>1 DEF StageOK, StepOK, Belongs
    <3>2. CASE control.at # "cutover"
      BY <1>8, <3>2, OwedFacts
    <3> QED  BY <3>1, <3>2
  <2>3. owed' = {Txn}
    BY <1>8, <2>1
  <2>4. OwedOK'
    BY <1>1, <1>2, <1>8, <2>1, <2>2, <2>3, OwedStep
  <2> QED  BY <1>1, <1>8, <2>3, <2>4 DEF Goes, StageOK, Forward, Backward, BeforeCutover, Pointed
<1>9. CASE control.at \in Backward /\ (record' = record \/ Phased(Txn, "rollback-failed")) /\ control' = Resting /\ owed' = owed
  <2>1. owed = {Txn} /\ Whole(Txn) /\ (saved[Txn].hasModels \/ host.models = Of.previous)
    BY <1>9, OwedFacts
  <2>2. CASE Phased(Txn, "rollback-failed")
    <3>1. OwedOK'
      BY <1>1, <1>2, <1>9, <2>1, <2>2, OwedStep
    <3> QED  BY <1>4, <1>9, <3>1, RestingOK
  <2> QED  BY <1>5, <1>9, <2>2
<1> QED  BY <1>6, <1>7, <1>8, <1>9, RaisesEffect

LEMMA RecoverCoheres ==
    ASSUME ReleaseTypes, OwedOK, StageOK, NEW n \in Deployment, Recover(n), owed \subseteq {n}
    PROVE  OwedOK' /\ StageOK'
<1>1. Phased(n, "rolling-back") /\ control'.at = "undo stop" /\ Txn' = n /\ saved' = saved /\ host' = host /\ owed' = {n}
  BY RecoverEffect DEF Recover, Txn
<1>2. "rolling-back" \in CutOver /\ CutOver \subseteq Phase /\ "healthy" \notin CutOver
  BY DEF CutOver, Phase
<1>3. Whole(n) /\ (saved[n].hasModels \/ host.models = record[n].previous)
  BY DEF Recover, Recoverable, OwedOK
<1>4. OwedOK'
  BY <1>1, <1>2, <1>3, OwedStep
<1> QED  BY <1>1, <1>4 DEF StageOK, Forward, Backward, BeforeCutover, Pointed

LEMMA WayStep ==
    ASSUME ReleaseTypes, PlaceOK, MovedOK, StepOK, OwedOK, StageOK, WayOK, ReleaseNext,
           BeginDeployment => owed = {}
    PROVE  WayOK'
<1>1. /\ Txn \in Deployment /\ Of = record[Txn] /\ Of' = record'[Txn'] /\ Txn' = control'.txn
      /\ Txn \in Release /\ Of.previous \in Release
  BY TxnOK, PlacesOK DEF Of, Txn, RecordState
<1>2. ASSUME NEW step \in Forward \cup {"undo stop", "undo pointer", "rest"}, control'.at = step PROVE control'.at \notin Restored
  BY <1>2 DEF Forward, Restored
<1>3. ASSUME app' = app, moved' = moved, owed \subseteq owed', control'.at \notin Restored PROVE WayOK'
  BY <1>3 DEF WayOK
<1>4. CASE Build \/ Backup \/ CaptureConfiguration \/ CutoverBegins \/ CaptureModels \/ Configure \/ Migrate
  <2>1. PICK step \in Forward : GoOn(step)
    BY <1>4 DEF Build, Backup, CaptureConfiguration, CutoverBegins, CaptureModels, Configure, Migrate, Forward
  <2>2. control'.at = step
    BY <2>1, GoesOK DEF Goes
  <2>3. app' = app /\ moved' = moved /\ owed \subseteq owed'
    BY <1>4 DEF Build, Backup, CaptureConfiguration, CutoverBegins, CaptureModels, Configure, Migrate
  <2> QED  BY <1>2, <1>3, <2>2, <2>3
<1>5. CASE BeginDeployment
  <2>1. control'.at = "build" /\ app' = app /\ app # Missing
    BY <1>5, BeginEffect, PlacesOK DEF BeginDeployment, AppExists, ReleaseTypes
  <2> QED  BY <1>2, <2>1 DEF WayOK, Forward
<1>6. CASE StopService
  <2>1. control' = control /\ control.at \in {"stop", "undo stop"} /\ app' = app /\ moved' = moved /\ owed' = owed
    BY <1>6 DEF StopService
  <2> QED  BY <1>2, <1>3, <2>1 DEF Forward
<1>7. CASE Stopped
  <2>1. Goes("models") \/ Goes("undo pointer")
    BY <1>7, GoesOK DEF Stopped, Forward, Backward
  <2>2. app' = app /\ moved' = moved /\ owed' = owed
    BY <1>7 DEF Stopped
  <2> QED  BY <1>2, <1>3, <2>1, <2>2 DEF Goes, Forward
<1>8. CASE MoveAway
  <2>1. control' = control /\ control.at = "activate" /\ moved' = Txn /\ owed' = owed
    BY <1>8 DEF MoveAway
  <2>2. owed = {Txn}
    BY <2>1, OwedFacts DEF Forward, BeforeCutover
  <2> QED  BY <1>2, <2>1, <2>2 DEF WayOK, Forward
<1>9. CASE PointApp
  <2>1. Goes("configure") /\ app' = Txn
    BY <1>9, GoesOK DEF PointApp, Forward
  <2> QED  BY <1>1, <1>2, <2>1, PlacesOK DEF WayOK, Goes, Forward
<1>10. CASE StartService \/ Started
  <2>1. /\ app' = app /\ moved' = moved /\ owed' = owed /\ Active' = Active /\ control.at \in {"start", "undo start"}
    BY <1>10 DEF StartService, Started, Active
  <2>2. CASE control.at = "undo start"
    <3>1. Active = Of.previous
      BY <2>2 DEF WayOK, Restored
    <3>2. Of'.previous = Of.previous
      <4>1. CASE StartService
        BY <4>1 DEF StartService, Of, Txn
      <4>2. CASE Started
        BY <2>2, <4>2, AtOK DEF Started, At, Backward
      <4> QED  BY <1>10, <4>1, <4>2
    <3> QED  BY <2>1, <3>1, <3>2 DEF WayOK
  <2>3. CASE control.at = "start"
    <3>1. control'.at \in Forward
      <4>1. CASE StartService
        BY <2>3, <4>1 DEF StartService, Forward
      <4>2. CASE Started
        BY <2>3, <4>2, GoesOK DEF Started, Goes, Forward
      <4> QED  BY <1>10, <4>1, <4>2
    <3> QED  BY <1>2, <1>3, <2>1, <3>1
  <2> QED  BY <2>1, <2>2, <2>3
<1>11. CASE Accepted
  <2>1. Goes("queue") /\ app' = app /\ app = Txn
    BY <1>11, GoesOK DEF Accepted, Forward, StepOK, Pointed
  <2> QED  BY <1>1, <1>2, <2>1, PlacesOK DEF WayOK, Goes, Forward
<1>12. CASE QueueBackup \/ RolledBack
  <2>1. control'.at = "rest" /\ app' = app
    BY <1>12, RestingOK DEF QueueBackup, RolledBack, Finish
  <2>2. app # Missing
    <3>1. CASE QueueBackup
      BY <1>1, <3>1, PlacesOK DEF QueueBackup, StepOK, Pointed
    <3>2. CASE RolledBack
      BY <1>1, <3>2, PlacesOK DEF RolledBack, WayOK, Restored
    <3> QED  BY <1>12, <3>1, <3>2
  <2> QED  BY <1>2, <2>1, <2>2 DEF WayOK
<1>13. CASE UndoPointer
  <2>1. At("undo env", Of.phase) /\ moved' = moved /\ owed' = owed
    BY <1>13, AtOK DEF UndoPointer, Backward
  <2>2. owed = {Txn}
    BY <1>13, OwedFacts DEF UndoPointer, Backward
  <2>3. Active' = Of.previous
    <3>1. CASE PreviousExists(Txn) /\ app' = Of.previous
      BY <1>1, <3>1, PlacesOK DEF Active
    <3>2. CASE ~PreviousExists(Txn) /\ AtOriginal(Txn) /\ app' = app
      <4>1. CASE Of.inPlace
        <5>1. app # Missing
          <6>1. ASSUME app = Missing PROVE PreviousExists(Txn)
            <7>1. moved = Txn /\ 0 \in releases /\ Of.previous = 0
              BY <1>1, <2>2, <4>1, <6>1 DEF WayOK, MovedOK
            <7> QED  BY <1>1, <7>1 DEF PreviousExists, PathMade
          <6> QED  BY <3>2, <6>1
        <5>2. app = InPlace /\ Of.previous = 0
          BY <1>1, <3>2, <4>1, <5>1 DEF AtOriginal, MovedOK
        <5> QED  BY <3>2, <5>2 DEF Active
      <4>2. CASE ~Of.inPlace
        BY <1>1, <3>2, <4>2, PlacesOK DEF AtOriginal, Active
      <4> QED  BY <4>1, <4>2
    <3> QED  BY <1>13, <3>1, <3>2 DEF UndoPointer
  <2>4. app' # Missing
    BY <1>1, <2>3, PlacesOK DEF Active
  <2> QED  BY <2>1, <2>3, <2>4 DEF WayOK, At
<1>14. CASE UndoEnv \/ UndoModels
  <2>1. app' = app /\ moved' = moved /\ owed' = owed /\ Active' = Active /\ control.at \in Restored
    BY <1>14 DEF UndoEnv, UndoModels, Active, Restored
  <2>2. Of'.previous = Of.previous
    BY <1>14, AtOK DEF UndoEnv, UndoModels, At, Backward
  <2> QED  BY <2>1, <2>2 DEF WayOK
<1>15. ASSUME Raises \/ Killed, app' = app, moved' = moved PROVE WayOK'
  <2>1. control'.at \in {"rest", "undo stop"} /\ owed \subseteq owed'
    BY <1>15, RaisesEffect, RestingOK DEF Killed, Goes
  <2> QED  BY <1>2, <1>3, <1>15, <2>1
<1>16. CASE CannotGoOn \/ CannotStart \/ Mishap
  BY <1>15, <1>16 DEF CannotGoOn, CannotStart, Mishap
<1>17. ASSUME NEW n \in Deployment, Recover(n) PROVE WayOK'
  <2>1. control'.at = "undo stop" /\ app' = app /\ moved' = moved /\ owed \subseteq owed'
    BY <1>17, RecoverEffect DEF Recover
  <2> QED  BY <1>2, <1>3, <2>1
<1> QED
  BY <1>4, <1>5, <1>6, <1>7, <1>8, <1>9, <1>10, <1>11, <1>12, <1>13, <1>14, <1>16, <1>17
  DEF ReleaseNext, ControllerStep, Deploy, RollBack, Services

\* As long as nobody overtook an interrupted deployment, a start finds something at "app".
LEMMA StartsSomething ==
    ASSUME ReleaseTypes, PlaceOK, StepOK, WayOK, CannotStart
    PROVE  FALSE
<1>1. Txn \in Release /\ Of.previous \in Release
  BY TxnOK, PlacesOK DEF RecordState
<1>2. app # Missing
  BY <1>1, PlacesOK DEF CannotStart, StepOK, WayOK, Pointed, Restored
<1> QED  BY <1>2 DEF CannotStart, AppExists, PlaceOK

LEMMA CohereStep ==
    ASSUME ReleaseTypes, PlaceOK, MovedOK, StepOK, CohereOK, ReleaseNext
    PROVE  CohereOK'
<1> SUFFICES ASSUME ~overtaken' PROVE OwedOK' /\ StageOK' /\ WayOK'
  BY DEF CohereOK
<1>1. ASSUME ~overtaken PROVE OwedOK /\ StageOK /\ WayOK
  BY <1>1 DEF CohereOK
<1>0. control.at # "rest" => ~BeginDeployment
  BY DEF BeginDeployment
<1>2. CASE BeginDeployment
  <2>1. ~overtaken /\ owed = {}
    BY <1>2 DEF BeginDeployment
  <2> QED  BY <1>1, <1>2, <2>1, BeginCoheres, WayStep
<1>3. CASE Build \/ Backup \/ CaptureConfiguration \/ CutoverBegins
  <2>1. ~overtaken /\ ~BeginDeployment
    <3>1. overtaken' = overtaken
      BY <1>3 DEF Build, Backup, CaptureConfiguration, CutoverBegins
    <3>2. control.at # "rest"
      BY <1>3 DEF Build, Backup, CaptureConfiguration, CutoverBegins
    <3> QED  BY <1>0, <3>1, <3>2
  <2> QED  BY <1>1, <1>3, <2>1, EarlyCoheres, WayStep
<1>4. CASE StopService \/ Stopped \/ CaptureModels \/ MoveAway \/ PointApp
  <2>1. ~overtaken /\ ~BeginDeployment
    <3>1. overtaken' = overtaken
      BY <1>4 DEF StopService, Stopped, CaptureModels, MoveAway, PointApp
    <3>2. control.at # "rest"
      BY <1>4 DEF StopService, Stopped, CaptureModels, MoveAway, PointApp
    <3> QED  BY <1>0, <3>1, <3>2
  <2> QED  BY <1>1, <1>4, <2>1, StopCoheres, WayStep
<1>5. CASE Configure \/ Migrate \/ StartService \/ Started
  <2>1. ~overtaken /\ ~BeginDeployment
    <3>1. overtaken' = overtaken
      BY <1>5 DEF Configure, Migrate, StartService, Started
    <3>2. control.at # "rest"
      BY <1>5 DEF Configure, Migrate, StartService, Started
    <3> QED  BY <1>0, <3>1, <3>2
  <2> QED  BY <1>1, <1>5, <2>1, StartCoheres, WayStep
<1>6. CASE Accepted \/ QueueBackup \/ RolledBack
  <2>1. ~overtaken /\ ~BeginDeployment
    <3>1. overtaken' = overtaken
      BY <1>6 DEF Accepted, QueueBackup, RolledBack
    <3>2. control.at # "rest"
      BY <1>6 DEF Accepted, QueueBackup, RolledBack
    <3> QED  BY <1>0, <3>1, <3>2
  <2> QED  BY <1>1, <1>6, <2>1, EndCoheres, WayStep
<1>7. CASE UndoPointer \/ UndoEnv \/ UndoModels
  <2>1. ~overtaken /\ ~BeginDeployment
    <3>1. overtaken' = overtaken
      BY <1>7 DEF UndoPointer, UndoEnv, UndoModels
    <3>2. control.at # "rest"
      BY <1>7 DEF UndoPointer, UndoEnv, UndoModels
    <3> QED  BY <1>0, <3>1, <3>2
  <2> QED  BY <1>1, <1>7, <2>1, UndoCoheres, WayStep
<1>8. CASE CannotGoOn \/ Mishap
  <2>1. ~overtaken /\ ~BeginDeployment
    <3>1. overtaken' = overtaken
      BY <1>8 DEF CannotGoOn, Mishap
    <3>2. control.at # "rest"
      BY <1>8 DEF CannotGoOn, Mishap, Raises, Killed
    <3> QED  BY <1>0, <3>1, <3>2
  <2> QED  BY <1>1, <1>8, <2>1, FallCoheres, WayStep DEF CannotGoOn, Mishap, Active
<1>9. ASSUME NEW n \in Deployment, Recover(n) PROVE OwedOK' /\ StageOK' /\ WayOK'
  <2>1. ~overtaken /\ owed \subseteq {n} /\ ~BeginDeployment
    <3>1. control.at = "rest" /\ control'.at = "undo stop"
      BY <1>9, RecoverEffect DEF Recover
    <3>2. ~BeginDeployment
      BY <3>1, BeginEffect
    <3> QED  BY <1>9, <3>2 DEF Recover
  <2> QED  BY <1>1, <1>9, <2>1, RecoverCoheres, WayStep
<1>10. ~CannotStart
  <2>1. CannotStart => ~overtaken
    BY DEF CannotStart
  <2> QED  BY <1>1, <2>1, StartsSomething
<1> QED
  BY <1>2, <1>3, <1>4, <1>5, <1>6, <1>7, <1>8, <1>9, <1>10 DEF ReleaseNext, ControllerStep, Deploy, RollBack, Services

-----------------------------------------------------------------------------
\* What the cleanup leaves alone: everything of the deployments but the
\* releases it removes and the marks on their records.
LEMMA CoherentWithSame ==
    ASSUME UNCHANGED <<app, moved, built, host, loaded, saved, begun, control, owed, overtaken>>,
           StepOK, CohereOK, control.at = "rest",
           \A n \in Deployment : /\ record'[n].phase = record[n].phase /\ record'[n].previous = record[n].previous
                                /\ record'[n].services = record[n].services
    PROVE  StepOK' /\ CohereOK'
<1>1. \A n \in Deployment : Whole(n) => Whole(n)'
  BY WholeKept
<1>2. Belongs(Active) => Belongs(Active)'
  BY DEF Belongs, Active
<1>3. OwedOK => OwedOK'
  BY <1>1 DEF OwedOK
<1>4. StageOK => StageOK'
  BY <1>2 DEF StageOK, BeforeCutover, Pointed
<1>5. StepOK'
  BY DEF StepOK, Forward, Backward, BeforeCutover, Pointed, Restored
<1>6. WayOK => WayOK'
  BY DEF WayOK, Restored
<1> QED  BY <1>3, <1>4, <1>5, <1>6 DEF CohereOK

LEMMA SameDeployments ==
    ASSUME UNCHANGED releaseVars, ReleaseTypes, PlaceOK, MovedOK, StepOK, CohereOK
    PROVE  /\ ReleaseTypes' /\ PlaceOK' /\ MovedOK' /\ StepOK' /\ CohereOK'
           /\ \A n \in Deployment : (Recoverable(n)' <=> Recoverable(n)) /\ (Available(n)' <=> Available(n))
<1>1. ReleaseTypes' /\ PlaceOK' /\ MovedOK'
  BY DEF releaseVars, ReleaseTypes, PlaceOK, MovedOK, Of, Txn
<1>2. StepOK'
  BY DEF releaseVars, StepOK, Of, Txn, Active
<1>3. CohereOK'
  <2>1. /\ record' = record /\ saved' = saved /\ owed' = owed /\ host' = host /\ loaded' = loaded /\ control' = control
        /\ overtaken' = overtaken /\ Txn' = Txn /\ Of' = Of /\ Active' = Active
    BY DEF releaseVars, Txn, Of, Active
  <2>2. OwedOK => OwedOK'
    BY <2>1, OwedSame
  <2>3. (Whole(Txn) => Whole(Txn)') /\ (Belongs(Active) => Belongs(Active)')
        /\ (AgentsOf(Txn) => AgentsOf(Txn)') /\ (AgentsOf(Of.previous) => AgentsOf(Of.previous)')
    BY <2>1 DEF Whole, Belongs, AgentsOf
  <2>4. StageOK => StageOK'
    BY <2>1, <2>3 DEF StageOK
  <2>5. WayOK => WayOK'
    BY <2>1 DEF WayOK, releaseVars
  <2> QED  BY <2>1, <2>2, <2>4, <2>5 DEF CohereOK
<1>4. \A n \in Deployment : (Recoverable(n)' <=> Recoverable(n)) /\ (Available(n)' <=> Available(n))
  BY DEF releaseVars, Recoverable, Available, PreviousExists, PathMade, AtOriginal, Stranded
<1> QED  BY <1>1, <1>2, <1>3, <1>4

LEMMA SweepAlone ==
    ASSUME RetentionInv, MakePlan \/ Apply \/ NextItem \/ Remove \/ ItemDone \/ SweepDies
    PROVE  RetentionInv'
<1>1. UNCHANGED releaseVars
  BY DEF MakePlan, Apply, NextItem, Remove, ItemDone, SweepDies
<1>2. /\ ReleaseTypes' /\ PlaceOK' /\ MovedOK' /\ StepOK' /\ CohereOK'
      /\ \A n \in Deployment : (Recoverable(n)' <=> Recoverable(n)) /\ (Available(n)' <=> Available(n))
  BY <1>1, SameDeployments DEF RetentionInv
<1>3. /\ app' = app /\ releases' = releases /\ control' = control /\ record' = record
  BY <1>1 DEF releaseVars
<1>4. ReleaseTypes /\ SweepTypes /\ SweepOK /\ PlaceOK /\ MovedOK
  BY DEF RetentionInv
<1>5. NoSweep \in SweepState /\ NoSweep.at = "none"
  BY PlacesOK DEF NoSweep, SweepState
<1>6. CASE MakePlan
  <2>1. plan'.items \subseteq Release /\ sweep' = sweep /\ unfinished' = unfinished /\ sweepFaults' = sweepFaults
    BY <1>6 DEF MakePlan, Eligible, Known
  <2> QED  BY <1>2, <1>3, <1>4, <2>1 DEF RetentionInv, SweepTypes, SweepOK
<1>7. CASE Apply
  <2>1. PICK items \in SUBSET plan.items : sweep' = [NoSweep EXCEPT !.at = "next", !.items = items]
    BY <1>7 DEF Apply
  <2>2. items \subseteq Release /\ app \notin items
    BY <1>7, <2>1 DEF Apply, PlanHolds, Eligible, Known, Protected
  <2>3. sweep' \in SweepState /\ sweep'.at = "next" /\ sweep'.items = items
    BY <2>1, <2>2, PlacesOK DEF NoSweep, SweepState
  <2>4. plan'.items = {} /\ unfinished' = unfinished /\ ~unfinished /\ sweepFaults' = sweepFaults /\ HasLock
    BY <1>7 DEF Apply, NoPlan
  <2>5. SweepTypes'
    BY <1>4, <2>3, <2>4 DEF SweepTypes
  <2>6. SweepOK'
    BY <1>2, <1>3, <1>4, <2>2, <2>3, <2>4 DEF SweepOK, HasLock
  <2> QED  BY <1>2, <2>5, <2>6 DEF RetentionInv
<1>8. CASE NextItem
  <2>1. CASE sweep.items = {}
    <3>1. sweep' = NoSweep /\ unfinished' = unfinished /\ plan' = plan /\ sweepFaults' = sweepFaults /\ sweep.at = "next"
      BY <1>8, <2>1 DEF NextItem
    <3>2. SweepTypes'
      BY <1>4, <1>5, <3>1 DEF SweepTypes
    <3>3. SweepOK'
      BY <1>2, <1>4, <1>5, <3>1 DEF SweepOK
    <3> QED  BY <1>2, <3>2, <3>3 DEF RetentionInv
  <2>2. CASE sweep.items # {}
    <3>1. PICK r \in sweep.items : sweep' = [at |-> "detach", items |-> sweep.items \ {r}, item |-> r]
      BY <1>8, <2>2 DEF NextItem
    <3>2. unfinished' = TRUE /\ plan' = plan /\ sweepFaults' = sweepFaults /\ sweep.at = "next"
      BY <1>8, <2>2 DEF NextItem
    <3>3. SweepTypes'
      BY <1>4, <3>1, <3>2 DEF SweepTypes, SweepState
    <3>4. SweepOK'
      BY <1>2, <1>3, <1>4, <3>1, <3>2 DEF SweepOK
    <3> QED  BY <1>2, <3>3, <3>4 DEF RetentionInv
  <2> QED  BY <2>1, <2>2
<1>9. CASE Remove
  <2>1. /\ sweep' = [sweep EXCEPT !.at = "mark"] /\ sweep.at = "remove" /\ plan' = plan /\ unfinished' = unfinished
        /\ sweepFaults' = sweepFaults
    BY <1>9 DEF Remove
  <2>2. sweep' \in SweepState /\ sweep'.at = "mark" /\ sweep'.items = sweep.items /\ sweep'.item = sweep.item
    BY <1>4, <2>1 DEF SweepTypes, SweepState
  <2> QED  BY <1>2, <1>3, <1>4, <2>1, <2>2 DEF RetentionInv, SweepTypes, SweepOK
<1>10. CASE ItemDone
  <2>1. /\ sweep' = [sweep EXCEPT !.at = "next"] /\ sweep.at = "mark" /\ plan' = plan /\ unfinished' = FALSE
        /\ sweepFaults' = sweepFaults
    BY <1>10 DEF ItemDone
  <2>2. sweep' \in SweepState /\ sweep'.at = "next" /\ sweep'.items = sweep.items
    BY <1>4, <2>1 DEF SweepTypes, SweepState
  <2>3. ASSUME NEW n \in Deployment, Recoverable(n) PROVE Available(n)
    <3>1. ~Names(n, sweep.item)
      BY <1>10, <2>3 DEF ItemDone, Recoverable
    <3>2. record[n].phase # "none"
      BY <2>3, PhasesOK DEF Recoverable
    <3>3. CASE record[n].previous # sweep.item
      BY <1>4, <2>1, <2>3, <3>3 DEF SweepOK
    <3>4. CASE record[n].previous = sweep.item
      <4>1. ~PathMade(n)
        BY <1>4, <3>1, <3>2, <3>4 DEF Names, PlaceOK
      <4>2. app # InPlace
        BY <1>4, <2>1, PlacesOK DEF SweepOK, ReleaseTypes
      <4> QED  BY <1>4, <4>1, <4>2 DEF PathMade, MovedOK, Available, Stranded
    <3> QED  BY <3>3, <3>4
  <2>4. SweepTypes'
    BY <1>4, <2>1, <2>2 DEF SweepTypes
  <2>5. SweepOK'
    BY <1>2, <1>3, <1>4, <2>1, <2>2, <2>3 DEF SweepOK
  <2> QED  BY <1>2, <2>4, <2>5 DEF RetentionInv
<1>11. CASE SweepDies
  <2>1. sweep' = NoSweep /\ sweep.at # "none" /\ plan' = plan /\ unfinished' = unfinished
    BY <1>11 DEF SweepDies
  <2>2. sweepFaults' \in 0..MaxSweepFaults
    BY <1>4, <1>11 DEF SweepDies, SweepTypes
  <2> QED  BY <1>2, <1>4, <1>5, <2>1, <2>2 DEF RetentionInv, SweepTypes, SweepOK
<1> QED  BY <1>6, <1>7, <1>8, <1>9, <1>10, <1>11

LEMMA DetachKeeps ==
    ASSUME RetentionInv, Detach
    PROVE  RetentionInv'
<1>1. /\ sweep.at = "detach" /\ releases' = releases \ {sweep.item} /\ sweep' = [sweep EXCEPT !.at = "remove"]
      /\ UNCHANGED <<app, moved, built, host, loaded, record, saved, begun, control, owed, overtaken, mishaps>>
      /\ UNCHANGED <<plan, unfinished, sweepFaults>>
  BY DEF Detach
<1>2. ReleaseTypes /\ SweepTypes /\ PlaceOK /\ MovedOK /\ StepOK /\ SweepOK /\ CohereOK
  BY DEF RetentionInv
<1>3. control.at = "rest" /\ app \in releases /\ app \notin sweep.items /\ sweep.item # app /\ unfinished
  BY <1>1, <1>2 DEF SweepOK
<1>4. sweep' \in SweepState /\ sweep'.at = "remove" /\ sweep'.items = sweep.items /\ sweep'.item = sweep.item
  BY <1>1, <1>2 DEF SweepTypes, SweepState
<1>5. ReleaseTypes' /\ SweepTypes'
  BY <1>1, <1>2, <1>4 DEF ReleaseTypes, SweepTypes
<1>6. app # InPlace /\ app # Missing /\ app \in releases'
  BY <1>1, <1>2, <1>3, PlacesOK DEF ReleaseTypes
<1>7. PlaceOK'
  BY <1>1, <1>2, <1>6 DEF PlaceOK
<1>10. MovedOK'
  BY <1>1, <1>2, <1>6 DEF MovedOK, Of, Txn
<1>8. StepOK' /\ CohereOK'
  BY <1>1, <1>2, <1>3, CoherentWithSame
<1>9. SweepOK'
  <2>1. ASSUME NEW n \in Deployment, Recoverable(n)' PROVE Available(n)' \/ record'[n].previous = sweep'.item
    <3>1. Recoverable(n)
      BY <1>1, <2>1 DEF Recoverable
    <3>2. Available(n)
      BY <1>1, <1>2, <3>1 DEF SweepOK
    <3> QED  BY <1>1, <1>4, <3>2 DEF Available, PreviousExists, PathMade, AtOriginal, Stranded
  <2> QED  BY <1>1, <1>3, <1>4, <1>6, <2>1 DEF SweepOK
<1> QED  BY <1>5, <1>7, <1>8, <1>9, <1>10 DEF RetentionInv

LEMMA RetireKeeps ==
    ASSUME RetentionInv, NEW n \in Deployment, Retire(n)
    PROVE  RetentionInv'
<1>1. /\ sweep.at = "mark" /\ record' = [record EXCEPT ![n].retired = TRUE]
      /\ UNCHANGED <<app, releases, moved, built, host, loaded, saved, begun, control, owed, overtaken, mishaps>>
      /\ UNCHANGED <<plan, sweep, unfinished, sweepFaults>>
  BY DEF Retire
<1>2. ReleaseTypes /\ SweepTypes /\ PlaceOK /\ MovedOK /\ StepOK /\ SweepOK /\ CohereOK
  BY DEF RetentionInv
<1> DEFINE r == RecordWith(record[n], record[n].phase, record[n].services, TRUE)
<1>3. r \in RecordState /\ [record[n] EXCEPT !.retired = TRUE] = r
  <2>1. record[n] \in RecordState /\ record[n].phase \in Phase /\ record[n].services \in SUBSET Service /\ TRUE \in BOOLEAN
    BY <1>2 DEF ReleaseTypes, RecordState
  <2> QED  BY <2>1, RecordWithOK
<1>4. record' = [record EXCEPT ![n] = r]
  BY <1>1, <1>3
<1>5. /\ r.phase = record[n].phase /\ r.previous = record[n].previous /\ r.services = record[n].services /\ r.retired
      /\ r.inPlace = record[n].inPlace
  BY DEF RecordWith
<1> HIDE DEF r
<1>6. record' \in [Deployment -> RecordState]
  BY <1>2, <1>3, <1>4 DEF ReleaseTypes
<1>7. \A m \in Deployment :
        /\ record'[m].phase = record[m].phase /\ record'[m].previous = record[m].previous
        /\ record'[m].services = record[m].services /\ record'[m].inPlace = record[m].inPlace
  BY <1>2, <1>4, <1>5 DEF ReleaseTypes
<1>8. \A m \in Deployment : Recoverable(m)' => Recoverable(m)
  <2>1. ASSUME NEW m \in Deployment, m # n PROVE record'[m] = record[m]
    BY <1>2, <1>4, <2>1 DEF ReleaseTypes
  <2>2. ~Recoverable(n)'
    BY <1>2, <1>4, <1>5 DEF Recoverable, ReleaseTypes
  <2> QED  BY <2>1, <2>2 DEF Recoverable
<1>9. ReleaseTypes' /\ SweepTypes'
  BY <1>1, <1>2, <1>6 DEF ReleaseTypes, SweepTypes
<1>10. control.at = "rest"
  BY <1>1, <1>2 DEF SweepOK
<1>11. PlaceOK'
  BY <1>1, <1>2, <1>7 DEF PlaceOK
<1>15. MovedOK'
  BY <1>1, <1>2, <1>7, <1>10 DEF MovedOK, BeforeCutover
<1>12. StepOK' /\ CohereOK'
  BY <1>1, <1>2, <1>7, <1>10, CoherentWithSame
<1>13. \A m \in Deployment : Available(m) => Available(m)'
  BY <1>1, <1>7 DEF Available, PreviousExists, PathMade, AtOriginal, Stranded
<1>14. SweepOK'
  BY <1>1, <1>2, <1>7, <1>8, <1>13 DEF SweepOK
<1> QED  BY <1>9, <1>11, <1>12, <1>14, <1>15 DEF RetentionInv

-----------------------------------------------------------------------------
LEMMA RetentionInitially == RetentionInit => RetentionInv
<1> SUFFICES ASSUME RetentionInit PROVE RetentionInv
  OBVIOUS
<1>1. ReleaseInit /\ plan = NoPlan /\ sweep = NoSweep /\ unfinished = FALSE /\ sweepFaults = 0
  BY DEF RetentionInit
<1>2. /\ \A n \in Deployment : record[n].phase = "none" /\ record[n].previous = 0 /\ ~record[n].inPlace /\ ~saved[n].hasModels
      /\ "none" \notin CutOver \cup {"healthy"}
  BY <1>1 DEF ReleaseInit, NoRecord, NoConfig, CutOver
<1>3. ReleaseTypes
  <2>1. NoRecord \in RecordState /\ NoConfig \in ConfigState
    BY PlacesOK DEF NoRecord, NoConfig, RecordState, ConfigState, Phase
  <2>2. host \in HostState /\ control \in ControlState /\ 0 \in Release /\ begun \in 0..MaxDeployments /\ mishaps \in 0..MaxFaults
    BY <1>1, PlacesOK, RestingOK DEF ReleaseInit, HostState
  <2> QED  BY <1>1, <2>1, <2>2 DEF ReleaseInit, ReleaseTypes
<1>4. SweepTypes
  <2>1. NoSweep \in SweepState
    BY PlacesOK DEF NoSweep, SweepState
  <2>2. plan.items = {}
    BY <1>1 DEF NoPlan
  <2>3. 0 \in 0..MaxSweepFaults
    OBVIOUS
  <2> QED  BY <1>1, <2>1, <2>2, <2>3 DEF SweepTypes
<1>5. PlaceOK
  BY <1>1, <1>2, PlacesOK DEF ReleaseInit, PlaceOK
<1>10. MovedOK
  BY <1>1, <1>2, PlacesOK, RestingOK DEF ReleaseInit, MovedOK, BeforeCutover
<1>11. WayOK
  BY <1>1, PlacesOK, RestingOK DEF ReleaseInit, WayOK, Restored
<1>6. StepOK
  BY <1>1, <1>2, RestingOK DEF ReleaseInit, StepOK, Forward, Backward, BeforeCutover, Pointed, Restored
<1>7. SweepOK
  BY <1>1, <1>2 DEF NoSweep, SweepOK, Recoverable
<1>8. OwedOK
  BY <1>1, <1>2 DEF ReleaseInit, OwedOK
<1>9. StageOK
  BY <1>1, RestingOK DEF ReleaseInit, StageOK, Belongs, Active, BeforeCutover, Pointed
<1> QED  BY <1>3, <1>4, <1>5, <1>6, <1>7, <1>8, <1>9, <1>10, <1>11 DEF RetentionInv, CohereOK

LEMMA RetentionStep == RetentionInv /\ [RetentionNext]_retentionVars => RetentionInv'
<1> SUFFICES ASSUME RetentionInv, [RetentionNext]_retentionVars PROVE RetentionInv'
  OBVIOUS
<1>1. CASE DeploymentStep
  <2>1. ReleaseTypes /\ SweepTypes /\ PlaceOK /\ MovedOK /\ StepOK /\ SweepOK /\ CohereOK /\ ReleaseNext
    BY <1>1 DEF RetentionInv, DeploymentStep
  <2>2. ReleaseTypes' /\ PlaceOK' /\ MovedOK' /\ StepOK' /\ CohereOK'
    BY <2>1, ReleaseTypeStep, PlaceStep, MovedStep, StepStep, CohereStep
  <2>3. SweepOK'
    BY <1>1, <2>1, DeploymentKeepsSweepOK
  <2>4. SweepTypes'
    BY <1>1, <2>1 DEF DeploymentStep, SweepTypes
  <2> QED  BY <2>2, <2>3, <2>4 DEF RetentionInv
<1>2. CASE MakePlan \/ Apply \/ NextItem \/ Remove \/ ItemDone \/ SweepDies
  BY <1>2, SweepAlone
<1>3. CASE Detach
  BY <1>3, DetachKeeps
<1>4. ASSUME NEW n \in Deployment, Retire(n) PROVE RetentionInv'
  BY <1>4, RetireKeeps
<1>5. CASE UNCHANGED retentionVars
  <2>1. UNCHANGED releaseVars /\ plan' = plan /\ sweep' = sweep /\ unfinished' = unfinished /\ sweepFaults' = sweepFaults
    BY <1>5 DEF retentionVars
  <2>2. /\ ReleaseTypes' /\ PlaceOK' /\ MovedOK' /\ StepOK' /\ CohereOK'
        /\ \A n \in Deployment : (Recoverable(n)' <=> Recoverable(n)) /\ (Available(n)' <=> Available(n))
    BY <2>1, SameDeployments DEF RetentionInv
  <2>3. app' = app /\ releases' = releases /\ control' = control /\ record' = record
    BY <2>1 DEF releaseVars
  <2> QED  BY <2>1, <2>2, <2>3 DEF RetentionInv, SweepTypes, SweepOK
<1> QED
  BY <1>1, <1>2, <1>3, <1>4, <1>5 DEF RetentionNext, SweepStep

LEMMA RetentionInvariant == RetentionSpec => []RetentionInv
<1>1. RetentionInv /\ [RetentionNext]_retentionVars => RetentionInv'
  BY RetentionStep
<1> QED  BY <1>1, RetentionInitially, PTL DEF RetentionSpec

\* Every variable of the deployments and of the cleanup has its type.
THEOREM RetentionTypeCorrect == RetentionSpec => []RetentionTypeOK
<1>1. RetentionInv => RetentionTypeOK
  BY DEF RetentionInv, ReleaseTypes, SweepTypes, RetentionTypeOK, ReleaseTypeOK,
         RecordState, ConfigState, HostState, ControlState, SweepState
<1> QED  BY <1>1, RetentionInvariant, PTL

\* Whichever step raises or is killed, whichever record is recovered and whatever
\* the cleanup removes: services are loaded only while "app" is the first
\* installation or a release that was built and is still there.
THEOREM LoadedServicesCanRun == RetentionSpec => []LoadedCanRun
<1>1. RetentionInv => LoadedCanRun
  BY DEF RetentionInv, PlaceOK, LoadedCanRun
<1> QED  BY <1>1, RetentionInvariant, PTL

\* When no cutover is owed its end, pointer, environment, model routes and the
\* definitions of the services belong to one release, and all services run.
THEOREM UpgradesAreAllOrNothing == RetentionSpec => []Coherent
<1>1. ASSUME RetentionInv PROVE Coherent
  <2> SUFFICES ASSUME owed = {}, ~overtaken
               PROVE  /\ host.env = Active /\ host.models = Active /\ loaded = Service
                      /\ \A s \in Service : host.agents[s] = Active
    BY DEF Coherent
  <2>1. Belongs(Active)
    BY <1>1 DEF RetentionInv, CohereOK, StageOK
  <2> QED  BY <2>1 DEF Belongs
<1> QED  BY <1>1, RetentionInvariant, PTL

\* A record that --recover accepts finds the release it goes back to, at the path it names
\* or under "app", whatever the cleanup removed and wherever it was killed, unless a removal
\* is unfinished or the record is stranded: another deployment has moved the plain
\* directory that this one found and never moved.
THEOREM RecoveryFindsItsRelease == RetentionSpec => []RollbackAvailable
<1>1. RetentionInv => RollbackAvailable
  BY DEF RetentionInv, SweepOK, Available, RollbackAvailable
<1> QED  BY <1>1, RetentionInvariant, PTL
==============================================================================
