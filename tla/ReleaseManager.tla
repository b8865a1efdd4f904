---------------------------- MODULE ReleaseManager ----------------------------
(***************************************************************************)
(* Upgrades of the operator-managed macOS service.  A deployment builds a  *)
(* release beside the active one, takes the services down, points "app" at *)
(* the new release, configures, migrates and starts it, and rolls back if  *)
(* a step after the cutover raises.  The controller can be killed at any   *)
(* point; the operator then recovers from the record it left.              *)
(*                                                                         *)
(* Releases are numbered by the deployment that built them; 0 is the first *)
(* installation, a plain directory at "app" until a deployment moves it to *)
(* releases/previous-<transaction>.  Each deployment that finds a plain    *)
(* directory has such a path of its own in its record, and only the one    *)
(* that moves the directory makes it (moved).  What configure, migrate and *)
(* start write (environment file, model routes, service definitions) is    *)
(* represented by the release it was written for.                          *)
(***************************************************************************)
EXTENDS Naturals, FiniteSets

CONSTANTS
    Service,         \* launchd services
    Required,        \* those without which no deployment starts
    MaxDeployments,  \* bound: deployments
    MaxFaults        \* bound: steps that raise, and kills

ASSUME ReleaseAssumption ==
    /\ Required \subseteq Service /\ Required # {}
    /\ MaxDeployments \in Nat \ {0} /\ MaxFaults \in Nat

Release == 0..MaxDeployments
Deployment == 1..MaxDeployments
InPlace == MaxDeployments + 1  \* "app" is the directory of release 0 itself
Missing == MaxDeployments + 2  \* there is no "app"

VARIABLES
    app,       \* the release "app" points at, InPlace or Missing
    releases,  \* directories under releases/
    moved,     \* the deployment that moved release 0 there, 0 before that
    built,     \* releases whose build is complete
    host,      \* environment file, model routes and service definitions
    loaded,    \* services launchd runs
    record,    \* record[n]: the recovery record of deployment n
    saved,     \* saved[n]: its private backup of the configuration
    begun,     \* deployments begun
    control,   \* the controller: its step, its deployment, and whether it recovers
    owed,      \* deployments whose cutover ended neither healthy nor rolled back
    overtaken, \* another deployment or recovery began while one was owed its end
    mishaps    \* steps that raised and kills so far

releaseVars == <<app, releases, moved, built, host, loaded, record, saved, begun, control, owed, overtaken, mishaps>>

Terminal == {"healthy", "rolled-back", "failed-before-cutover"}
CutOver == {"stopping", "activating", "configuring", "migrating", "starting",
            "checking", "rolling-back", "rollback-failed"}
Phase == {"none", "building", "preflight-backup", "built"} \cup CutOver \cup Terminal

Forward == {"build", "backup", "capture", "cutover", "stop", "models", "activate", "configure",
            "migrate", "start", "check", "queue"}
Backward == {"undo stop", "undo pointer", "undo env", "undo models", "undo start", "undo check"}
BeforeCutover == {"build", "backup", "capture"}

NoConfig == [env |-> 0, models |-> 0, agents |-> [s \in Service |-> 0], hasModels |-> FALSE]
NoRecord == [phase |-> "none", previous |-> 0, inPlace |-> FALSE, services |-> {}, retired |-> FALSE]
Resting == [at |-> "rest", txn |-> 1, recovers |-> FALSE]

ReleaseTypeOK ==
    /\ app \in Release \cup {InPlace, Missing}
    /\ releases \subseteq Release /\ moved \in 0..MaxDeployments /\ built \subseteq Release
    /\ host \in [env : Release, models : Release, agents : [Service -> Release]]
    /\ loaded \subseteq Service
    /\ record \in [Deployment -> [phase : Phase, previous : Release, inPlace : BOOLEAN,
                                  services : SUBSET Service, retired : BOOLEAN]]
    /\ saved \in [Deployment -> [env : Release, models : Release,
                                 agents : [Service -> Release], hasModels : BOOLEAN]]
    /\ begun \in 0..MaxDeployments
    /\ control \in [at : Forward \cup Backward \cup {"rest"}, txn : Deployment, recovers : BOOLEAN]
    /\ owed \subseteq Deployment /\ overtaken \in BOOLEAN
    /\ mishaps \in 0..MaxFaults

ReleaseInit ==
    /\ app = InPlace
    /\ releases = {} /\ moved = 0 /\ built = {0}
    /\ host = [env |-> 0, models |-> 0, agents |-> [s \in Service |-> 0]]
    /\ loaded = Service
    /\ record = [n \in Deployment |-> NoRecord]
    /\ saved = [n \in Deployment |-> NoConfig]
    /\ begun = 0 /\ control = Resting /\ owed = {}
    /\ overtaken = FALSE /\ mishaps = 0

\* The release that runs.
Active == IF app = InPlace THEN 0 ELSE app
AppExists == app = InPlace \/ app \in releases
Txn == control.txn
Of == record[Txn]
GoOn(step) == control' = [control EXCEPT !.at = step]
SavePhase(phase) == record' = [record EXCEPT ![Txn].phase = phase]
Finish == control' = Resting /\ owed' = owed \ {Txn}
-----------------------------------------------------------------------------
\* Deployment(): the deployment lock is held, the candidate directory is made and
\* the record says "building".
BeginDeployment ==
    /\ control.at = "rest" /\ begun < MaxDeployments /\ AppExists
    /\ begun' = begun + 1
    /\ releases' = releases \cup {begun + 1}
    /\ record' = [record EXCEPT ![begun + 1].phase = "building", ![begun + 1].previous = Active,
                               ![begun + 1].inPlace = (app = InPlace)]
    /\ control' = [at |-> "build", txn |-> begun + 1, recovers |-> FALSE]
    /\ overtaken' = (overtaken \/ owed # {})
    /\ UNCHANGED <<app, moved, built, host, loaded, saved, owed, mishaps>>

Build ==
    /\ control.at = "build"
    /\ built' = built \cup {Txn}
    /\ SavePhase("preflight-backup") /\ GoOn("backup")
    /\ UNCHANGED <<app, releases, moved, host, loaded, saved, begun, owed, overtaken, mishaps>>

Backup ==
    /\ control.at = "backup"
    /\ GoOn("capture")
    /\ UNCHANGED <<app, releases, moved, built, host, loaded, record, saved, begun, owed, overtaken, mishaps>>

\* capture_configuration(): raises unless the required services are loaded.
CaptureConfiguration ==
    /\ control.at = "capture"
    /\ Required \subseteq loaded
    /\ saved' = [saved EXCEPT ![Txn].env = host.env, ![Txn].agents = host.agents]
    /\ record' = [record EXCEPT ![Txn].phase = "built", ![Txn].services = loaded]
    /\ GoOn("cutover")
    /\ UNCHANGED <<app, releases, moved, built, host, loaded, begun, owed, overtaken, mishaps>>

CutoverBegins ==
    /\ control.at = "cutover"
    /\ SavePhase("stopping") /\ GoOn("stop")
    /\ owed' = owed \cup {Txn}
    /\ UNCHANGED <<app, releases, moved, built, host, loaded, saved, begun, overtaken, mishaps>>

\* stop(): one service after the other, here in any order.
StopService ==
    /\ control.at \in {"stop", "undo stop"}
    /\ \E s \in loaded : loaded' = loaded \ {s}
    /\ UNCHANGED <<app, releases, moved, built, host, record, saved, begun, control, owed, overtaken, mishaps>>

Stopped ==
    /\ control.at \in {"stop", "undo stop"} /\ loaded = {}
    /\ GoOn(IF control.at = "stop" THEN "models" ELSE "undo pointer")
    /\ UNCHANGED <<app, releases, moved, built, host, loaded, record, saved, begun, owed, overtaken, mishaps>>

CaptureModels ==
    /\ control.at = "models"
    /\ saved' = [saved EXCEPT ![Txn].models = host.models, ![Txn].hasModels = TRUE]
    /\ SavePhase("activating") /\ GoOn("activate")
    /\ UNCHANGED <<app, releases, moved, built, host, loaded, begun, owed, overtaken, mishaps>>

\* activate(): a directory at "app" is moved first, to the path that is of this
\* deployment only.
MoveAway ==
    /\ control.at = "activate" /\ app = InPlace
    /\ app' = Missing /\ releases' = releases \cup {0} /\ moved' = Txn
    /\ UNCHANGED <<built, host, loaded, record, saved, begun, control, owed, overtaken, mishaps>>

PointApp ==
    /\ control.at = "activate" /\ app # InPlace
    /\ app' = Txn
    /\ SavePhase("configuring") /\ GoOn("configure")
    /\ UNCHANGED <<releases, moved, built, host, loaded, saved, begun, owed, overtaken, mishaps>>

Configure ==
    /\ control.at = "configure"
    /\ host' = [host EXCEPT !.env = Txn]
    /\ SavePhase("migrating") /\ GoOn("migrate")
    /\ UNCHANGED <<app, releases, moved, built, loaded, saved, begun, owed, overtaken, mishaps>>

Migrate ==
    /\ control.at = "migrate"
    /\ host' = [host EXCEPT !.models = Txn]
    /\ SavePhase("starting") /\ GoOn("start")
    /\ UNCHANGED <<app, releases, moved, built, loaded, saved, begun, owed, overtaken, mishaps>>

\* start(): the definition is written, then the service is loaded, by a command
\* that runs in "app".
Defined(s) ==
    [host EXCEPT !.agents[s] = IF control.at = "start" THEN Txn ELSE saved[Txn].agents[s]]

StartService ==
    /\ control.at \in {"start", "undo start"} /\ AppExists
    /\ \E s \in Of.services \ loaded : host' = Defined(s) /\ loaded' = loaded \cup {s}
    /\ UNCHANGED <<app, releases, moved, built, record, saved, begun, control, owed, overtaken, mishaps>>

Started ==
    /\ control.at \in {"start", "undo start"} /\ Of.services \subseteq loaded
    /\ IF control.at = "start" THEN SavePhase("checking") /\ GoOn("check")
       ELSE GoOn("undo check") /\ UNCHANGED record
    /\ UNCHANGED <<app, releases, moved, built, host, loaded, saved, begun, owed, overtaken, mishaps>>

Accepted ==
    /\ control.at = "check"
    /\ SavePhase("healthy") /\ GoOn("queue")
    /\ owed' = owed \ {Txn}
    /\ UNCHANGED <<app, releases, moved, built, host, loaded, saved, begun, overtaken, mishaps>>

QueueBackup ==
    /\ control.at = "queue"
    /\ Finish
    /\ UNCHANGED <<app, releases, moved, built, host, loaded, record, saved, begun, overtaken, mishaps>>
-----------------------------------------------------------------------------
\* Whether the path that record n calls previous was ever made, is there, and
\* whether "app" still resolves to what it did when n began, which it also does
\* while nothing is at "app".
PathMade(n) == record[n].inPlace => moved = n
PreviousExists(n) == PathMade(n) /\ record[n].previous \in releases
AtOriginal(n) == IF record[n].inPlace THEN app \in {InPlace, Missing} ELSE app = record[n].previous

\* rollback(), after stop(): the pointer, unless nothing was moved yet, ...
UndoPointer ==
    /\ control.at = "undo pointer"
    /\ \/ PreviousExists(Txn) /\ app' = Of.previous
       \/ ~PreviousExists(Txn) /\ AtOriginal(Txn) /\ UNCHANGED app
    /\ GoOn("undo env")
    /\ UNCHANGED <<releases, moved, built, host, loaded, record, saved, begun, owed, overtaken, mishaps>>

UndoEnv ==
    /\ control.at = "undo env"
    /\ host' = [host EXCEPT !.env = saved[Txn].env]
    /\ GoOn("undo models")
    /\ UNCHANGED <<app, releases, moved, built, loaded, record, saved, begun, owed, overtaken, mishaps>>

\* restore_llm_settings(): nothing to restore if nothing was captured.
UndoModels ==
    /\ control.at = "undo models"
    /\ host' = IF saved[Txn].hasModels THEN [host EXCEPT !.models = saved[Txn].models] ELSE host
    /\ GoOn("undo start")
    /\ UNCHANGED <<app, releases, moved, built, loaded, record, saved, begun, owed, overtaken, mishaps>>

RolledBack ==
    /\ control.at = "undo check"
    /\ SavePhase("rolled-back") /\ Finish
    /\ UNCHANGED <<app, releases, moved, built, host, loaded, saved, begun, overtaken, mishaps>>

FaultyRecoverable(n) ==  \* as soon as there is a record of the deployment
    record[n].phase \in (CutOver \cup {"preflight-backup", "healthy"}) /\ ~record[n].retired

\* main(): what --recover accepts.
Recoverable(n) ==
    record[n].phase \in (CutOver \cup {"healthy"}) /\ ~record[n].retired

Recover(n) ==
    /\ control.at = "rest" /\ Recoverable(n)
    /\ record' = [record EXCEPT ![n].phase = "rolling-back"]
    /\ control' = [at |-> "undo stop", txn |-> n, recovers |-> TRUE]
    /\ owed' = owed \cup {n}
    /\ overtaken' = (overtaken \/ ~(owed \subseteq {n}))
    /\ UNCHANGED <<app, releases, moved, built, host, loaded, saved, begun, mishaps>>
-----------------------------------------------------------------------------
\* execute(): a step raises, or SIGTERM arrives. Before the cutover that is all;
\* after it the deployment rolls back; a rollback that raises is given up.
Raises ==
    /\ control.at # "rest"
    /\ IF control.at \in BeforeCutover
       THEN SavePhase("failed-before-cutover") /\ control' = Resting /\ UNCHANGED owed
       ELSE IF control.at \in Forward
       THEN SavePhase("rolling-back") /\ GoOn("undo stop") /\ owed' = owed \cup {Txn}
       ELSE /\ IF control.recovers THEN UNCHANGED record ELSE SavePhase("rollback-failed")
            /\ control' = Resting /\ UNCHANGED owed

Killed ==
    /\ control.at # "rest"
    /\ control' = Resting
    /\ UNCHANGED <<record, owed>>

Mishap ==
    /\ mishaps < MaxFaults /\ mishaps' = mishaps + 1
    /\ Raises \/ Killed
    /\ UNCHANGED <<app, releases, moved, built, host, loaded, saved, begun, overtaken>>

\* The steps that can do nothing but raise.
CannotGoOn ==
    /\ \/ control.at = "capture" /\ ~(Required \subseteq loaded)
       \/ control.at = "undo pointer" /\ ~PreviousExists(Txn) /\ ~AtOriginal(Txn)
    /\ Raises
    /\ UNCHANGED <<app, releases, moved, built, host, loaded, saved, begun, overtaken, mishaps>>

\* With nothing at "app" the first definition is written and its service not loaded.
CannotStart ==
    /\ control.at \in {"start", "undo start"} /\ ~AppExists
    /\ \E s \in Of.services : host' = Defined(s)
    /\ Raises
    /\ UNCHANGED <<app, releases, moved, built, loaded, saved, begun, overtaken, mishaps>>

Deploy ==
    \/ Build \/ Backup \/ CaptureConfiguration \/ CutoverBegins \/ CaptureModels
    \/ MoveAway \/ PointApp \/ Configure \/ Migrate \/ Accepted \/ QueueBackup
RollBack == UndoPointer \/ UndoEnv \/ UndoModels \/ RolledBack
Services == StopService \/ Stopped \/ StartService \/ Started
ControllerStep == Deploy \/ RollBack \/ Services \/ CannotGoOn \/ CannotStart

ReleaseNext ==
    \/ BeginDeployment \/ ControllerStep \/ Mishap
    \/ \E n \in Deployment : Recover(n)
-----------------------------------------------------------------------------
\* Whatever is killed and whichever record is recovered: a service is never
\* loaded while "app" names nothing that can run.
LoadedCanRun ==
    loaded # {} /\ app # InPlace => app \in releases \cap built

\* "A failure after cutover starts restores the retained application, ... env,
\* service definitions and prior model connection" (deploy/macos/README.md:125):
\* once no cutover is owed its end, pointer, environment, models and the
\* definitions of the services all belong to one release, and those run that ran.
\* An interrupted deployment is recovered before the next begins, as the README
\* asks (line 136); the controller does not insist on it.
Coherent ==
    control.at = "rest" /\ owed = {} /\ ~overtaken =>
        /\ host.env = Active /\ host.models = Active
        /\ loaded = Service
        /\ \A s \in Service : host.agents[s] = Active
=============================================================================
