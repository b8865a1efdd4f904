-------------------------- MODULE BackgroundBackup --------------------------
(***************************************************************************)
(* The queue of recovery points.  A checkpoint of the live state is        *)
(* captured while publishers go on; it becomes a queue item by a rename;   *)
(* a background job archives and verifies the items, keeps the status file *)
(* and then lets the storage be maintained.  A deployment captures its own *)
(* point, makes the job yield, and the job can be killed anywhere.         *)
(*                                                                         *)
(* Of the live state only snapshots are told apart: publishing snapshot n  *)
(* stores its artifact n and then moves the pointer; packing moves stored  *)
(* artifacts into packs.  One unit of `today` is the 24 hours of a point.  *)
(***************************************************************************)
EXTENDS Naturals, FiniteSets

CONSTANTS
    MaxSnapshot, \* bound: snapshots published
    MaxPoint,    \* bound: checkpoints captured
    MaxDay,      \* bound: days
    MaxDeploys,  \* bound: deployments
    MaxKills     \* bound: times the job or a deployment is killed

ASSUME BackupAssumption == {MaxSnapshot, MaxPoint, MaxDay, MaxDeploys, MaxKills} \subseteq Nat

VARIABLES
    pointer, storedLive, packedLive,  \* the live state: latest, artifacts there, those in packs
    point,      \* point[i]: the i-th checkpoint directory and its manifest
    captures,   \* how many were begun
    capture,    \* the capture in progress: whose, its step, what it has read
    job,        \* the background job: its step, its queue, its plan
    status,     \* background-status.json
    today, deploy, deploys, kills

liveVars == <<pointer, storedLive, packedLive>>
backupVars == <<liveVars, point, captures, capture, job, status, today, deploy, deploys, kills>>

Snap == 1..MaxSnapshot
Points == 1..MaxPoint
NoPoint == [phase |-> "absent", tree |-> FALSE, manifest |-> FALSE, made |-> 0, holds |-> {}, latest |-> 0]
NoCapture == [at |-> "none", by |-> "job", made |-> 0, latest |-> 0, index |-> {}]
JobAtRest == [at |-> "none", queue |-> {}, force |-> FALSE, made |-> FALSE, result |-> 0]

BackupTypeOK ==
    /\ pointer \in 0..MaxSnapshot
    /\ storedLive \subseteq Snap /\ packedLive \subseteq storedLive
    /\ point \in [Points -> [phase : {"absent", "queued", "archived"}, tree : BOOLEAN, manifest : BOOLEAN,
                             made : 0..MaxDay, holds : SUBSET Snap, latest : 0..MaxSnapshot]]
    /\ captures \in 0..MaxPoint
    /\ capture \in [at : {"none", "pointer", "index", "files", "incomplete"}, by : {"job", "deployment"},
                    made : 0..MaxDay, latest : 0..MaxSnapshot, index : SUBSET Snap]
    /\ job \in [at : {"none", "capture", "next", "archive", "mark", "clean", "save", "maintain", "finish"},
                queue : SUBSET Points, force : BOOLEAN, made : BOOLEAN, result : 0..MaxPoint]
    /\ status \in [says : {"none", "running", "deferred", "failed", "succeeded"}, last : 0..MaxPoint,
                   pending : BOOLEAN, error : BOOLEAN]
    /\ today \in 0..MaxDay /\ deploys \in 0..MaxDeploys /\ kills \in 0..MaxKills
    /\ deploy \in {"none", "requested", "holds", "captured"}
    /\ job.at = "capture" <=> capture.at # "none" /\ capture.by = "job"

BackupInit ==
    /\ pointer = 0 /\ storedLive = {} /\ packedLive = {}
    /\ point = [i \in Points |-> NoPoint] /\ captures = 0
    /\ capture = NoCapture /\ job = JobAtRest
    /\ status = [says |-> "none", last |-> 0, pending |-> FALSE, error |-> FALSE]
    /\ today = 0 /\ deploy = "none" /\ deploys = 0 /\ kills = 0
-----------------------------------------------------------------------------
\* The live state: immutable artifacts, then the pointer.
StoreArtifact ==
    /\ \E n \in Snap \ storedLive : n = Cardinality(storedLive) + 1 /\ storedLive' = storedLive \cup {n}
    /\ UNCHANGED <<pointer, packedLive, point, captures, capture, job, status, today, deploy, deploys, kills>>

PublishSnapshot ==
    /\ \E n \in storedLive : n > pointer /\ pointer' = n
    /\ UNCHANGED <<storedLive, packedLive, point, captures, capture, job, status, today, deploy, deploys, kills>>

FaultyRepositoryFree == TRUE  \* packing does not take the lock of the repository
RepositoryFree == capture.at = "none" /\ job.at \notin {"archive", "mark", "clean"}
\* Packs are made under the lock of the repository, which a capture holds.
PackStore ==
    /\ RepositoryFree
    /\ packedLive' = storedLive
    /\ UNCHANGED <<pointer, storedLive, point, captures, capture, job, status, today, deploy, deploys, kills>>
-----------------------------------------------------------------------------
\* _capture(): the pointer first ...
BeginCapture(by) ==
    /\ capture.at = "none" /\ captures < MaxPoint
    /\ captures' = captures + 1
    /\ capture' = [NoCapture EXCEPT !.at = "pointer", !.by = by, !.made = today]

PinPointer ==
    /\ capture.at = "pointer"
    /\ capture' = [capture EXCEPT !.at = "index", !.latest = pointer]
    /\ UNCHANGED <<liveVars, point, captures, job, status, today, deploy, deploys, kills>>

\* ... then the pack locator ...
CopyIndex ==
    /\ capture.at = "index"
    /\ capture' = [capture EXCEPT !.at = "files", !.index = packedLive]
    /\ UNCHANGED <<liveVars, point, captures, job, status, today, deploy, deploys, kills>>

\* ... then the files: loose ones that are there, and packs, of which only those the
\* copied locator knows can be read.  A tree without the artifact of its pointer is
\* refused, otherwise it is renamed into the queue.
Copied == (storedLive \ packedLive) \cup (packedLive \cap capture.index)
CopyFiles ==
    /\ capture.at = "files"
    /\ IF capture.latest = 0 \/ capture.latest \in Copied
       THEN /\ point' = [point EXCEPT ![captures] = [phase |-> "queued", tree |-> TRUE, manifest |-> FALSE,
                             made |-> capture.made, holds |-> Copied, latest |-> capture.latest]]
            /\ capture' = NoCapture
            /\ IF capture.by = "job"
               THEN job' = [job EXCEPT !.at = "next", !.queue = {captures}, !.made = TRUE] /\ UNCHANGED deploy
               ELSE deploy' = "captured" /\ UNCHANGED job
       ELSE /\ capture' = [capture EXCEPT !.at = "incomplete"]
            /\ UNCHANGED <<point, job, deploy>>
    /\ UNCHANGED <<liveVars, captures, status, today, deploys, kills>>

\* Whoever ends without finishing its capture, the unpublished tree counts for nothing
\* and is discarded.
Without(who) == IF capture.by = who THEN NoCapture ELSE capture
-----------------------------------------------------------------------------
\* pending(): also what is archived but not yet cleaned up.
FaultyPending == {i \in Points : point[i].phase = "queued" /\ i = captures}  \* the newest only
Pending == {i \in Points : point[i].phase = "queued" \/ (point[i].phase = "archived" /\ point[i].tree)}
Due == IF status.last = 0 THEN TRUE ELSE today > point[status.last].made
Yield == deploy # "none"

\* launchd starts the job, the background lock makes it the only one.  It defers to a
\* deployment, takes up what is queued, makes the point of the day or maintains.
MaintenanceDue == status.error \/ status.pending
StartJob(force) ==
    /\ job.at = "none"
    /\ \/ /\ deploy \in {"holds", "captured"}
          /\ status' = [status EXCEPT !.says = "deferred"]
          /\ UNCHANGED <<job, captures, capture>>
       \/ /\ deploy \notin {"holds", "captured"}
          /\ status' = [status EXCEPT !.says = "running", !.error = FALSE]
          /\ \/ /\ Pending # {}
                /\ job' = [JobAtRest EXCEPT !.at = "next", !.queue = Pending, !.force = force]
                /\ UNCHANGED <<captures, capture>>
             \/ /\ Pending = {} /\ (force \/ Due)
                /\ job' = [JobAtRest EXCEPT !.at = "capture", !.force = force]
                /\ BeginCapture("job")
             \/ /\ Pending = {} /\ ~force /\ ~Due /\ MaintenanceDue
                /\ job' = [JobAtRest EXCEPT !.at = "next", !.result = status.last]
                /\ UNCHANGED <<captures, capture>>
    /\ UNCHANGED <<liveVars, point, today, deploy, deploys, kills>>

\* The oldest item first; when there is none left the storage is maintained.
NextQueued ==
    /\ job.at = "next"
    /\ IF job.queue # {}
       THEN job' = [job EXCEPT !.at = "archive", !.result = CHOOSE i \in job.queue : \A k \in job.queue : i <= k]
            /\ UNCHANGED status
       ELSE job' = [job EXCEPT !.at = "maintain"] /\ status' = [status EXCEPT !.pending = TRUE]
    /\ UNCHANGED <<liveVars, point, captures, capture, today, deploy, deploys, kills>>

FaultyArchive ==  \* the tree is discarded as soon as its files are copied
    /\ job.at = "archive" /\ capture.at = "none" /\ ~Yield
    /\ point' = [point EXCEPT ![job.result].tree = FALSE]
    /\ job' = [job EXCEPT !.at = "mark"]
    /\ UNCHANGED <<liveVars, captures, capture, status, today, deploy, deploys, kills>>

\* archive_checkpoint(): files are copied and verified, then the manifest published ...
Archive ==
    /\ job.at = "archive" /\ capture.at = "none" /\ ~Yield
    /\ IF point[job.result].phase = "archived"
       THEN job' = [job EXCEPT !.at = "clean"] /\ UNCHANGED point
       ELSE /\ point' = [point EXCEPT ![job.result].manifest = TRUE]
            /\ job' = [job EXCEPT !.at = "mark"]
    /\ UNCHANGED <<liveVars, captures, capture, status, today, deploy, deploys, kills>>

\* ... the item marked ...
MarkArchived ==
    /\ job.at = "mark"
    /\ point' = [point EXCEPT ![job.result].phase = "archived"]
    /\ job' = [job EXCEPT !.at = "clean"]
    /\ UNCHANGED <<liveVars, captures, capture, status, today, deploy, deploys, kills>>

\* ... and its tree removed.
CleanUp ==
    /\ job.at = "clean"
    /\ point' = [point EXCEPT ![job.result].tree = FALSE]
    /\ job' = [job EXCEPT !.at = "save"]
    /\ UNCHANGED <<liveVars, captures, capture, status, today, deploy, deploys, kills>>

NoteSuccess ==
    /\ job.at = "save"
    /\ status' = [status EXCEPT !.last = job.result]
    /\ job' = [job EXCEPT !.at = "next", !.queue = @ \ {job.result}]
    /\ UNCHANGED <<liveVars, point, captures, capture, today, deploy, deploys, kills>>

\* maintain(), here its packing, under both locks.  It can be done, be done in part,
\* or raise, which does not make the backup fail.
Maintain ==
    /\ job.at = "maintain" /\ deploy # "requested"
    /\ \E raises, more \in BOOLEAN :
          /\ deploy # "none" \/ capture.at # "none" => raises
          /\ packedLive' = IF raises THEN packedLive ELSE storedLive
          /\ status' = [status EXCEPT !.pending = IF raises THEN @ ELSE more, !.error = raises]
    /\ job' = [job EXCEPT !.at = "finish"]
    /\ UNCHANGED <<pointer, storedLive, point, captures, capture, today, deploy, deploys, kills>>

FinishRun ==
    /\ job.at = "finish"
    /\ status' = [status EXCEPT !.says = "succeeded"]
    /\ job' = JobAtRest
    /\ UNCHANGED <<liveVars, point, captures, capture, today, deploy, deploys, kills>>

\* progress() sees the deployment: the run ends "deferred" and what is queued stays.
YieldToDeployment ==
    /\ \/ Yield /\ job.at \in {"capture", "archive"}
       \/ deploy = "requested" /\ job.at = "maintain"
    /\ job' = JobAtRest
    /\ capture' = Without("job")
    /\ status' = [status EXCEPT !.says = "deferred"]
    /\ UNCHANGED <<liveVars, point, captures, today, deploy, deploys, kills>>

\* Anything else that is raised: the run ends "failed".
RunFails ==
    /\ job.at \in {"capture", "archive", "mark", "clean"} /\ kills < MaxKills
    /\ kills' = kills + 1
    /\ job' = JobAtRest
    /\ capture' = Without("job")
    /\ status' = [status EXCEPT !.says = "failed"]
    /\ UNCHANGED <<liveVars, point, captures, today, deploy, deploys>>

JobKilled ==
    /\ job.at # "none" /\ kills < MaxKills
    /\ kills' = kills + 1
    /\ job' = JobAtRest
    /\ capture' = Without("job")
    /\ UNCHANGED <<liveVars, point, captures, status, today, deploy, deploys>>
-----------------------------------------------------------------------------
\* A deployment asks for its lock, captures its point and in the end lets it go.
RequestDeployment ==
    /\ deploy = "none" /\ deploys < MaxDeploys
    /\ deploy' = "requested" /\ deploys' = deploys + 1
    /\ UNCHANGED <<liveVars, point, captures, capture, job, status, today, kills>>

LockDeployment ==
    /\ deploy = "requested"
    /\ deploy' = "holds"
    /\ UNCHANGED <<liveVars, point, captures, capture, job, status, today, deploys, kills>>

DeploymentCaptures ==
    /\ deploy = "holds" /\ RepositoryFree
    /\ BeginCapture("deployment")
    /\ UNCHANGED <<liveVars, point, job, status, today, deploy, deploys, kills>>

\* It ends, well or not (a killed deployment gives its lock back too).
EndDeployment ==
    /\ deploy # "none"
    /\ deploy' = "none"
    /\ capture' = Without("deployment")
    /\ UNCHANGED <<liveVars, point, captures, job, status, today, deploys, kills>>

DayPasses ==
    /\ today < MaxDay /\ today' = today + 1
    /\ UNCHANGED <<liveVars, point, captures, capture, job, status, deploy, deploys, kills>>

Capturing == PinPointer \/ CopyIndex \/ CopyFiles
JobStep ==
    NextQueued \/ Archive \/ MarkArchived \/ CleanUp \/ NoteSuccess \/ Maintain \/ FinishRun
        \/ YieldToDeployment
BackupNext ==
    \/ StoreArtifact \/ PublishSnapshot \/ PackStore
    \/ Capturing \/ JobStep \/ RunFails \/ JobKilled
    \/ \E force \in BOOLEAN : StartJob(force)
    \/ RequestDeployment \/ LockDeployment \/ DeploymentCaptures \/ EndDeployment
    \/ DayPasses

\* launchd starts the job again and again, processes go on, deployments end.
BackupFairness ==
    /\ WF_backupVars(StartJob(FALSE)) /\ WF_backupVars(JobStep) /\ WF_backupVars(Capturing)
    /\ WF_backupVars(EndDeployment)

BackupSpec == BackupInit /\ [][BackupNext]_backupVars /\ BackupFairness
-----------------------------------------------------------------------------
\* A capture that runs beside publishers always finds the artifact of the pointer it
\* pinned, packed or not: it never has to be refused.
CapturesAreWhole == capture.at # "incomplete"

\* Whatever kills the job when: a point that was queued is in the queue with its tree
\* or has its verified manifest, and only then can the tree go; and the point that the
\* status file calls the last backup is a verified one.
PointsSurvive ==
    \A i \in Points :
        /\ point[i].phase # "absent" => point[i].tree \/ point[i].manifest
        /\ status.last = i => point[i].manifest

\* Whoever yields, fails or is killed, what is queued is archived in the end.
QueueDrains == \A i \in Points : (point[i].phase = "queued") ~> (point[i].phase = "archived")
=============================================================================
