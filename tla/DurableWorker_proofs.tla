------------------------ MODULE DurableWorker_proofs ------------------------
(*****************************************************************************)
(* The job table and the worker program keep their promises for any number   *)
(* of jobs, workers, stages, retries and faults.  The table is dealt with    *)
(* first, with clients and workers unrestricted: OwnershipOK is inductive    *)
(* together with TypeOK, and everything else follows from the two.           *)
(*****************************************************************************)
EXTENDS DurableWorker, TLAPS

USE QueueAssumption DEF QueueAssumption

LEMMA TypeInit == Init => TypeOK
  BY DEF Init, TypeOK, JobStatus, RunId, StageStatus, Terminal

\* A job taken by claim() was claimable; one it clears was abandoned.
LEMMA ChosenIsClaimable ==
  \A w \in Worker : Chosen(w) \subseteq Claimable(w) /\ Chosen(w) \cap Abandoned = {}
  BY DEF Chosen, Claimable, Abandoned

LEMMA QueueTypeStep == TypeOK /\ [Next]_vars => TypeOK'
<1> SUFFICES ASSUME TypeOK, [Next]_vars PROVE TypeOK'
  OBVIOUS
<1> USE DEF TypeOK, JobStatus, RunId, StageStatus, Terminal
<1>1. ASSUME NEW j \in Job, ClientNext(j) PROVE TypeOK'
  <2>1. ASSUME NEW t \in Requests, Enqueue(j, t) PROVE TypeOK'
    BY <2>1 DEF Enqueue
  <2>2. CASE Cancel(j)
    BY <2>2 DEF Cancel, CancelQueued, CancelRunning
  <2>3. CASE RequestFollowUp(j)
    BY <2>3 DEF RequestFollowUp, columns
  <2>4. CASE ConsumeFollowUp(j)
    BY <2>4 DEF ConsumeFollowUp, columns
  <2>5. CASE LeaseExpires(j)
    BY <2>5 DEF LeaseExpires
  <2> QED
    BY <1>1, <2>1, <2>2, <2>3, <2>4, <2>5 DEF ClientNext
<1>2. ASSUME NEW w \in Worker, Claim(w) PROVE TypeOK'
  BY <1>2 DEF Claim
<1>3. ASSUME NEW w \in Worker, NEW j \in Job, Heartbeat(w, j) PROVE TypeOK'
  BY <1>3 DEF Heartbeat
<1>4. ASSUME NEW w \in Worker, NEW j \in Job, NEW i \in Plan,
             NEW s \in {"running", "succeeded", "failed"}, SetStage(w, j, i, s)
      PROVE TypeOK'
  BY <1>4 DEF SetStage, columns
<1>5. ASSUME NEW w \in Worker, NEW j \in Job, Requeue(w, j) PROVE TypeOK'
  BY <1>5 DEF Requeue
<1>6. ASSUME NEW w \in Worker, NEW j \in Job, NEW outcome \in Terminal, NEW id \in RunId,
             Finish(w, j, outcome, id)
      PROVE TypeOK'
  BY <1>6 DEF Finish
<1>7. CASE UNCHANGED vars
  BY <1>7 DEF vars
<1> QED
  BY <1>1, <1>2, <1>3, <1>4, <1>5, <1>6, <1>7 DEF Next, OwnerNext

\* Every column of every row holds a value of its kind.
THEOREM TypeCorrect == Spec => []TypeOK
  BY TypeInit, QueueTypeStep, PTL DEF Spec
-----------------------------------------------------------------------------
QueueInv == TypeOK /\ OwnershipOK

LEMMA OwnershipStep == QueueInv /\ [Next]_vars => OwnershipOK'
<1> SUFFICES ASSUME TypeOK, OwnershipOK, TypeOK', [Next]_vars PROVE OwnershipOK'
  BY QueueTypeStep DEF QueueInv
<1> USE DEF TypeOK, OwnershipOK, Terminal
<1>1. ASSUME NEW j \in Job, ClientNext(j) PROVE OwnershipOK'
  <2>1. ASSUME NEW t \in Requests, Enqueue(j, t) PROVE OwnershipOK'
    BY <2>1 DEF Enqueue
  <2>2. CASE Cancel(j)
    BY <2>2 DEF Cancel, CancelQueued, CancelRunning
  <2>3. CASE RequestFollowUp(j) \/ ConsumeFollowUp(j)
    BY <2>3 DEF RequestFollowUp, ConsumeFollowUp, columns
  <2>4. CASE LeaseExpires(j)
    BY <2>4 DEF LeaseExpires
  <2> QED
    BY <1>1, <2>1, <2>2, <2>3, <2>4 DEF ClientNext
<1>2. ASSUME NEW w \in Worker, Claim(w) PROVE OwnershipOK'
  BY <1>2, ChosenIsClaimable DEF Claim, Claimable, Abandoned
<1>3. ASSUME NEW w \in Worker, NEW j \in Job, Heartbeat(w, j) PROVE OwnershipOK'
  BY <1>3 DEF Heartbeat, Owns
<1>4. ASSUME NEW w \in Worker, NEW j \in Job, NEW i \in Plan,
             NEW s \in {"running", "succeeded", "failed"}, SetStage(w, j, i, s)
      PROVE OwnershipOK'
  BY <1>4 DEF SetStage, columns
<1>5. ASSUME NEW w \in Worker, NEW j \in Job, Requeue(w, j) PROVE OwnershipOK'
  BY <1>5 DEF Requeue, Owns
<1>6. ASSUME NEW w \in Worker, NEW j \in Job, NEW outcome \in Terminal, NEW id \in RunId,
             Finish(w, j, outcome, id)
      PROVE OwnershipOK'
  BY <1>6 DEF Finish, Owns
<1>7. CASE UNCHANGED vars
  BY <1>7 DEF vars
<1> QED
  BY <1>1, <1>2, <1>3, <1>4, <1>5, <1>6, <1>7 DEF Next, OwnerNext, RunId

LEMMA QueueInvariant == Spec => []QueueInv
<1>1. Init => QueueInv
  BY TypeInit DEF QueueInv, OwnershipOK, Init, Terminal
<1>2. QueueInv /\ [Next]_vars => QueueInv'
  BY QueueTypeStep, OwnershipStep DEF QueueInv
<1> QED
  BY <1>1, <1>2, PTL DEF Spec

\* Owner and lease go together, and no finished job keeps a cancellation.
THEOREM OwnershipCorrect == Spec => []OwnershipOK
  BY QueueInvariant, PTL DEF QueueInv
-----------------------------------------------------------------------------
\* What one step of any client may do to one row.
RowStep(j) ==
    /\ status[j] \in Terminal => /\ status'[j] = status[j]
                                 /\ runId'[j] = runId[j]
                                 /\ attempts'[j] = attempts[j]
                                 /\ stage'[j] = stage[j]
                                 /\ owner'[j] = owner[j]
    /\ cancel[j] => owner'[j] \in {owner[j], NoWorker}
    /\ lease[j] = "live" /\ owner'[j] # owner[j] => owner'[j] = NoWorker /\ stage'[j] = stage[j]

LEMMA RowSteps == QueueInv /\ [Next]_vars => \A k \in Job : RowStep(k)
<1> SUFFICES ASSUME TypeOK, OwnershipOK, [Next]_vars, NEW k \in Job PROVE RowStep(k)
  BY DEF QueueInv
<1> USE DEF TypeOK, OwnershipOK, Terminal, RowStep
<1>1. ASSUME NEW j \in Job, ClientNext(j) PROVE RowStep(k)
  BY <1>1 DEF ClientNext, Enqueue, Cancel, CancelQueued, CancelRunning,
              RequestFollowUp, ConsumeFollowUp, LeaseExpires, columns
<1>2. ASSUME NEW w \in Worker, Claim(w) PROVE RowStep(k)
  <2>1. k \in Chosen(w) => status[k] \in {"queued", "running"} /\ ~cancel[k] /\ lease[k] # "live"
    BY ChosenIsClaimable DEF Claimable
  <2>2. k \in Abandoned => status[k] = "running" /\ cancel[k] /\ lease[k] = "expired"
    BY DEF Abandoned
  <2>3. k \notin Abandoned => stage'[k] = stage[k]
    BY <1>2 DEF Claim, Plan
  <2> QED
    BY <1>2, <2>1, <2>2, <2>3 DEF Claim
<1>3. ASSUME NEW w \in Worker, NEW j \in Job, Heartbeat(w, j) PROVE RowStep(k)
  BY <1>3 DEF Heartbeat, Owns
<1>4. ASSUME NEW w \in Worker, NEW j \in Job, NEW i \in Plan,
             NEW s \in {"running", "succeeded", "failed"}, SetStage(w, j, i, s)
      PROVE RowStep(k)
  BY <1>4 DEF SetStage, Owns, columns
<1>5. ASSUME NEW w \in Worker, NEW j \in Job, Requeue(w, j) PROVE RowStep(k)
  BY <1>5 DEF Requeue, Owns
<1>6. ASSUME NEW w \in Worker, NEW j \in Job, NEW outcome \in Terminal, NEW id \in RunId,
             Finish(w, j, outcome, id)
      PROVE RowStep(k)
  BY <1>6 DEF Finish, Owns
<1>7. CASE UNCHANGED vars
  BY <1>7 DEF vars
<1> QED
  BY <1>1, <1>2, <1>3, <1>4, <1>5, <1>6, <1>7 DEF Next, OwnerNext, RunId

\* A job that ended stays as it ended, whatever late calls still arrive.
THEOREM FinishedStaysFinal == Spec => FinishedIsFinal
<1>1. QueueInv /\ [Next]_vars =>
        [\A j \in Job : status[j] \in Terminal =>
            /\ status'[j] = status[j]
            /\ runId'[j] = runId[j]
            /\ attempts'[j] = attempts[j]
            /\ stage'[j] = stage[j]
            /\ owner'[j] = owner[j]]_vars
  BY RowSteps DEF RowStep
<1> QED
  BY <1>1, QueueInvariant, PTL DEF Spec, FinishedIsFinal

\* Once cancelled, a running job is only ever given up, not handed on.
THEOREM CancelledStaysPut == Spec => CancelledNotReclaimed
<1>1. QueueInv /\ [Next]_vars =>
        [\A j \in Job : cancel[j] => owner'[j] \in {owner[j], NoWorker}]_vars
  BY RowSteps DEF RowStep
<1> QED
  BY <1>1, QueueInvariant, PTL DEF Spec, CancelledNotReclaimed

\* A live lease keeps the other workers' claims away from a job.
THEOREM LiveLeaseProtects == Spec => LeaseProtects
<1>1. QueueInv /\ [Next]_vars =>
        [\A j \in Job : lease[j] = "live" /\ owner'[j] # owner[j] =>
            owner'[j] = NoWorker /\ stage'[j] = stage[j]]_vars
  BY RowSteps DEF RowStep
<1> QED
  BY <1>1, QueueInvariant, PTL DEF Spec, LeaseProtects
-----------------------------------------------------------------------------
LEMMA LifeStep == QueueInv /\ [Next]_vars => \A k \in Job : [Life(k)!Next]_(Life(k)!vars)
<1> SUFFICES ASSUME TypeOK, OwnershipOK, [Next]_vars, NEW k \in Job
             PROVE Life(k)!Next \/ UNCHANGED <<status[k], owner[k]>>
  BY DEF QueueInv, Life!vars
<1> USE DEF TypeOK, OwnershipOK, Terminal
<1> USE DEF Life!Next, Life!Submit, Life!Take, Life!Return, Life!End, Life!Terminal
<1>1. ASSUME NEW j \in Job, ClientNext(j) PROVE Life(k)!Next \/ UNCHANGED <<status[k], owner[k]>>
  BY <1>1 DEF ClientNext, Enqueue, Cancel, CancelQueued, CancelRunning,
              RequestFollowUp, ConsumeFollowUp, LeaseExpires, columns
<1>2. ASSUME NEW w \in Worker, Claim(w) PROVE Life(k)!Next \/ UNCHANGED <<status[k], owner[k]>>
  <2>1. k \in Chosen(w) => status[k] \in {"queued", "running"}
    BY ChosenIsClaimable DEF Claimable
  <2>2. k \in Abandoned => status[k] = "running"
    BY DEF Abandoned
  <2> QED
    BY <1>2, <2>1, <2>2 DEF Claim
<1>3. ASSUME NEW w \in Worker, NEW j \in Job,
             \/ Heartbeat(w, j)
             \/ \E i \in Plan, s \in {"running", "succeeded", "failed"} : SetStage(w, j, i, s)
      PROVE UNCHANGED <<status[k], owner[k]>>
  BY <1>3 DEF Heartbeat, SetStage, columns
<1>4. ASSUME NEW w \in Worker, NEW j \in Job, Requeue(w, j)
      PROVE Life(k)!Next \/ UNCHANGED <<status[k], owner[k]>>
  BY <1>4 DEF Requeue, Owns
<1>5. ASSUME NEW w \in Worker, NEW j \in Job, NEW outcome \in Terminal, NEW id \in RunId,
             Finish(w, j, outcome, id)
      PROVE Life(k)!Next \/ UNCHANGED <<status[k], owner[k]>>
  BY <1>5 DEF Finish, Owns
<1>6. CASE UNCHANGED vars
  BY <1>6 DEF vars
<1> QED
  BY <1>1, <1>2, <1>3, <1>4, <1>5, <1>6 DEF Next, OwnerNext, RunId

\* Seen from outside, each row of the table is one job's life: it is queued
\* once, has one owner at a time, and ends once.
THEOREM RowsImplementLifecycle == Spec => ImplementsLifecycle
<1>1. Init => \A j \in Job : Life(j)!Init
  BY DEF Init, Life!Init
<1>2. QueueInv /\ [Next]_vars => [\A j \in Job : [Life(j)!Next]_(Life(j)!vars)]_vars
  BY LifeStep
<1> QED
  BY <1>1, <1>2, QueueInvariant, PTL DEF Spec, ImplementsLifecycle

------------------------------------------------------------------------------
(*****************************************************************************)
(* The workers.  Every step of the program is a step of the queue, so the    *)
(* theorems about the queue hold of it too.  The invariant SessionOK relates *)
(* the locals of a run_once in progress to the rows of the table;            *)
(* SucceededIsComplete alone is not inductive, because it does not say what  *)
(* a worker about to complete a job has seen done.                           *)
(*****************************************************************************)
Busy(w) == pc[w] \notin {"stopped", "ended", "idle"}
InStage(w) == pc[w] \in {"starting", "running", "recording", "stagefail"}

\* What run_once knows of its job: stages it skipped or passed are succeeded,
\* even when the job is no longer its own.
Passed(w) ==
    Busy(w) =>
        /\ held[w] \in Job
        /\ status[held[w]] # "absent"
        /\ \A i \in Plan : i \in done[w] \/ i < at[w] => stage[held[w]][i] = "succeeded"

\* While the job is its own, no stage is succeeded that it did not pass.
Unpassed(w) ==
    (InStage(w) \/ pc[w] \in {"boundary", "renewing"}) /\ Owns(w, held[w]) =>
        \A i \in Plan \ done[w] :
            i > at[w] \/ (i = at[w] /\ pc[w] # "renewing") => stage[held[w]][i] # "succeeded"

Position(w) ==
    /\ InStage(w) => at[w] \in Plan \ done[w]
    /\ pc[w] = "renewing" => at[w] \in Plan /\ stage[held[w]][at[w]] = "succeeded"
    /\ pc[w] = "succeeded" => at[w] = Stages + 1

\* A snapshot recorded, or about to be, was published.
Evidence(w) ==
    /\ snap[w] = "published" => published[held[w]] > 0
    /\ pc[w] = "recording" /\ Publishes(held[w], at[w]) => published[held[w]] > 0
    /\ pc[w] = "requeue" /\ Owns(w, held[w]) => attempts[held[w]] < MaxAttempts

\* Between jobs no heartbeat thread runs and the locals are as run_once sets them.
Fresh(w) == ~Busy(w) => at[w] = 1 /\ snap[w] = "none" /\ ~beating[w]

Session(w) == Passed(w) /\ Unpassed(w) /\ Position(w) /\ Evidence(w) /\ Fresh(w)
SessionOK == \A w \in Worker : Session(w)

RowsOK ==
    \A j \in Job :
        /\ status[j] = "absent" => attempts[j] = 0 /\ \A i \in Plan : stage[j][i] = "queued"
        /\ stage[j][Stages] = "succeeded" /\ trigger[j] # "system" => published[j] > 0
        /\ runId[j] = "published" => published[j] > 0
        /\ status[j] = "queued" => attempts[j] < MaxAttempts
        /\ status[j] = "succeeded" => \A i \in Plan : stage[j][i] = "succeeded"

WorkerInv == WorkerTypeOK /\ OwnershipOK /\ SessionOK /\ RowsOK

USE QueueAssumption, FaultAssumption DEF QueueAssumption, FaultAssumption, Exit
-----------------------------------------------------------------------------
\* The types of the columns are those of the queue; these are the locals'.
LocalTypes ==
    /\ pc \in [Worker -> PC]
    /\ held \in [Worker -> Job \cup {NoJob}]
    /\ at \in [Worker -> 1..(Stages + 1)]
    /\ done \in [Worker -> SUBSET Plan]
    /\ retry \in [Worker -> BOOLEAN]
    /\ exiting \in [Worker -> BOOLEAN]
    /\ snap \in [Worker -> {"none", "published"}]
    /\ beating \in [Worker -> BOOLEAN]

LEMMA LeaveTypes ==
  ASSUME LocalTypes, NEW w \in Worker, NEW label \in PC, Leave(w, label)
  PROVE  LocalTypes'
  BY DEF LocalTypes, Leave, Goto, Plan

LEMMA GotoTypes ==
  ASSUME LocalTypes, NEW w \in Worker, NEW label \in PC, Goto(w, label)
  PROVE  pc' \in [Worker -> PC]
  BY DEF LocalTypes, Goto

LEMMA ReturnTypes ==
  ASSUME LocalTypes, NEW w \in Worker, Return(w)
  PROVE  LocalTypes'
  BY LeaveTypes DEF Return, PC

LEMMA RaiseTypes ==
  ASSUME LocalTypes, NEW w \in Worker, Raise(w)
  PROVE  LocalTypes'
<1>1. CASE exiting[w] \/ pc[w] \in {"idle", "raising"}
  BY <1>1, LeaveTypes DEF Raise, PC
<1>2. CASE ~(exiting[w] \/ pc[w] \in {"idle", "raising"})
  BY <1>2, GotoTypes DEF Raise, PC, LocalTypes
<1> QED
  BY <1>1, <1>2

LEMMA LocalTypeStep ==
  ASSUME WorkerTypeOK, SessionOK, [WorkerNext]_workerVars
  PROVE  LocalTypes'
<1>0. LocalTypes
  BY DEF WorkerTypeOK, LocalTypes
<1> USE DEF PC, Loop, Transactions, Terminal
<1>1. ASSUME NEW w \in Worker, Run(w) PROVE LocalTypes'
  <2>1. CASE Begin(w)
    BY <1>0, <2>1 DEF Begin, LocalTypes, Goto, Chosen, Claimable, Succeeded
  <2>2. CASE Boundary(w)
    BY <1>0, <2>2 DEF Boundary, LocalTypes, Goto, Plan
  <2>3. CASE StartStage(w) \/ RecordFailure(w) \/ RecordSuccess(w) \/ ReadForFail(w)
    BY <1>0, <2>3 DEF StartStage, RecordFailure, RecordSuccess, ReadForFail, LocalTypes, Goto
  <2>4. CASE RunStage(w) \/ StageRaises(w)
    BY <1>0, <2>4 DEF RunStage, StageRaises, LocalTypes, Goto
  <2>5. CASE Renew(w)
    BY <1>0, <2>5 DEF Renew, LocalTypes, Goto, SessionOK, Session, Position, Plan
  <2>6. CASE RequeueJob(w) \/ FinishJob(w)
    BY <1>0, <2>6, ReturnTypes DEF RequeueJob, FinishJob
  <2>7. CASE LosesJob(w)
    BY <1>0, <2>7, RaiseTypes DEF LosesJob
  <2>8. CASE HandleException(w)
    <3>1. CASE status[held[w]] = "running"
      BY <1>0, <2>8, <3>1 DEF HandleException, LocalTypes, Goto
    <3>2. CASE status[held[w]] # "running"
      BY <1>0, <2>8, <3>2, LeaveTypes DEF HandleException
    <3> QED
      BY <3>1, <3>2
  <2> QED
    BY <1>1, <2>1, <2>2, <2>3, <2>4, <2>5, <2>6, <2>7, <2>8 DEF Run
<1>2. ASSUME NEW w \in Worker, Start(w) \/ Poll(w) \/ Beat(w) \/ BeatEnds(w) PROVE LocalTypes'
  BY <1>0, <1>2 DEF Start, Poll, Beat, BeatEnds, Goto, LocalTypes, localVars
<1>3. ASSUME NEW w \in Worker, Fault(w) PROVE LocalTypes'
  BY <1>0, <1>3, RaiseTypes, LeaveTypes DEF Fault, DatabaseError, Crash
<1>4. ASSUME NEW j \in Job, Submit(j) \/ CancelJob(j) \/ LeaseLapses(j) \/ LeaseStalls(j)
      PROVE LocalTypes'
  BY <1>0, <1>4 DEF Submit, CancelJob, LeaseLapses, LeaseStalls, localVars, LocalTypes
<1>5. CASE UNCHANGED workerVars
  BY <1>0, <1>5 DEF workerVars, localVars, LocalTypes
<1> QED
  BY <1>1, <1>2, <1>3, <1>4, <1>5 DEF WorkerNext
-----------------------------------------------------------------------------
\* What every step keeps of the rows, and of the rows worker v owns unless it is
\* v that acts on them.
RowFrame ==
    \A j \in Job :
        /\ status[j] # "absent" => status'[j] # "absent" /\ trigger'[j] = trigger[j]
        /\ published[j] > 0 => published'[j] > 0
        /\ \A i \in Plan : stage[j][i] = "succeeded" => stage'[j][i] = "succeeded"

OwnFrame(v) ==
    \A j \in Job : Owns(v, j)' =>
        /\ Owns(v, j)
        /\ attempts'[j] = attempts[j]
        /\ \A i \in Plan : stage'[j][i] = "succeeded" => stage[j][i] = "succeeded"

Same(v) ==
    /\ UNCHANGED <<pc[v], held[v], at[v], done[v], snap[v]>>
    /\ beating'[v] => beating[v]

\* A worker that does not act keeps its session.
LEMMA SessionFrame ==
  ASSUME WorkerTypeOK, NEW v \in Worker, Session(v), Same(v), RowFrame, OwnFrame(v)
  PROVE  Session(v)'
<1> USE DEF Busy, InStage, Same
<1>1. Passed(v)'
  BY ZenonT(40) DEF Session, Passed, RowFrame
<1>2. Unpassed(v)'
  <2> SUFFICES ASSUME (InStage(v) \/ pc[v] \in {"boundary", "renewing"}), Owns(v, held[v])',
                      NEW i \in Plan \ done[v],
                      i > at[v] \/ (i = at[v] /\ pc[v] # "renewing")
               PROVE  stage'[held[v]][i] # "succeeded"
    BY DEF Unpassed, Plan
  <2>1. held[v] \in Job /\ held'[v] = held[v]
    BY DEF Session, Passed
  <2>2. status'[held[v]] = "running" /\ owner'[held[v]] = v
    BY <2>1 DEF Owns
  <2>3. Owns(v, held[v]) /\ (stage'[held[v]][i] = "succeeded" => stage[held[v]][i] = "succeeded")
    BY ZenonT(40), <2>1, <2>2 DEF OwnFrame, Owns
  <2> QED
    BY <2>3 DEF Session, Unpassed
<1>3. Position(v)'
  <2>1. pc[v] = "renewing" => stage'[held[v]][at[v]] = "succeeded"
    BY DEF Session, Passed, Position, RowFrame
  <2> QED
    BY <2>1 DEF Session, Position
<1>4. Evidence(v)'
  BY ZenonT(40) DEF Session, Passed, Fresh, Evidence, RowFrame, OwnFrame, Publishes, Plan
<1>5. Fresh(v)'
  BY DEF Session, Fresh
<1> QED
  BY <1>1, <1>2, <1>3, <1>4, <1>5 DEF Session

\* A worker that is not in run_once has nothing to keep.
LEMMA SessionOver ==
  ASSUME NEW v \in Worker, pc'[v] \in {"stopped", "ended", "idle"}, at'[v] = 1, snap'[v] = "none",
         ~beating'[v]
  PROVE  Session(v)'
  BY DEF Session, Passed, Unpassed, Position, Evidence, Busy, InStage, Fresh

\* Queue steps of the environment and of other workers.
LEMMA EnvironmentFrame ==
  ASSUME WorkerTypeOK, OwnershipOK, RowsOK, NEW j \in Job, UNCHANGED published,
         \/ \E t \in Requests : Enqueue(j, t)
         \/ Cancel(j)
         \/ LeaseExpires(j)
         \/ \E w \in Worker : Heartbeat(w, j)
  PROVE  RowFrame /\ (\A v \in Worker : OwnFrame(v)) /\ RowsOK'
<1> USE DEF WorkerTypeOK, TypeOK
<1>1. CASE \E t \in Requests : Enqueue(j, t)
  <2>1. status[j] = "absent" /\ stage' = stage /\ Stages \in Plan
    BY <1>1 DEF Enqueue, Plan
  <2>2. RowFrame /\ \A v \in Worker : OwnFrame(v)
    BY <1>1 DEF Enqueue, RowFrame, OwnFrame, Owns
  <2>3. RowsOK'
    BY <1>1, <2>1 DEF Enqueue, RowsOK
  <2> QED
    BY <2>2, <2>3
<1>2. CASE Cancel(j)
  BY <1>2 DEF Cancel, CancelQueued, CancelRunning, RowFrame, OwnFrame, Owns, RowsOK
<1>3. CASE LeaseExpires(j)
  BY <1>3 DEF LeaseExpires, RowFrame, OwnFrame, Owns, RowsOK
<1>4. CASE \E w \in Worker : Heartbeat(w, j)
  BY <1>4 DEF Heartbeat, RowFrame, OwnFrame, Owns, RowsOK
<1> QED
  BY <1>1, <1>2, <1>3, <1>4

\* claim() touches no succeeded stage and no row another worker keeps.
LEMMA ClaimFrame ==
  ASSUME WorkerTypeOK, OwnershipOK, RowsOK, NEW w \in Worker, Claim(w), UNCHANGED published
  PROVE  /\ RowFrame
         /\ \A v \in Worker : v # w \/ Chosen(w) = {} => OwnFrame(v)
         /\ RowsOK'
<1> USE DEF WorkerTypeOK, TypeOK
<1>1. \A j \in Chosen(w) : status[j] \in {"queued", "running"} /\ j \notin Abandoned
  BY ChosenIsClaimable DEF Claimable
<1>2. \A j \in Job, i \in Plan : stage'[j][i] = "succeeded" <=> stage[j][i] = "succeeded"
  BY DEF Claim
<1>3. \A j \in Job : status[j] = "absent" =>
         attempts'[j] = attempts[j] /\ \A i \in Plan : stage'[j][i] = stage[j][i]
  BY <1>1 DEF Claim, Abandoned
<1>4. RowFrame
  BY <1>1, <1>2 DEF Claim, RowFrame
<1>5. ASSUME NEW v \in Worker, v # w \/ Chosen(w) = {} PROVE OwnFrame(v)
  BY <1>2, <1>5 DEF Claim, OwnFrame, Owns
<1>6. RowsOK'
  <2>1. \A j \in Job : status'[j] = "absent" => status[j] = "absent"
    BY DEF Claim
  <2>2. \A j \in Job : status'[j] = "queued" => status[j] = "queued" /\ attempts'[j] = attempts[j]
    BY DEF Claim
  <2>3. \A j \in Job : status'[j] = "succeeded" => status[j] = "succeeded"
    BY DEF Claim
  <2>4. \A j \in Job : runId'[j] = runId[j] /\ trigger'[j] = trigger[j]
    BY DEF Claim
  <2>5. Stages \in Plan
    BY DEF Plan
  <2> QED
    BY <1>2, <1>3, <2>1, <2>2, <2>3, <2>4, <2>5 DEF RowsOK
<1> QED
  BY <1>4, <1>5, <1>6

\* set_stage() by the owner, who never re-opens a succeeded stage.
LEMMA SetStageFrame ==
  ASSUME WorkerTypeOK, OwnershipOK, RowsOK, NEW w \in Worker, NEW j \in Job, NEW i \in Plan,
         NEW s \in {"running", "succeeded", "failed"}, SetStage(w, j, i, s),
         stage[j][i] # "succeeded", UNCHANGED published,
         s = "succeeded" /\ Publishes(j, i) => published[j] > 0
  PROVE  /\ RowFrame
         /\ \A v \in Worker : v # w => OwnFrame(v)
         /\ RowsOK'
         /\ stage'[j][i] = s
         /\ \A n \in Plan : n # i => stage'[j][n] = stage[j][n]
<1> USE DEF WorkerTypeOK, TypeOK, columns
<1>1. stage' = [stage EXCEPT ![j][i] = s] /\ status[j] = "running" /\ owner[j] = w
  BY DEF SetStage, Owns
<1>2. stage'[j] = [stage[j] EXCEPT ![i] = s]
  BY <1>1
<1>3. \A k \in Job, n \in Plan : k # j \/ n # i => stage'[k][n] = stage[k][n]
  BY <1>1, <1>2
<1>4. RowFrame
  BY <1>1, <1>2, <1>3 DEF SetStage, RowFrame
<1>5. ASSUME NEW v \in Worker, v # w PROVE OwnFrame(v)
  BY <1>1, <1>3, <1>5 DEF SetStage, OwnFrame, Owns
<1>6. RowsOK'
  BY <1>1, <1>2, <1>3 DEF SetStage, RowsOK, Publishes, Plan
<1> QED
  BY <1>2, <1>3, <1>4, <1>5, <1>6

\* _finish() and the retry branch of fail(), by the owner.
LEMMA ReleaseFrame ==
  ASSUME WorkerTypeOK, OwnershipOK, RowsOK, NEW w \in Worker, NEW j \in Job, UNCHANGED published,
         \/ Requeue(w, j) /\ attempts[j] < MaxAttempts
         \/ \E outcome \in Terminal, id \in RunId :
              /\ Finish(w, j, outcome, id)
              /\ outcome = "succeeded" => \A i \in Plan : stage[j][i] = "succeeded"
              /\ id = "published" => published[j] > 0
  PROVE  RowFrame /\ (\A v \in Worker : OwnFrame(v)) /\ RowsOK'
<1> USE DEF WorkerTypeOK, TypeOK
<1>1. CASE Requeue(w, j) /\ attempts[j] < MaxAttempts
  BY <1>1 DEF Requeue, Owns, RowFrame, OwnFrame, RowsOK
<1>2. ASSUME NEW outcome \in Terminal, NEW id \in RunId, Finish(w, j, outcome, id),
             outcome = "succeeded" => \A i \in Plan : stage[j][i] = "succeeded",
             id = "published" => published[j] > 0
      PROVE  RowFrame /\ (\A v \in Worker : OwnFrame(v)) /\ RowsOK'
  BY <1>2 DEF Finish, Owns, RowFrame, OwnFrame, RowsOK, Terminal
<1> QED
  BY <1>1, <1>2

\* Steps that leave the table alone; publishing a snapshot is one of them.
LEMMA LocalFrame ==
  ASSUME WorkerTypeOK, RowsOK, UNCHANGED vars, \A j \in Job : published[j] > 0 => published'[j] > 0
  PROVE  RowFrame /\ (\A v \in Worker : OwnFrame(v)) /\ RowsOK'
  BY DEF vars, RowFrame, OwnFrame, Owns, RowsOK
-----------------------------------------------------------------------------
\* What one step of worker w establishes.
Good(w) ==
    /\ RowFrame
    /\ RowsOK'
    /\ \A v \in Worker : v # w => OwnFrame(v) /\ Same(v)
    /\ Session(w)'

LEMMA BeginStep ==
  ASSUME WorkerInv, NEW w \in Worker, Begin(w)
  PROVE  Good(w)
<1> USE DEF WorkerInv
<1>1. PICK j \in Chosen(w), next \in {"boundary", "failing"} :
         /\ held' = [held EXCEPT ![w] = j]
         /\ done' = [done EXCEPT ![w] = Succeeded(j)]
         /\ Goto(w, next)
  BY DEF Begin
<1>2. j \in Job /\ Claim(w) /\ pc[w] = "idle" /\ UNCHANGED <<at, snap, published>>
  BY DEF Begin, Chosen, Claimable
<1>3. RowFrame /\ RowsOK' /\ \A v \in Worker : v # w => OwnFrame(v)
  BY <1>2, ClaimFrame
<1>4. \A v \in Worker : v # w => Same(v)
  <2>1. beating' = [beating EXCEPT ![w] = TRUE]
    BY DEF Begin
  <2> QED
    BY <1>1, <1>2, <2>1 DEF WorkerTypeOK, Goto, Same
<1>5. held'[w] = j /\ done'[w] = Succeeded(j) /\ pc'[w] = next /\ at'[w] = at[w] /\ snap'[w] = snap[w]
  BY <1>1, <1>2 DEF WorkerTypeOK, Goto
<1>6. at[w] = 1 /\ snap[w] = "none"
  BY <1>2 DEF SessionOK, Session, Position, Evidence, Busy, Fresh
<1>7. status'[j] = "running" /\ stage'[j] = stage[j]
  <2>1. j \notin Abandoned
    BY <1>1, ChosenIsClaimable
  <2> QED
    BY <1>1, <1>2, <2>1 DEF Claim, WorkerTypeOK, TypeOK, Plan
<1>8. Passed(w)' /\ Unpassed(w)'
  BY <1>2, <1>5, <1>6, <1>7 DEF Passed, Unpassed, InStage, Succeeded, Plan
<1>9. Position(w)' /\ Evidence(w)' /\ Fresh(w)'
  BY <1>5, <1>6 DEF Position, Evidence, Fresh, Busy, InStage
<1> QED
  BY <1>3, <1>4, <1>8, <1>9 DEF Good, Session

LEMMA BoundaryStep ==
  ASSUME WorkerInv, NEW w \in Worker, Boundary(w)
  PROVE  Good(w)
<1> USE DEF WorkerInv
<1>1. pc[w] = "boundary" /\ UNCHANGED vars /\ UNCHANGED <<held, done, snap, published>>
  BY DEF Boundary
<1>2. RowFrame /\ RowsOK' /\ \A v \in Worker : OwnFrame(v)
  BY <1>1, LocalFrame
<1>3. \A v \in Worker : v # w => Same(v)
  BY <1>1 DEF Boundary, WorkerTypeOK, Goto, Same
<1>4. Passed(w) /\ Unpassed(w) /\ Evidence(w)
  BY DEF SessionOK, Session
<1>5. /\ status' = status /\ stage' = stage /\ owner' = owner /\ attempts' = attempts
      /\ held'[w] = held[w] /\ done'[w] = done[w] /\ snap'[w] = snap[w] /\ trigger' = trigger
      /\ published' = published
  BY <1>1 DEF vars
<1>6. CASE CancellationRequested(w, held[w]) /\ Goto(w, "interrupted") /\ UNCHANGED at
  <2>1. pc'[w] = "interrupted" /\ at'[w] = at[w]
    BY <1>6 DEF WorkerTypeOK, Goto
  <2> QED
    BY <1>1, <1>2, <1>3, <1>4, <1>5, <2>1
    DEF Good, Session, Passed, Unpassed, Position, Evidence, Busy, InStage, Fresh
<1>7. CASE at[w] \in done[w] /\ at' = [at EXCEPT ![w] = @ + 1] /\ UNCHANGED pc
  <2>1. pc'[w] = "boundary" /\ at'[w] = at[w] + 1 /\ at[w] \in Plan
    BY <1>1, <1>7 DEF WorkerTypeOK
  <2>2. Passed(w)'
    BY <1>1, <1>4, <1>5, <1>7, <2>1 DEF Passed, Busy, Plan
  <2>3. Unpassed(w)'
    BY <1>1, <1>4, <1>5, <1>7, <2>1 DEF Unpassed, Owns, InStage, Plan
  <2>4. Position(w)' /\ Evidence(w)' /\ Fresh(w)'
    BY <1>1, <1>4, <1>5, <2>1 DEF Position, Evidence, InStage, Busy, Fresh
  <2> QED
    BY <1>2, <1>3, <2>2, <2>3, <2>4 DEF Good, Session
<1>8. CASE at[w] \in Plan \ done[w] /\ Goto(w, "starting") /\ UNCHANGED at
  <2>1. pc'[w] = "starting" /\ at'[w] = at[w]
    BY <1>8 DEF WorkerTypeOK, Goto
  <2> QED
    BY <1>1, <1>2, <1>3, <1>4, <1>5, <1>8, <2>1
    DEF Good, Session, Passed, Unpassed, Position, Evidence, Busy, InStage, Owns, Fresh
<1>9. CASE at[w] > Stages /\ Goto(w, "succeeded") /\ UNCHANGED at
  <2>1. pc'[w] = "succeeded" /\ at'[w] = at[w] /\ at[w] = Stages + 1
    BY <1>9 DEF WorkerTypeOK, Goto
  <2> QED
    BY <1>1, <1>2, <1>3, <1>4, <1>5, <2>1
    DEF Good, Session, Passed, Unpassed, Position, Evidence, Busy, InStage, Fresh
<1> QED
  BY <1>6, <1>7, <1>8, <1>9 DEF Boundary

\* The set_stage() calls around a stage.
LEMMA RecordStep ==
  ASSUME WorkerInv, NEW w \in Worker,
         StartStage(w) \/ RecordFailure(w) \/ RecordSuccess(w)
  PROVE  Good(w)
<1> USE DEF WorkerInv
<1> DEFINE j == held[w]
<1>1. PICK s \in {"running", "succeeded", "failed"} :
         /\ SetStage(w, j, at[w], s)
         /\ \/ s = "running" /\ Goto(w, "running")
            \/ s = "succeeded" /\ Goto(w, "renewing") /\ pc[w] = "recording"
            \/ s = "failed" /\ Goto(w, "failing")
  BY DEF StartStage, RecordFailure, RecordSuccess
<1>2. InStage(w) /\ UNCHANGED <<held, at, done, snap, published>>
  BY DEF StartStage, RecordFailure, RecordSuccess, InStage
<1>3. Passed(w) /\ Unpassed(w) /\ Position(w) /\ Evidence(w)
  BY DEF SessionOK, Session
<1>4. j \in Job /\ at[w] \in Plan \ done[w] /\ Owns(w, j)
  BY <1>1, <1>2, <1>3 DEF Passed, Position, Busy, InStage, SetStage
<1>5. stage[j][at[w]] # "succeeded"
  BY <1>2, <1>3, <1>4 DEF Unpassed, InStage
<1>6. s = "succeeded" /\ Publishes(j, at[w]) => published[j] > 0
  BY <1>1, <1>3 DEF Evidence
<1>7. /\ RowFrame
      /\ RowsOK'
      /\ \A v \in Worker : v # w => OwnFrame(v)
      /\ stage'[j][at[w]] = s
      /\ \A n \in Plan : n # at[w] => stage'[j][n] = stage[j][n]
  <2>1. SetStage(w, j, at[w], s) /\ at[w] \in Plan /\ UNCHANGED published
    BY <1>1, <1>2, <1>4
  <2> HIDE DEF j
  <2> QED
    BY <1>4, <1>5, <1>6, <2>1, SetStageFrame
<1>8. \A v \in Worker : v # w => Same(v)
  <2>1. UNCHANGED beating
    BY DEF StartStage, RecordFailure, RecordSuccess
  <2> QED
    BY <1>1, <1>2, <2>1 DEF WorkerTypeOK, Goto, Same
<1>9. /\ held'[w] = j /\ at'[w] = at[w] /\ done'[w] = done[w] /\ snap'[w] = snap[w]
      /\ published' = published
  BY <1>2
<1>10. status' = status
  BY <1>1 DEF SetStage, columns
<1>11. \/ s = "running" /\ pc'[w] = "running"
       \/ s = "succeeded" /\ pc'[w] = "renewing"
       \/ s = "failed" /\ pc'[w] = "failing"
  BY <1>1 DEF WorkerTypeOK, Goto
<1>12. Passed(w)'
  BY <1>2, <1>3, <1>4, <1>7, <1>9, <1>10 DEF Passed, Busy, InStage, Plan
<1>13. Unpassed(w)'
  BY <1>2, <1>3, <1>4, <1>5, <1>7, <1>9, <1>11 DEF Unpassed, InStage, Plan
<1>14. Position(w)' /\ Fresh(w)'
  BY <1>4, <1>7, <1>9, <1>11 DEF Position, Fresh, InStage, Busy
<1>15. Evidence(w)'
  BY <1>3, <1>9, <1>11 DEF Evidence
<1> QED
  BY <1>7, <1>8, <1>12, <1>13, <1>14, <1>15 DEF Good, Session

LEMMA StageStep ==
  ASSUME WorkerInv, NEW w \in Worker, RunStage(w) \/ StageRaises(w)
  PROVE  Good(w)
<1> USE DEF WorkerInv
<1>1. /\ pc[w] = "running" /\ UNCHANGED vars /\ UNCHANGED <<held, at, done>>
      /\ \/ Goto(w, "stagefail") /\ UNCHANGED <<snap, published>>
         \/ Goto(w, "recording")
  BY DEF RunStage, StageRaises
<1>2. Passed(w) /\ Unpassed(w) /\ Position(w) /\ Evidence(w)
  BY DEF SessionOK, Session
<1>3. held[w] \in Job /\ at[w] \in Plan \ done[w]
  BY <1>1, <1>2 DEF Passed, Position, Busy, InStage
<1>4. /\ \A j \in Job : published[j] > 0 => published'[j] > 0
      /\ pc'[w] = "recording" /\ Publishes(held[w], at[w]) => published'[held[w]] > 0
      /\ snap'[w] = "published" => published'[held[w]] > 0
      /\ \A v \in Worker : v # w => snap'[v] = snap[v]
  <2>1. CASE StageRaises(w)
    BY <1>2, <2>1 DEF StageRaises, Goto, WorkerTypeOK, Evidence
  <2>2. CASE RunStage(w) /\ ~Publishes(held[w], at[w])
    BY <1>2, <2>2 DEF RunStage, Evidence
  <2>3. CASE RunStage(w) /\ Publishes(held[w], at[w])
    <3>1. /\ published' = [published EXCEPT ![held[w]] = IF @ < 2 THEN @ + 1 ELSE @]
          /\ snap' = [snap EXCEPT ![w] = "published"]
      BY <2>3 DEF RunStage
    <3>4. published[held[w]] \in 0..2 /\ published \in [Job -> 0..2]
      BY <1>3 DEF WorkerTypeOK
    <3>5. published'[held[w]] > 0
      BY <1>3, <3>1, <3>4
    <3>2. \A j \in Job : published[j] > 0 => published'[j] > 0
      BY <3>1, <3>4, <3>5
    <3>3. \A v \in Worker : v # w => snap'[v] = snap[v]
      BY <3>1 DEF WorkerTypeOK
    <3> QED
      BY <3>5, <3>2, <3>3
  <2> QED
    BY <2>1, <2>2, <2>3
<1>5. RowFrame /\ RowsOK' /\ \A v \in Worker : OwnFrame(v)
  BY <1>1, <1>4, LocalFrame
<1>6. \A v \in Worker : v # w => Same(v)
  <2>1. UNCHANGED beating
    BY DEF RunStage, StageRaises
  <2> QED
    BY <1>1, <1>4, <2>1 DEF WorkerTypeOK, Goto, Same
<1>7. /\ pc'[w] \in {"stagefail", "recording"}
      /\ held'[w] = held[w] /\ at'[w] = at[w] /\ done'[w] = done[w]
      /\ status' = status /\ stage' = stage /\ owner' = owner /\ trigger' = trigger
  BY <1>1 DEF WorkerTypeOK, Goto, vars
<1>8. Passed(w)' /\ Unpassed(w)'
  BY <1>1, <1>2, <1>7 DEF Passed, Unpassed, Owns, Busy, InStage
<1>9. Position(w)' /\ Fresh(w)'
  BY <1>3, <1>7 DEF Position, Fresh, InStage, Busy
<1>10. Evidence(w)'
  BY <1>4, <1>7 DEF Evidence, Publishes
<1> QED
  BY <1>5, <1>6, <1>8, <1>9, <1>10 DEF Good, Session

LEMMA RenewStep ==
  ASSUME WorkerInv, NEW w \in Worker, Renew(w)
  PROVE  Good(w)
<1> USE DEF WorkerInv
<1>1. Passed(w) /\ Unpassed(w) /\ Position(w) /\ Evidence(w) /\ pc[w] = "renewing"
  BY DEF SessionOK, Session, Renew
<1>2. held[w] \in Job /\ at[w] \in Plan /\ stage[held[w]][at[w]] = "succeeded"
  BY <1>1 DEF Passed, Position, Busy
<1>3. /\ Heartbeat(w, held[w])
      /\ UNCHANGED <<held, done, snap, published, status, stage, owner, attempts, trigger>>
  BY DEF Renew, Heartbeat
<1>4. RowFrame /\ RowsOK' /\ \A v \in Worker : OwnFrame(v)
  BY <1>2, <1>3, EnvironmentFrame
<1>5. /\ \A v \in Worker : v # w => Same(v)
      /\ pc'[w] = "boundary" /\ at'[w] = at[w] + 1
  BY <1>3 DEF Renew, WorkerTypeOK, Goto, Same
<1>6. Passed(w)'
  BY <1>1, <1>2, <1>3, <1>5 DEF Passed, Busy, Plan
<1>7. Unpassed(w)'
  BY <1>1, <1>2, <1>3, <1>5 DEF Unpassed, Owns, InStage, Plan
<1>8. Position(w)' /\ Evidence(w)' /\ Fresh(w)'
  BY <1>1, <1>3, <1>5 DEF Position, Evidence, Fresh, InStage, Busy
<1> QED
  BY <1>4, <1>5, <1>6, <1>7, <1>8 DEF Good, Session

\* run_once is over for w; the table may have changed, but not under the others.
LEMMA LeaveGood ==
  ASSUME WorkerInv, NEW w \in Worker, NEW label \in {"stopped", "ended", "idle"}, Leave(w, label),
         RowFrame, RowsOK', \A v \in Worker : OwnFrame(v)
  PROVE  Good(w)
<1>1. \A v \in Worker : v # w => Same(v)
  BY DEF WorkerInv, WorkerTypeOK, Leave, Goto, Same
<1>2. Session(w)'
  BY SessionOver DEF WorkerInv, WorkerTypeOK, Leave, Goto
<1> QED
  BY <1>1, <1>2 DEF Good

\* The steps in and around fail() and the exception handler.
LEMMA FailStep ==
  ASSUME WorkerInv, NEW w \in Worker,
         \/ ReadForFail(w)
         \/ LosesJob(w) \/ DatabaseError(w) \/ HandleException(w) \/ Crash(w)
  PROVE  Good(w)
<1> USE DEF WorkerInv
<1>1. UNCHANGED vars /\ UNCHANGED published
  BY DEF ReadForFail, LosesJob, DatabaseError, HandleException, Crash
<1>2. RowFrame /\ RowsOK' /\ \A v \in Worker : OwnFrame(v)
  BY <1>1, LocalFrame
<1>3. CASE Leave(w, "stopped") \/ Leave(w, "ended")
  BY <1>2, <1>3, LeaveGood
<1>4. CASE /\ Goto(w, "raising") \/ Goto(w, "failing") \/ ReadForFail(w)
           /\ UNCHANGED <<held, at, done, snap, beating>>
           /\ pc[w] \notin {"stopped", "ended", "idle"}
  <2>1. Passed(w) /\ Evidence(w)
    BY DEF SessionOK, Session
  <2>2. /\ pc'[w] \in {"raising", "failing", "interrupted", "failed", "requeue"}
        /\ pc'[w] = "requeue" => attempts[held[w]] < MaxAttempts
    BY <1>4 DEF ReadForFail, Goto, WorkerTypeOK
  <2>3. \A v \in Worker : v # w => Same(v)
    BY <1>4 DEF ReadForFail, Goto, WorkerTypeOK, Same
  <2>4. status' = status /\ stage' = stage /\ owner' = owner /\ attempts' = attempts
    BY <1>1 DEF vars
  <2>5. Passed(w)' /\ Unpassed(w)'
    BY <1>4, <2>1, <2>2, <2>4 DEF Passed, Unpassed, Busy, InStage
  <2>6. Position(w)' /\ Evidence(w)' /\ Fresh(w)'
    BY <1>1, <1>4, <2>1, <2>2, <2>4 DEF Position, Evidence, Fresh, Busy, InStage
  <2> QED
    BY <1>2, <2>3, <2>5, <2>6 DEF Good, Session
<1>5. CASE ReadForFail(w)
  BY <1>4, <1>5 DEF ReadForFail
<1>6. CASE LosesJob(w) \/ DatabaseError(w)
  <2>1. Raise(w) /\ pc[w] \notin {"stopped", "ended"}
    BY <1>6 DEF LosesJob, DatabaseError, Transactions, Terminal
  <2> QED
    BY <1>3, <1>4, <2>1 DEF Raise
<1>7. CASE HandleException(w)
  BY <1>3, <1>4, <1>7 DEF HandleException
<1>8. CASE Crash(w)
  BY <1>3, <1>8 DEF Crash
<1> QED
  BY <1>5, <1>6, <1>7, <1>8

\* The transaction that ends run_once's hold on the job.
LEMMA ReleaseStep ==
  ASSUME WorkerInv, NEW w \in Worker, RequeueJob(w) \/ FinishJob(w)
  PROVE  Good(w)
<1> USE DEF WorkerInv
<1>1. Passed(w) /\ Position(w) /\ Evidence(w)
  BY DEF SessionOK, Session
<1>2. held[w] \in Job /\ UNCHANGED published /\ Return(w)
  BY <1>1 DEF RequeueJob, FinishJob, Passed, Busy, Terminal
<1>3. RowFrame /\ RowsOK' /\ \A v \in Worker : OwnFrame(v)
  <2>1. CASE RequeueJob(w)
    <3>1. Requeue(w, held[w]) /\ attempts[held[w]] < MaxAttempts
      BY <1>1, <2>1 DEF RequeueJob, Requeue, Evidence
    <3> QED
      BY <1>2, <3>1, ReleaseFrame
  <2>2. CASE FinishJob(w)
    <3>1. pc[w] \in Terminal /\ FinishId(w) \in RunId /\ Finish(w, held[w], pc[w], FinishId(w))
      BY <2>2 DEF FinishJob, FinishId, RunId
    <3>2. pc[w] = "succeeded" => \A i \in Plan : stage[held[w]][i] = "succeeded"
      BY <1>1 DEF Passed, Position, Busy, Plan
    <3>3. FinishId(w) = "published" => published[held[w]] > 0
      BY <1>1 DEF FinishId, Evidence
    <3> QED
      BY <1>2, <3>1, <3>2, <3>3, ReleaseFrame
  <2> QED
    BY <2>1, <2>2
<1> QED
  BY <1>2, <1>3, LeaveGood DEF Return

\* Steps of w that leave run_once where it is.
LEMMA BackgroundStep ==
  ASSUME WorkerInv, NEW w \in Worker, Start(w) \/ Poll(w) \/ Beat(w) \/ BeatEnds(w)
  PROVE  Good(w)
<1> USE DEF WorkerInv
<1>1. UNCHANGED <<held, at, done, snap, published>>
  BY DEF Start, Poll, Beat, BeatEnds, localVars
<1>2. RowFrame /\ RowsOK' /\ \A v \in Worker : OwnFrame(v)
  <2>1. CASE Start(w) \/ BeatEnds(w)
    BY <1>1, <2>1, LocalFrame DEF Start, BeatEnds
  <2>2. CASE Poll(w)
    BY <1>1, <2>2, ClaimFrame DEF Poll
  <2>3. CASE Beat(w)
    <3>1. Heartbeat(w, held[w]) /\ held[w] \in Job
      BY <2>3 DEF Beat, SessionOK, Session, Fresh, Passed
    <3> QED
      BY <1>1, <3>1, EnvironmentFrame
  <2> QED
    BY <2>1, <2>2, <2>3
<1>3. CASE Start(w)
  <2>1. \A v \in Worker : v # w => Same(v)
    BY <1>1, <1>3 DEF Start, Goto, WorkerTypeOK, Same
  <2>2. at'[w] = 1 /\ snap'[w] = "none" /\ pc'[w] = "idle" /\ ~beating'[w]
    BY <1>1, <1>3 DEF Start, Goto, WorkerTypeOK, SessionOK, Session, Fresh, Busy
  <2> QED
    BY <1>2, <2>1, <2>2, SessionOver DEF Good
<1>4. CASE Poll(w) \/ Beat(w) \/ BeatEnds(w)
  <2>1. \A v \in Worker : Same(v)
    BY <1>1, <1>4 DEF Poll, Beat, BeatEnds, localVars, WorkerTypeOK, Same
  <2> QED
    BY <1>2, <2>1, SessionFrame DEF Good, SessionOK
<1> QED
  BY <1>3, <1>4
-----------------------------------------------------------------------------
LEMMA ActorStep ==
  ASSUME WorkerInv, NEW w \in Worker,
         Start(w) \/ Poll(w) \/ Run(w) \/ Fault(w) \/ Beat(w) \/ BeatEnds(w)
  PROVE  Good(w)
  BY BeginStep, BoundaryStep, RecordStep, StageStep, RenewStep, FailStep, ReleaseStep,
     BackgroundStep
  DEF Run, Fault

LEMMA SessionStep ==
  ASSUME WorkerInv, [WorkerNext]_workerVars
  PROVE  SessionOK' /\ RowsOK'
<1> USE DEF WorkerInv
<1>1. ASSUME NEW w \in Worker,
             Start(w) \/ Poll(w) \/ Run(w) \/ Fault(w) \/ Beat(w) \/ BeatEnds(w)
      PROVE  SessionOK' /\ RowsOK'
  <2>1. Good(w)
    BY <1>1, ActorStep
  <2>2. ASSUME NEW v \in Worker, v # w PROVE Session(v)'
    BY <2>1, <2>2, SessionFrame DEF Good, SessionOK
  <2> QED
    BY <2>1, <2>2 DEF Good, SessionOK
<1>2. ASSUME UNCHANGED localVars, RowFrame, RowsOK', \A v \in Worker : OwnFrame(v)
      PROVE  SessionOK' /\ RowsOK'
  <2>1. \A v \in Worker : Same(v)
    BY <1>2 DEF localVars, Same
  <2> QED
    BY <1>2, <2>1, SessionFrame DEF SessionOK
<1>3. ASSUME NEW j \in Job, Submit(j) \/ CancelJob(j) \/ LeaseLapses(j) \/ LeaseStalls(j)
      PROVE  SessionOK' /\ RowsOK'
  <2>1. /\ UNCHANGED published /\ UNCHANGED localVars
        /\ (\E t \in Requests : Enqueue(j, t)) \/ Cancel(j) \/ LeaseExpires(j)
    BY <1>3 DEF Submit, CancelJob, LeaseLapses, LeaseStalls
  <2> QED
    BY <1>2, <2>1, EnvironmentFrame
<1>4. CASE UNCHANGED workerVars
  <2>1. UNCHANGED vars /\ UNCHANGED published /\ UNCHANGED localVars
    BY <1>4 DEF workerVars
  <2> QED
    BY <1>2, <2>1, LocalFrame
<1> QED
  BY <1>1, <1>3, <1>4 DEF WorkerNext

\* Every step keeps the rows in the sense of RowFrame.
LEMMA RowFrameStep ==
  ASSUME WorkerInv, [WorkerNext]_workerVars
  PROVE  RowFrame
<1> USE DEF WorkerInv
<1>1. ASSUME NEW w \in Worker,
             Start(w) \/ Poll(w) \/ Run(w) \/ Fault(w) \/ Beat(w) \/ BeatEnds(w)
      PROVE  RowFrame
  BY <1>1, ActorStep DEF Good
<1>2. ASSUME NEW j \in Job, Submit(j) \/ CancelJob(j) \/ LeaseLapses(j) \/ LeaseStalls(j)
      PROVE  RowFrame
  BY <1>2, EnvironmentFrame DEF Submit, CancelJob, LeaseLapses, LeaseStalls
<1>3. CASE UNCHANGED workerVars
  <2>1. UNCHANGED vars /\ UNCHANGED published
    BY <1>3 DEF workerVars
  <2> QED
    BY <2>1, LocalFrame
<1> QED
  BY <1>1, <1>2, <1>3 DEF WorkerNext

\* Only a publish stage publishes.
LEMMA PublishesOnly ==
  ASSUME WorkerInv, [WorkerNext]_workerVars, NEW j \in Job, published'[j] # published[j]
  PROVE  \E w \in Worker : RunStage(w) /\ Publishes(held[w], at[w]) /\ held[w] = j
<1>1. published' # published
  OBVIOUS
<1>2. PICK w \in Worker : RunStage(w)
  BY <1>1 DEF WorkerNext, workerVars, Start, Poll, Run, Fault, DatabaseError, Crash, Beat, BeatEnds,
              Begin, Boundary, StartStage, StageRaises, RecordFailure, RecordSuccess, Renew,
              ReadForFail, RequeueJob, FinishJob, LosesJob, HandleException,
              Submit, CancelJob, LeaseLapses, LeaseStalls
<1>3. Publishes(held[w], at[w]) /\ held[w] = j
  BY <1>1, <1>2 DEF RunStage, WorkerInv, WorkerTypeOK
<1> QED
  BY <1>2, <1>3

\* Whatever the worker program and its environment do, the table takes a step
\* of the queue, or none.
LEMMA QueueSimulation ==
  ASSUME WorkerInv, [WorkerNext]_workerVars
  PROVE  [Next]_vars
<1> USE DEF WorkerInv
<1>1. ASSUME NEW w \in Worker, Start(w) \/ Poll(w) \/ Fault(w) \/ BeatEnds(w)
      PROVE  [Next]_vars
  BY <1>1 DEF Start, Poll, Fault, DatabaseError, Crash, BeatEnds, Next, OwnerNext
<1>2. ASSUME NEW w \in Worker, Beat(w) PROVE [Next]_vars
  <2>1. Heartbeat(w, held[w]) /\ held[w] \in Job
    BY <1>2 DEF Beat, SessionOK, Session, Fresh, Passed
  <2> QED
    BY <2>1 DEF Next, OwnerNext
<1>3. ASSUME NEW w \in Worker, Run(w) PROVE [Next]_vars
  <2>1. pc[w] \notin {"idle", "stopped", "ended"} => held[w] \in Job
    BY DEF SessionOK, Session, Passed, Busy
  <2>2. InStage(w) => at[w] \in Plan
    BY DEF SessionOK, Session, Position
  <2>3. CASE Begin(w)
    BY <2>3 DEF Begin, Next, OwnerNext
  <2>4. CASE Boundary(w) \/ RunStage(w) \/ StageRaises(w) \/ ReadForFail(w)
             \/ LosesJob(w) \/ HandleException(w)
    BY <2>4 DEF Boundary, RunStage, StageRaises, ReadForFail, LosesJob, HandleException
  <2>5. CASE StartStage(w) \/ RecordFailure(w) \/ RecordSuccess(w)
    <3>1. PICK s \in {"running", "succeeded", "failed"} : SetStage(w, held[w], at[w], s)
      BY <2>5 DEF StartStage, RecordFailure, RecordSuccess
    <3>2. held[w] \in Job /\ at[w] \in Plan
      BY <2>1, <2>2, <2>5 DEF StartStage, RecordFailure, RecordSuccess, InStage
    <3> QED
      BY <3>1, <3>2 DEF Next, OwnerNext
  <2>6. CASE Renew(w)
    BY <2>1, <2>6 DEF Renew, Next, OwnerNext
  <2>7. CASE RequeueJob(w)
    BY <2>1, <2>7 DEF RequeueJob, Next, OwnerNext
  <2>8. CASE FinishJob(w)
    <3>1. held[w] \in Job /\ Finish(w, held[w], pc[w], FinishId(w)) /\ pc[w] \in Terminal
      BY <2>1, <2>8 DEF FinishJob, Terminal
    <3>2. \/ pc[w] = "succeeded" /\ FinishId(w) \in {"published", "placeholder"}
          \/ pc[w] \in {"failed", "interrupted"} /\ FinishId(w) = "none"
      BY <3>1 DEF FinishId, Terminal
    <3> QED
      BY <3>1, <3>2 DEF Next, OwnerNext
  <2> QED
    BY <1>3, <2>3, <2>4, <2>5, <2>6, <2>7, <2>8 DEF Run
<1>4. ASSUME NEW j \in Job, Submit(j) \/ CancelJob(j) \/ LeaseLapses(j) \/ LeaseStalls(j)
      PROVE  [Next]_vars
  BY <1>4 DEF Submit, CancelJob, LeaseLapses, LeaseStalls, Next, ClientNext
<1>5. CASE UNCHANGED workerVars
  BY <1>5 DEF workerVars
<1> QED
  BY <1>1, <1>2, <1>3, <1>4, <1>5 DEF WorkerNext

LEMMA CounterStep ==
  ASSUME WorkerInv, [WorkerNext]_workerVars
  PROVE  /\ published' \in [Job -> 0..2]
         /\ errors' \in 0..MaxErrors /\ stalls' \in 0..MaxStalls /\ crashes' \in 0..MaxCrashes
<1> USE DEF WorkerInv, WorkerTypeOK, faults
<1>1. ASSUME NEW w \in Worker,
             Start(w) \/ Poll(w) \/ Fault(w) \/ Beat(w) \/ BeatEnds(w)
      PROVE  /\ published' \in [Job -> 0..2]
             /\ errors' \in 0..MaxErrors /\ stalls' \in 0..MaxStalls /\ crashes' \in 0..MaxCrashes
  BY <1>1 DEF Start, Poll, Fault, DatabaseError, Crash, Beat, BeatEnds
<1>2. ASSUME NEW w \in Worker, Run(w)
      PROVE  published' \in [Job -> 0..2] /\ UNCHANGED faults
  <2>1. CASE RunStage(w)
    BY <2>1 DEF RunStage
  <2>2. CASE ~RunStage(w)
    BY <1>2, <2>2 DEF Run, Begin, Boundary, StartStage, StageRaises, RecordFailure, RecordSuccess,
                      Renew, ReadForFail, RequeueJob, FinishJob, LosesJob, HandleException
  <2> QED
    BY <2>1, <2>2
<1>3. ASSUME NEW j \in Job, Submit(j) \/ CancelJob(j) \/ LeaseLapses(j) \/ LeaseStalls(j)
      PROVE  /\ published' \in [Job -> 0..2]
             /\ errors' \in 0..MaxErrors /\ stalls' \in 0..MaxStalls /\ crashes' \in 0..MaxCrashes
  BY <1>3 DEF Submit, CancelJob, LeaseLapses, LeaseStalls
<1>4. CASE UNCHANGED workerVars
  BY <1>4 DEF workerVars
<1> QED
  BY <1>1, <1>2, <1>3, <1>4 DEF WorkerNext

LEMMA WorkerInvInit == WorkerInit => WorkerInv
<1> SUFFICES ASSUME WorkerInit PROVE WorkerInv
  OBVIOUS
<1>1. TypeOK /\ OwnershipOK
  BY TypeInit DEF WorkerInit, Init, OwnershipOK, Terminal
<1>2. WorkerTypeOK
  BY <1>1 DEF WorkerInit, WorkerTypeOK, PC, Plan
<1>3. SessionOK
  BY DEF WorkerInit, SessionOK, Session, Passed, Unpassed, Position, Evidence, Fresh, Busy, InStage
<1>4. RowsOK
  <2>1. Stages \in Plan
    BY DEF Plan
  <2>2. \A j \in Job : /\ status[j] = "absent" /\ attempts[j] = 0 /\ runId[j] = "none"
                      /\ \A i \in Plan : stage[j][i] = "queued"
    BY DEF WorkerInit, Init
  <2> QED
    BY <2>1, <2>2 DEF RowsOK
<1> QED
  BY <1>1, <1>2, <1>3, <1>4 DEF WorkerInv

LEMMA WorkerInvStep == WorkerInv /\ [WorkerNext]_workerVars => WorkerInv'
<1> SUFFICES ASSUME WorkerInv, [WorkerNext]_workerVars PROVE WorkerInv'
  OBVIOUS
<1>1. TypeOK' /\ OwnershipOK'
  BY QueueSimulation, QueueTypeStep, OwnershipStep DEF WorkerInv, WorkerTypeOK, QueueInv
<1>2. LocalTypes'
  BY LocalTypeStep DEF WorkerInv
<1>3. WorkerTypeOK'
  BY <1>1, <1>2, CounterStep DEF WorkerTypeOK, LocalTypes
<1> QED
  BY <1>1, <1>3, SessionStep DEF WorkerInv

LEMMA WorkerInvariant == WorkerSpec => []WorkerInv
  BY WorkerInvInit, WorkerInvStep, PTL DEF WorkerSpec
-----------------------------------------------------------------------------
\* The program keeps every promise of the general queue, so the theorems of
\* JobQueue_proofs hold of it.
THEOREM WorkersImplementQueue == WorkerSpec => Spec
<1>1. WorkerInit => Init
  BY DEF WorkerInit
<1>2. WorkerInv /\ [WorkerNext]_workerVars => [Next]_vars
  BY QueueSimulation
<1> QED
  BY <1>1, <1>2, WorkerInvariant, PTL DEF WorkerSpec, Spec

THEOREM WorkerTypeCorrect == WorkerSpec => []WorkerTypeOK
  BY WorkerInvariant, PTL DEF WorkerInv

\* A job reported as succeeded has every stage of its plan behind it, whichever
\* workers ran them.
THEOREM SucceededJobsAreComplete == WorkerSpec => []SucceededIsComplete
<1>1. WorkerInv => SucceededIsComplete
  BY DEF WorkerInv, RowsOK, SucceededIsComplete
<1> QED
  BY <1>1, WorkerInvariant, PTL

\* A succeeded portfolio job has published, and a snapshot id is never invented.
THEOREM SucceededJobsPublished == WorkerSpec => []SucceededPublished
<1>1. WorkerInv => SucceededPublished
  <2>1. Stages \in Plan
    BY DEF Plan
  <2> QED
    BY <2>1 DEF WorkerInv, RowsOK, SucceededPublished
<1> QED
  BY <1>1, WorkerInvariant, PTL

\* No job waits for more attempts than it may have.
THEOREM RetriesAreBounded == WorkerSpec => []RetryBudget
<1>1. WorkerInv => RetryBudget
  BY DEF WorkerInv, RowsOK, RetryBudget
<1> QED
  BY <1>1, WorkerInvariant, PTL

\* A stage that succeeded is never run again, also under lost leases.
THEOREM SucceededStagesStick == WorkerSpec => StagesStick
<1>1. WorkerInv /\ [WorkerNext]_workerVars =>
        [\A j \in Job, i \in Plan : stage[j][i] = "succeeded" => stage'[j][i] = "succeeded"]_workerVars
  BY RowFrameStep DEF RowFrame
<1> QED
  BY <1>1, WorkerInvariant, PTL DEF WorkerSpec, StagesStick

\* No snapshot is published before the stages that feed it have succeeded.
THEOREM PublicationsComeLast == WorkerSpec => PublishesAfterStages
<1>1. ASSUME WorkerInv, [WorkerNext]_workerVars, NEW j \in Job, published'[j] # published[j]
      PROVE  \A i \in 1..(Stages - 1) : stage[j][i] = "succeeded"
  <2>1. PICK w \in Worker : RunStage(w) /\ Publishes(held[w], at[w]) /\ held[w] = j
    BY <1>1, PublishesOnly
  <2> QED
    BY <1>1, <2>1 DEF WorkerInv, SessionOK, Session, Passed, Busy, RunStage, Publishes, Plan
<1>2. WorkerInv /\ [WorkerNext]_workerVars =>
        [\A j \in Job : published'[j] # published[j] =>
            \A i \in 1..(Stages - 1) : stage[j][i] = "succeeded"]_workerVars
  BY <1>1
<1> QED
  BY <1>2, WorkerInvariant, PTL DEF WorkerSpec, PublishesAfterStages

------------------------------------------------------------------------------
(*****************************************************************************)
(* Exclusive execution.  HoldOK says more than the property: a worker keeps  *)
(* the lease of its job alive from the claim to the last transaction, as     *)
(* its heartbeat thread does.                                                *)
(*****************************************************************************)
\* A worker that executes a job owns it, under a lease that its heartbeat thread renews.
Holds(w) ==
    Busy(w) => /\ held[w] \in Job /\ Owns(w, held[w]) /\ lease[held[w]] = "live"
               /\ beating[w] /\ pc[w] # "raising"
Undisturbed == stalls = 0 /\ errors = 0
HoldOK == Undisturbed => \A w \in Worker : Holds(w)

\* What the other workers have is left alone.
Untouched(v) ==
    /\ pc'[v] = pc[v] /\ held'[v] = held[v] /\ beating'[v] = beating[v]
    /\ Busy(v) => /\ status'[held[v]] = status[held[v]] /\ owner'[held[v]] = owner[held[v]]
                  /\ lease'[held[v]] \in {lease[held[v]], "live"}

LEMMA UntouchedHolds ==
  ASSUME NEW v \in Worker, Holds(v), Untouched(v)
  PROVE  Holds(v)'
  BY DEF Holds, Untouched, Busy, Owns

LEMMA LeftHolds ==
  ASSUME WorkerTypeOK, NEW w \in Worker, NEW label \in {"stopped", "ended", "idle"}, Leave(w, label)
  PROVE  /\ Holds(w)'
         /\ \A v \in Worker \ {w} : pc'[v] = pc[v] /\ held'[v] = held[v] /\ beating'[v] = beating[v]
  BY DEF WorkerTypeOK, Leave, Goto, Holds, Busy

\* The run_once of a worker that holds its job changes that job alone.
LEMMA ActorHolds ==
  ASSUME WorkerInv, NEW w \in Worker, \A v \in Worker : Holds(v),
         Run(w) \/ Start(w) \/ Poll(w) \/ Crash(w) \/ Beat(w)
  PROVE  \A v \in Worker : Holds(v)'
<1> USE DEF WorkerInv
<1>1. TypeOK /\ WorkerTypeOK /\ pc \in [Worker -> PC] /\ held \in [Worker -> Job \cup {NoJob}] /\ beating \in [Worker -> BOOLEAN]
  BY DEF WorkerTypeOK
<1>2. \A v \in Worker \ {w} : Busy(v) /\ Busy(w) => held[v] # held[w]
  BY DEF Holds, Owns
<1>3. ASSUME \A v \in Worker \ {w} : Untouched(v), Holds(w)'
      PROVE  \A v \in Worker : Holds(v)'
  BY <1>3, UntouchedHolds
<1>4. ASSUME \A v \in Worker \ {w} : pc'[v] = pc[v] /\ held'[v] = held[v] /\ beating'[v] = beating[v],
             \/ status' = status /\ owner' = owner /\ lease' = lease
             \/ /\ Busy(w)
                /\ \A k \in Job \ {held[w]} : status'[k] = status[k] /\ owner'[k] = owner[k] /\ lease'[k] = lease[k]
      PROVE  \A v \in Worker \ {w} : Untouched(v)
  BY <1>2, <1>4 DEF Untouched, Holds
<1>5. ASSUME Claim(w) PROVE \A v \in Worker : Busy(v) =>
             status'[held[v]] = status[held[v]] /\ owner'[held[v]] = owner[held[v]] /\ lease'[held[v]] = lease[held[v]]
  <2>1. \A v \in Worker : Busy(v) => held[v] \in Job /\ held[v] \notin Chosen(w) /\ held[v] \notin Abandoned
    BY ChosenIsClaimable DEF Holds, Owns, Claimable, Abandoned
  <2> QED  BY <1>5, <2>1 DEF Claim
<1>6. CASE Begin(w)
  <2>1. PICK j \in Chosen(w), next \in {"boundary", "failing"} :
           held' = [held EXCEPT ![w] = j] /\ Goto(w, next)
    BY <1>6 DEF Begin
  <2>2. Claim(w) /\ beating' = [beating EXCEPT ![w] = TRUE]
    BY <1>6 DEF Begin
  <2>3. j \in Job
    BY <2>1, ChosenIsClaimable DEF Claimable
  <2>4. status'[j] = "running" /\ owner'[j] = w /\ lease'[j] = "live"
    BY <2>1, <2>2, <2>3 DEF Claim
  <2>5. held'[w] = j /\ pc'[w] = next /\ beating'[w] = TRUE
    BY <1>1, <2>1, <2>2 DEF Goto
  <2>6. Holds(w)'
    BY <2>1, <2>3, <2>4, <2>5 DEF Holds, Owns
  <2>7. \A v \in Worker \ {w} : Untouched(v)
    BY <1>1, <1>5, <2>1, <2>2 DEF Goto, Untouched
  <2> QED  BY <1>3, <2>6, <2>7
<1>7. CASE Start(w)
  <2>1. Holds(w)'
    BY <1>1, <1>7 DEF Start, Goto, Holds, Busy
  <2> QED  BY <1>1, <1>3, <1>4, <1>7, <2>1 DEF Start, Goto, vars
<1>8. CASE Poll(w)
  <2>1. Claim(w) /\ UNCHANGED localVars /\ pc[w] = "idle"
    BY <1>8 DEF Poll
  <2>2. \A v \in Worker : Untouched(v)
    BY <1>5, <2>1 DEF Untouched, localVars
  <2> QED  BY <2>2, UntouchedHolds
<1>9. CASE Boundary(w) \/ RunStage(w) \/ StageRaises(w) \/ ReadForFail(w)
  <2>1. /\ pc[w] \in {"boundary", "running", "failing"} /\ held' = held /\ beating' = beating /\ UNCHANGED vars
        /\ pc' = pc \/ \E label \in {"interrupted", "starting", "succeeded", "recording", "stagefail", "requeue", "failed"} : Goto(w, label)
    BY <1>9 DEF Boundary, RunStage, StageRaises, ReadForFail
  <2>2. Holds(w)'
    BY <1>1, <2>1 DEF Goto, Holds, Busy, Owns, vars
  <2> QED  BY <1>1, <1>3, <1>4, <2>1, <2>2 DEF Goto, vars
<1>10. CASE StartStage(w) \/ RecordFailure(w) \/ RecordSuccess(w)
  <2>1. /\ pc[w] \in {"starting", "stagefail", "recording"} /\ held' = held /\ beating' = beating
        /\ status' = status /\ owner' = owner /\ lease' = lease
        /\ \E label \in {"running", "failing", "renewing"} : Goto(w, label)
    BY <1>10 DEF StartStage, RecordFailure, RecordSuccess, SetStage, columns
  <2>2. Holds(w)'
    BY <1>1, <2>1 DEF Goto, Holds, Busy, Owns
  <2> QED  BY <1>1, <1>3, <1>4, <2>1, <2>2 DEF Goto
<1>11. CASE Renew(w)
  <2>1. /\ pc[w] = "renewing" /\ held' = held /\ beating' = beating /\ status' = status /\ owner' = owner
        /\ lease' = [lease EXCEPT ![held[w]] = "live"] /\ Goto(w, "boundary")
    BY <1>11 DEF Renew, Heartbeat
  <2>2. Busy(w) /\ held[w] \in Job
    BY <2>1 DEF Busy, Holds
  <2>3. Holds(w)'
    BY <1>1, <2>1, <2>2 DEF Goto, Holds, Busy, Owns, TypeOK
  <2> QED  BY <1>1, <1>3, <1>4, <2>1, <2>2, <2>3 DEF Goto, TypeOK
<1>12. CASE RequeueJob(w) \/ FinishJob(w)
  <2>1. PICK outcome \in JobStatus :
           /\ Busy(w) /\ Return(w) /\ status' = [status EXCEPT ![held[w]] = outcome]
           /\ lease' = [lease EXCEPT ![held[w]] = "none"] /\ owner' = [owner EXCEPT ![held[w]] = NoWorker]
    BY <1>12 DEF RequeueJob, FinishJob, Requeue, Finish, Busy, JobStatus, Terminal
  <2>2. /\ Holds(w)'
        /\ \A v \in Worker \ {w} : pc'[v] = pc[v] /\ held'[v] = held[v] /\ beating'[v] = beating[v]
    BY <1>1, <2>1, LeftHolds DEF Return
  <2> QED  BY <1>1, <1>3, <1>4, <2>1, <2>2 DEF TypeOK
<1>13. CASE Crash(w)
  <2>1. /\ Holds(w)'
        /\ \A v \in Worker \ {w} : pc'[v] = pc[v] /\ held'[v] = held[v] /\ beating'[v] = beating[v]
    BY <1>1, <1>13, LeftHolds DEF Crash
  <2> QED  BY <1>3, <1>4, <1>13, <2>1 DEF Crash, vars
<1>14. CASE Beat(w)
  <2>1. /\ UNCHANGED localVars /\ held[w] \in Job /\ status' = status /\ owner' = owner
        /\ lease' = [lease EXCEPT ![held[w]] = "live"]
    BY <1>14 DEF Beat, Heartbeat, SessionOK, Session, Fresh, Passed
  <2>2. \A v \in Worker : Untouched(v)
    BY <1>1, <2>1 DEF Untouched, localVars, TypeOK, Holds
  <2> QED  BY <2>2, UntouchedHolds
\* Nobody takes the job away, so no transaction meets a QueueConflict.
<1>15. ~LosesJob(w) /\ ~HandleException(w)
  BY DEF LosesJob, HandleException, Transactions, Terminal, Holds, Busy
<1> QED
  BY <1>6, <1>7, <1>8, <1>9, <1>10, <1>11, <1>12, <1>13, <1>14, <1>15 DEF Run

LEMMA HoldStep ==
  ASSUME WorkerInv, HoldOK, [WorkerNext]_workerVars
  PROVE  HoldOK'
<1> USE DEF WorkerInv
<1>1. stalls \in Nat /\ errors \in Nat
  BY DEF WorkerTypeOK
<1>2. ASSUME NEW w \in Worker, Run(w) \/ Start(w) \/ Poll(w) \/ Crash(w) \/ Beat(w) PROVE HoldOK'
  <2>1. errors' = errors /\ stalls' = stalls
    BY <1>2 DEF Run, Start, Poll, Crash, Beat, faults, Begin, Boundary, StartStage, RunStage, StageRaises, RecordFailure,
                RecordSuccess, Renew, ReadForFail, RequeueJob, FinishJob, LosesJob, HandleException
  <2> QED  BY <1>2, <2>1, ActorHolds DEF HoldOK, Undisturbed
<1>3. ASSUME NEW w \in Worker, DatabaseError(w) PROVE HoldOK'
  BY <1>1, <1>3 DEF DatabaseError, HoldOK, Undisturbed
<1>4. ASSUME NEW w \in Worker, BeatEnds(w) PROVE HoldOK'
  <2>1. CASE errors' = errors + 1
    BY <1>1, <2>1 DEF HoldOK, Undisturbed
  <2>2. CASE ~Owns(w, held[w]) /\ errors' = errors /\ stalls' = stalls
    BY <1>4, <2>2 DEF BeatEnds, HoldOK, Undisturbed, Holds, SessionOK, Session, Fresh
  <2> QED  BY <1>4, <2>1, <2>2 DEF BeatEnds
<1>5. ASSUME UNCHANGED localVars, UNCHANGED faults,
             \A v \in Worker : Busy(v) /\ Holds(v) => Untouched(v)
      PROVE  HoldOK'
  <2>1. \A v \in Worker : Holds(v) => Holds(v)'
    BY <1>5, UntouchedHolds DEF localVars, Holds, Busy
  <2> QED  BY <1>5, <2>1 DEF HoldOK, Undisturbed, faults
<1>6. ASSUME NEW j \in Job, Submit(j) \/ CancelJob(j) PROVE HoldOK'
  <2>1. /\ UNCHANGED localVars /\ UNCHANGED faults /\ lease' = lease /\ owner' = owner
        /\ \A k \in Job : status[k] = "running" => status'[k] = "running"
    BY <1>6 DEF Submit, CancelJob, Enqueue, Cancel, CancelQueued, CancelRunning, WorkerTypeOK, TypeOK
  <2> QED  BY <1>5, <2>1 DEF Untouched, localVars, Holds, Owns
<1>7. ASSUME NEW j \in Job, LeaseLapses(j) PROVE HoldOK'
  <2>1. /\ UNCHANGED localVars /\ UNCHANGED faults /\ status' = status /\ owner' = owner /\ ~Renewed(j)
        /\ lease' = [lease EXCEPT ![j] = "expired"]
    BY <1>7 DEF LeaseLapses, LeaseExpires
  <2>2. \A v \in Worker : Busy(v) /\ Holds(v) => held[v] \in Job /\ held[v] # j
    BY <2>1 DEF Holds, Renewed, Owns
  <2> QED  BY <1>5, <2>1, <2>2 DEF Untouched, localVars, WorkerTypeOK, TypeOK
<1>8. ASSUME NEW j \in Job, LeaseStalls(j) PROVE HoldOK'
  BY <1>1, <1>8 DEF LeaseStalls, HoldOK, Undisturbed
<1>9. CASE UNCHANGED workerVars
  BY <1>5, <1>9 DEF workerVars, vars, localVars, faults, Untouched
<1> QED
  BY <1>2, <1>3, <1>4, <1>6, <1>7, <1>8, <1>9 DEF WorkerNext, Fault

\* A lease that never stalls, and a database that never refuses, leave no job to two workers.
THEOREM JobsExecuteExclusively == WorkerSpec => []ExclusiveExecution
<1>1. WorkerInit => WorkerInv /\ HoldOK
  BY WorkerInvInit DEF WorkerInit, HoldOK, Holds, Busy
<1>2. WorkerInv /\ HoldOK /\ [WorkerNext]_workerVars => (WorkerInv /\ HoldOK)'
  BY WorkerInvStep, HoldStep
<1>3. WorkerInv /\ HoldOK => ExclusiveExecution
  BY DEF HoldOK, Undisturbed, Holds, Busy, Owns, ExclusiveExecution, Executing
<1> QED
  BY <1>1, <1>2, <1>3, PTL DEF WorkerSpec
==============================================================================
