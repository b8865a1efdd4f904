---------------------------- MODULE DurableWorker ----------------------------
(***************************************************************************)
(* Workers over the durable queue: DurableWorker.run_once, its heartbeat   *)
(* thread, and the two ways a worker goes away (an exception that leaves   *)
(* run_once, and the end of its process at any point).  The worker that    *)
(* runs "system" jobs is a daemon thread beside the main loop: nobody      *)
(* notices the end of its loop.  Every queue call is a transaction of its  *)
(* own, so each is a step of its own, and the stage's side effect lies     *)
(* between two of them.  The last stage of every plan but a "system" one   *)
(* is snapshot.publish.                                                    *)
(*                                                                         *)
(* pc[w] names the next step: "boundary" the loop head, "starting" and     *)
(* "recording" the two set_stage calls around a stage, "renewing" the      *)
(* heartbeat after it, "stagefail" the set_stage(FAILED) of an error,      *)
(* "failing" the read in fail(), "requeue" its retry transaction, a        *)
(* terminal status the _finish transaction writing it, and "raising" the   *)
(* exception handler around them all.  "stopped" is a worker without a     *)
(* process, "ended" a thread that is over in a process that goes on.       *)
(***************************************************************************)
EXTENDS JobQueue

CONSTANTS
    Supervised,  \* the workers whose loop is the main loop of their process
    MaxErrors,   \* bound: transactions that fail in the database
    MaxStalls,   \* bound: leases that expire under a running heartbeat
    MaxCrashes   \* bound: crashes and other ends of a worker process

ASSUME SupervisedAssumption == Supervised \subseteq Worker
ASSUME FaultAssumption == MaxErrors \in Nat /\ MaxStalls \in Nat /\ MaxCrashes \in Nat

VARIABLES
    pc,        \* pc[w]: where run_once is
    held,      \* held[w]: the claimed job, 0 if none
    at,        \* at[w]: index of the stage the loop is at
    done,      \* done[w]: stages the claimed record showed as succeeded
    retry,     \* retry[w]: the retryable argument of the pending fail()
    exiting,   \* exiting[w]: an exception is on its way out of run_once
    snap,      \* snap[w]: the local snapshot_run_id
    beating,   \* beating[w]: the heartbeat thread of this job is alive
    published, \* published[j]: snapshots job j made the latest (0, 1, or more)
    errors, stalls, crashes  \* faults so far

localVars == <<pc, held, at, done, retry, exiting, snap, beating>>
faults == <<errors, stalls, crashes>>
workerVars == <<vars, localVars, published, faults>>

NoJob == 0
Loop == {"boundary", "starting", "running", "recording", "renewing"}
Transactions == {"starting", "recording", "renewing", "stagefail", "requeue"} \cup Terminal
PC == Loop \cup Transactions \cup {"stopped", "ended", "idle", "failing", "raising"}

WorkerTypeOK ==
    /\ TypeOK
    /\ pc \in [Worker -> PC]
    /\ held \in [Worker -> Job \cup {NoJob}]
    /\ at \in [Worker -> 1..(Stages + 1)]
    /\ done \in [Worker -> SUBSET Plan]
    /\ retry \in [Worker -> BOOLEAN]
    /\ exiting \in [Worker -> BOOLEAN]
    /\ snap \in [Worker -> {"none", "published"}]
    /\ beating \in [Worker -> BOOLEAN]
    /\ published \in [Job -> 0..2]
    /\ errors \in 0..MaxErrors /\ stalls \in 0..MaxStalls /\ crashes \in 0..MaxCrashes

WorkerInit ==
    /\ Init
    /\ pc = [w \in Worker |-> "stopped"]
    /\ held = [w \in Worker |-> NoJob]
    /\ at = [w \in Worker |-> 1]
    /\ done = [w \in Worker |-> {}]
    /\ retry = [w \in Worker |-> FALSE]
    /\ exiting = [w \in Worker |-> FALSE]
    /\ snap = [w \in Worker |-> "none"]
    /\ beating = [w \in Worker |-> FALSE]
    /\ published = [j \in Job |-> 0]
    /\ errors = 0 /\ stalls = 0 /\ crashes = 0

Goto(w, label) == pc' = [pc EXCEPT ![w] = label]

\* run_once is over: its locals are gone and its heartbeat thread is stopped.
Leave(w, label) ==
    /\ Goto(w, label)
    /\ held' = [held EXCEPT ![w] = NoJob]
    /\ at' = [at EXCEPT ![w] = 1]
    /\ done' = [done EXCEPT ![w] = {}]
    /\ retry' = [retry EXCEPT ![w] = FALSE]
    /\ exiting' = [exiting EXCEPT ![w] = FALSE]
    /\ snap' = [snap EXCEPT ![w] = "none"]
    /\ beating' = [beating EXCEPT ![w] = FALSE]

\* An exception that leaves the main loop ends the process, another one only the thread.
Exit(w) == IF w \in Supervised THEN "stopped" ELSE "ended"

\* The normal return of run_once, or the end of its loop on an exception.
Return(w) == Leave(w, IF exiting[w] THEN Exit(w) ELSE "idle")
-----------------------------------------------------------------------------
\* The supervisor of the process starts it again, under the same worker id.
Start(w) ==
    /\ pc[w] = "stopped"
    /\ Goto(w, "idle")
    /\ UNCHANGED <<vars, held, at, done, retry, exiting, snap, beating, published, faults>>

\* claim() found nothing; it may still have finalized abandoned jobs.
Poll(w) ==
    /\ pc[w] = "idle"
    /\ Chosen(w) = {}
    /\ Claim(w)
    /\ UNCHANGED <<localVars, published, faults>>

\* The stages run_once will skip.
Succeeded(j) == {i \in Plan : stage[j][i] = "succeeded"}

(***************************************************************************)
(* claim() returned a job.  The heartbeat thread starts, and               *)
(* registry.validate_order accepts the plan or, when an upgrade changed    *)
(* the registry, fails the job.                                            *)
(***************************************************************************)
Begin(w) ==
    /\ pc[w] = "idle"
    /\ \E j \in Chosen(w), next \in {"boundary", "failing"} :
        /\ held' = [held EXCEPT ![w] = j]
        /\ done' = [done EXCEPT ![w] = Succeeded(j)]
        /\ Goto(w, next)
    /\ Claim(w)
    /\ beating' = [beating EXCEPT ![w] = TRUE]
    /\ UNCHANGED <<at, retry, exiting, snap, published, faults>>

\* cancellation_requested()
CancellationRequested(w, j) == status[j] # "running" \/ (cancel[j] /\ owner[j] = w)

\* The loop head: stop on a cancellation, skip a finished stage, enter a stage,
\* or leave the loop and complete the job.
Boundary(w) ==
    /\ pc[w] = "boundary"
    /\ \/ /\ CancellationRequested(w, held[w])
          /\ Goto(w, "interrupted")
          /\ UNCHANGED at
       \/ /\ ~CancellationRequested(w, held[w])
          /\ at[w] \in done[w]
          /\ at' = [at EXCEPT ![w] = @ + 1]
          /\ UNCHANGED pc
       \/ /\ ~CancellationRequested(w, held[w])
          /\ at[w] \in Plan \ done[w]
          /\ Goto(w, "starting")
          /\ UNCHANGED at
       \/ /\ ~CancellationRequested(w, held[w])
          /\ at[w] > Stages
          /\ Goto(w, "succeeded")
          /\ UNCHANGED at
    /\ UNCHANGED <<vars, held, done, retry, exiting, snap, beating, published, faults>>

\* set_stage(RUNNING), or set_stage(FAILED) when the stage version moved on.
StartStage(w) ==
    /\ pc[w] = "starting"
    /\ \/ SetStage(w, held[w], at[w], "running") /\ Goto(w, "running")
       \/ SetStage(w, held[w], at[w], "failed") /\ Goto(w, "failing")
    /\ UNCHANGED <<held, at, done, retry, exiting, snap, beating, published, faults>>

Publishes(j, i) == i = Stages /\ trigger[j] # "system"

\* stage.run() succeeds. Nothing in it looks at the lease or the owner.
RunStage(w) ==
    /\ pc[w] = "running"
    /\ Goto(w, "recording")
    /\ IF Publishes(held[w], at[w])
       THEN /\ published' = [published EXCEPT ![held[w]] = IF @ < 2 THEN @ + 1 ELSE @]
            /\ snap' = [snap EXCEPT ![w] = "published"]
       ELSE UNCHANGED <<published, snap>>
    /\ UNCHANGED <<vars, held, at, done, retry, exiting, beating, faults>>

\* stage.run() raises: a StageExecutionError that may be retryable, or anything.
StageRaises(w) ==
    /\ pc[w] = "running"
    /\ Goto(w, "stagefail")
    /\ \E retryable \in BOOLEAN : retry' = [retry EXCEPT ![w] = retryable]
    /\ UNCHANGED <<vars, held, at, done, exiting, snap, beating, published, faults>>

FaultyRecordFailure(w) ==  \* the loop goes on after a failed stage
    /\ pc[w] = "stagefail"
    /\ SetStage(w, held[w], at[w], "failed")
    /\ Goto(w, "renewing")
    /\ UNCHANGED <<held, at, done, retry, exiting, snap, beating, published, faults>>

RecordFailure(w) ==
    /\ pc[w] = "stagefail"
    /\ SetStage(w, held[w], at[w], "failed")
    /\ Goto(w, "failing")
    /\ UNCHANGED <<held, at, done, retry, exiting, snap, beating, published, faults>>

RecordSuccess(w) ==
    /\ pc[w] = "recording"
    /\ SetStage(w, held[w], at[w], "succeeded")
    /\ Goto(w, "renewing")
    /\ UNCHANGED <<held, at, done, retry, exiting, snap, beating, published, faults>>

\* The heartbeat at the end of the loop body.
Renew(w) ==
    /\ pc[w] = "renewing"
    /\ Heartbeat(w, held[w])
    /\ Goto(w, "boundary")
    /\ at' = [at EXCEPT ![w] = @ + 1]
    /\ UNCHANGED <<held, done, retry, exiting, snap, beating, published, faults>>

(***************************************************************************)
(* fail() reads the job in a transaction of its own and picks its branch   *)
(* from what it read; the branch is carried out by a later transaction.    *)
(***************************************************************************)
ReadForFail(w) ==
    /\ pc[w] = "failing"
    /\ Goto(w, IF cancel[held[w]] THEN "interrupted"
               ELSE IF retry[w] /\ attempts[held[w]] < MaxAttempts THEN "requeue"
               ELSE "failed")
    /\ UNCHANGED <<vars, held, at, done, retry, exiting, snap, beating, published, faults>>

RequeueJob(w) ==
    /\ pc[w] = "requeue"
    /\ Requeue(w, held[w])
    /\ Return(w)
    /\ UNCHANGED <<published, faults>>

\* complete() names the snapshot of this run, or the placeholder if none was seen.
FinishId(w) ==
    IF pc[w] # "succeeded" THEN "none"
    ELSE IF snap[w] = "published" THEN "published" ELSE "placeholder"

FinishJob(w) ==
    /\ pc[w] \in Terminal
    /\ Finish(w, held[w], pc[w], FinishId(w))
    /\ Return(w)
    /\ UNCHANGED <<published, faults>>
-----------------------------------------------------------------------------
\* Inside the try block the handler runs next; before it and in it none does.
Raise(w) ==
    IF exiting[w] \/ pc[w] \in {"idle", "raising"} THEN Leave(w, Exit(w))
    ELSE /\ Goto(w, "raising")
         /\ UNCHANGED <<held, at, done, retry, exiting, snap, beating>>

\* QueueConflict: the job is no longer this worker's.
LosesJob(w) ==
    /\ pc[w] \in Transactions
    /\ ~Owns(w, held[w])
    /\ Raise(w)
    /\ UNCHANGED <<vars, published, faults>>

\* The database refuses a read or a transaction (locked, full, I/O error).
DatabaseError(w) ==
    /\ pc[w] \notin {"stopped", "ended", "running"}
    /\ errors < MaxErrors
    /\ errors' = errors + 1
    /\ Raise(w)
    /\ UNCHANGED <<vars, published, stalls, crashes>>

\* The handler in run_once: a job that still runs is failed, then the
HandleException(w) ==
    /\ pc[w] = "raising"
    /\ IF status[held[w]] = "running"
       THEN /\ Goto(w, "failing")
            /\ retry' = [retry EXCEPT ![w] = FALSE]
            /\ exiting' = [exiting EXCEPT ![w] = TRUE]
            /\ UNCHANGED <<held, at, done, snap, beating>>
       ELSE Leave(w, Exit(w))
    /\ UNCHANGED <<vars, published, faults>>

Crash(w) ==
    /\ pc[w] # "stopped"
    /\ crashes < MaxCrashes
    /\ crashes' = crashes + 1
    /\ Leave(w, "stopped")
    /\ UNCHANGED <<vars, published, errors, stalls>>

\* The heartbeat thread renews the lease and ends itself on any exception.
Beat(w) ==
    /\ beating[w]
    /\ Heartbeat(w, held[w])
    /\ UNCHANGED <<localVars, published, faults>>

BeatEnds(w) ==
    /\ beating[w]
    /\ \/ ~Owns(w, held[w]) /\ UNCHANGED errors
       \/ errors < MaxErrors /\ errors' = errors + 1
    /\ beating' = [beating EXCEPT ![w] = FALSE]
    /\ UNCHANGED <<vars, pc, held, at, done, retry, exiting, snap, published, stalls, crashes>>

FaultyRenewed(j) == FALSE  \* renewals slower than the lease

\* A live heartbeat thread renews well before the deadline (interval <= lease / 3).
Renewed(j) == \E w \in Worker : beating[w] /\ held[w] = j /\ owner[j] = w

\* A deadline passes that nobody renews any more.
LeaseLapses(j) ==
    /\ ~Renewed(j)
    /\ LeaseExpires(j)
    /\ UNCHANGED <<localVars, published, faults>>

\* The machine slept, or the renewal waited for a lock past the deadline.
LeaseStalls(j) ==
    /\ Renewed(j)
    /\ stalls < MaxStalls
    /\ stalls' = stalls + 1
    /\ LeaseExpires(j)
    /\ UNCHANGED <<localVars, published, errors, crashes>>

Submit(j) ==
    /\ \E t \in Requests : Enqueue(j, t)
    /\ UNCHANGED <<localVars, published, faults>>

CancelJob(j) ==
    /\ Cancel(j)
    /\ UNCHANGED <<localVars, published, faults>>
-----------------------------------------------------------------------------
\* The steps run_once takes once a job is claimed.
Run(w) ==
    \/ Begin(w) \/ Boundary(w) \/ StartStage(w) \/ RunStage(w) \/ StageRaises(w)
    \/ RecordFailure(w) \/ RecordSuccess(w) \/ Renew(w)
    \/ ReadForFail(w) \/ RequeueJob(w) \/ FinishJob(w)
    \/ LosesJob(w) \/ HandleException(w)

Fault(w) == DatabaseError(w) \/ Crash(w)

WorkerNext ==
    \/ \E w \in Worker : Start(w) \/ Poll(w) \/ Run(w) \/ Fault(w) \/ Beat(w) \/ BeatEnds(w)
    \/ \E j \in Job : Submit(j) \/ CancelJob(j) \/ LeaseLapses(j) \/ LeaseStalls(j)

WorkerSpec == WorkerInit /\ [][WorkerNext]_workerVars

\* A process that is gone is started again, its loops poll for ever unless an exception
\* ends them, every stage returns or raises, and time passes.
Fairness ==
    /\ \A w \in Worker : WF_workerVars(Start(w) \/ Poll(w) \/ Run(w))
    /\ \A j \in Job : WF_workerVars(LeaseLapses(j))

FairWorkerSpec == WorkerSpec /\ Fairness
-----------------------------------------------------------------------------
\* complete() is reached with every stage succeeded, in this attempt or, as the
\* claimed record showed, in an earlier one under another worker.
SucceededIsComplete ==
    \A j \in Job : status[j] = "succeeded" => \A i \in Plan : stage[j][i] = "succeeded"

\* A succeeded portfolio job has published; a snapshot id that is not the
\* placeholder of runner.py:36 names a snapshot of this job.
SucceededPublished ==
    \A j \in Job :
        /\ status[j] = "succeeded" /\ trigger[j] # "system" => published[j] > 0
        /\ runId[j] = "published" => published[j] > 0

\* fail() retries at most MaxAttempts times (job_queue.py:769).
RetryBudget == \A j \in Job : status[j] = "queued" => attempts[j] < MaxAttempts

\* "Completed stages are skipped on retry" (durable-job-runtime.md:15): no
\* interleaving of workers, late or current, re-opens a succeeded stage.
StagesStick ==
    [][\A j \in Job, i \in Plan : stage[j][i] = "succeeded" => stage'[j][i] = "succeeded"]_workerVars

\* "It publishes only after all requested stages succeed"
\* (durable-job-runtime.md:39), even by a worker that lost the job meanwhile.
PublishesAfterStages ==
    [][\A j \in Job : published'[j] # published[j] =>
          \A i \in 1..(Stages - 1) : stage[j][i] = "succeeded"]_workerVars

\* Two workers never execute stages of one job at the same time, crashes included,
\* as long as every heartbeat came through: after a lease that ran out under its
\* heartbeat, or a database error that ended the heartbeat thread, the code cannot tell.
Executing(w) == pc[w] \in {"running", "recording"}
ExclusiveExecution ==
    stalls = 0 /\ errors = 0 =>
    \A v, w \in Worker : v # w /\ Executing(v) /\ Executing(w) => held[v] # held[w]

\* A job nobody cancels ends, whatever crashes, database errors, stage failures and lost
\* leases it meets, as long as one of the loops that may run it has not been ended by an
\* exception behind which its process went on.
JobsSettle ==
    \A j \in Job :
        status[j] = "queued" ~> \/ status[j] \in Terminal \/ cancel[j]
                                \/ \A w \in Worker : trigger[j] \in Allowed[w] => pc[w] = "ended"

\* A cancellation that does not meet a fail() about to requeue the job ends it: at a
\* stage boundary, in fail(), or swept by a later claim().
AboutToRequeue(j) == \E w \in Worker : pc[w] = "requeue" /\ held[w] = j /\ owner[j] = w
CancellationStops ==
    \A j \in Job :
        status[j] = "running" /\ cancel[j] /\ ~AboutToRequeue(j) ~> status[j] \in Terminal

\* A cancelled job ends: at a stage boundary, or swept by claim() "once the lease
\* expires so it cannot block admission forever" (job_queue.py:653-655).
CancelSettles == \A j \in Job : cancel[j] ~> ~cancel[j]

\* "A failed job leaves the previous successful snapshot untouched."
\* (durable-job-runtime.md:43)
FailedLeavesSnapshot == \A j \in Job : status[j] = "failed" => published[j] = 0
=============================================================================
