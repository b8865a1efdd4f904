------------------------------ MODULE JobQueue ------------------------------
(***************************************************************************)
(* The durable job table, SqliteJobQueue.  Each public method that writes  *)
(* is one BEGIN IMMEDIATE transaction and hence one action.  The actions   *)
(* are offered to any client in any order: this module says what the table *)
(* guarantees no matter how API and worker processes use it; DurableWorker *)
(* restricts the order to that of its program.                             *)
(*                                                                         *)
(* Jobs are numbered by created_at, which enqueue() reads before its       *)
(* transaction: rows may become visible in another order.  A lease is      *)
(* "live" until its deadline passes and "expired" after; the passing of a  *)
(* deadline is the action LeaseExpires.  `attempts' stops at MaxAttempts,  *)
(* the only number the code compares it with.                              *)
(*                                                                         *)
(* An operator named Faulty... is the one after it with a plausible bug;   *)
(* the runs show that the properties notice it.                            *)
(***************************************************************************)
EXTENDS Naturals

CONSTANTS
    Job,          \* job rows, numbered in the order of created_at
    Worker,       \* worker identifiers
    NoWorker,     \* NULL in the worker_id column
    Stages,       \* number of stages in a job's plan
    MaxAttempts,  \* max_attempts of fail()
    Requests,     \* triggers the clients of this instance submit
    Allowed       \* Allowed[w]: allowed_triggers of worker w

Class0 == {"on_demand", "nightly", "reconciliation"}
Class1 == {"intraday", "live"}
Class2 == {"performance", "research"}
Trigger == Class0 \cup Class1 \cup Class2 \cup {"system"}

ASSUME QueueAssumption ==
    /\ Job \subseteq Nat \ {0}
    /\ NoWorker \notin Worker
    /\ Stages \in Nat \ {0}
    /\ MaxAttempts \in Nat \ {0}
    /\ Requests \subseteq Trigger
    /\ Allowed \in [Worker -> SUBSET Trigger]

VARIABLES
    status,    \* status[j]: jobs.status, "absent" before the insert
    trigger,   \* trigger[j]: jobs.trigger
    attempts,  \* attempts[j]: jobs.attempts
    lease,     \* lease[j]: jobs.lease_expires_at against the clock
    owner,     \* owner[j]: jobs.worker_id
    cancel,    \* cancel[j]: jobs.cancel_requested
    followUp,  \* followUp[j]: jobs.follow_up_research
    runId,     \* runId[j]: jobs.snapshot_run_id
    stage      \* stage[j][i]: job_stages.status of the i-th stage

columns == <<status, trigger, attempts, lease, owner, cancel, runId>>
vars == <<status, trigger, attempts, lease, owner, cancel, followUp, runId, stage>>

Plan == 1..Stages
Terminal == {"succeeded", "failed", "interrupted"}
JobStatus == {"absent", "queued", "running"} \cup Terminal
StageStatus == {"queued", "running", "succeeded", "failed", "interrupted"}
\* A snapshot id names a published snapshot or is the "pending-<job>" placeholder.
RunId == {"none", "published", "placeholder"}

TypeOK ==
    /\ status \in [Job -> JobStatus]
    /\ trigger \in [Job -> Trigger \cup {"none"}]
    /\ attempts \in [Job -> 0..MaxAttempts]
    /\ lease \in [Job -> {"none", "live", "expired"}]
    /\ owner \in [Job -> Worker \cup {NoWorker}]
    /\ cancel \in [Job -> BOOLEAN]
    /\ followUp \in [Job -> BOOLEAN]
    /\ runId \in [Job -> RunId]
    /\ stage \in [Job -> [Plan -> StageStatus]]

Init ==
    /\ status = [j \in Job |-> "absent"]
    /\ trigger = [j \in Job |-> "none"]
    /\ attempts = [j \in Job |-> 0]
    /\ lease = [j \in Job |-> "none"]
    /\ owner = [j \in Job |-> NoWorker]
    /\ cancel = [j \in Job |-> FALSE]
    /\ followUp = [j \in Job |-> FALSE]
    /\ runId = [j \in Job |-> "none"]
    /\ stage = [j \in Job |-> [i \in Plan |-> "queued"]]
-----------------------------------------------------------------------------
\* enqueue(): a new row with every stage queued; the job_id is a primary key.
Enqueue(j, t) ==
    /\ status[j] = "absent"
    /\ status' = [status EXCEPT ![j] = "queued"]
    /\ trigger' = [trigger EXCEPT ![j] = t]
    /\ UNCHANGED <<attempts, lease, owner, cancel, followUp, runId, stage>>

\* cancel() of a queued job ends it at once.
CancelQueued(j) ==
    /\ status[j] = "queued"
    /\ status' = [status EXCEPT ![j] = "interrupted"]
    /\ cancel' = [cancel EXCEPT ![j] = FALSE]
    /\ UNCHANGED <<trigger, attempts, lease, owner, followUp, runId, stage>>

\* cancel() of a running job leaves a request for its owner.
CancelRunning(j) ==
    /\ status[j] = "running"
    /\ cancel' = [cancel EXCEPT ![j] = TRUE]
    /\ UNCHANGED <<status, trigger, attempts, lease, owner, followUp, runId, stage>>

Cancel(j) == CancelQueued(j) \/ CancelRunning(j)

\* request_research_follow_up(): refused with QueueConflict on an inactive job.
RequestFollowUp(j) ==
    /\ status[j] \in {"queued", "running"}
    /\ followUp' = [followUp EXCEPT ![j] = TRUE]
    /\ UNCHANGED <<columns, stage>>

\* consume_follow_up(): whatever the status of the job.
ConsumeFollowUp(j) ==
    /\ followUp[j]
    /\ followUp' = [followUp EXCEPT ![j] = FALSE]
    /\ UNCHANGED <<columns, stage>>

\* The deadline of a lease passes.
LeaseExpires(j) ==
    /\ lease[j] = "live"
    /\ lease' = [lease EXCEPT ![j] = "expired"]
    /\ UNCHANGED <<status, trigger, attempts, owner, cancel, followUp, runId, stage>>
-----------------------------------------------------------------------------
FaultySweep == {}  \* abandoned jobs are left alone

\* Cancelled jobs whose owner let the lease expire: claim() finalizes them.
Abandoned == {j \in Job : status[j] = "running" /\ cancel[j] /\ lease[j] = "expired"}

FaultyReclaim(w) ==  \* expired leases ignored
    {j \in Job : status[j] = "queued" /\ ~cancel[j] /\ trigger[j] \in Allowed[w]}

\* The rows the SELECT of claim() matches for worker w.
Claimable(w) ==
    {j \in Job : /\ \/ status[j] = "queued"
                    \/ status[j] = "running" /\ lease[j] = "expired"
                 /\ ~cancel[j]
                 /\ trigger[j] \in Allowed[w]}

Class(t) ==
    IF t \in Class0 THEN 0 ELSE IF t \in Class1 THEN 1 ELSE IF t \in Class2 THEN 2 ELSE 3

\* ORDER BY the class of the trigger, then created_at.
Precedes(j, k) ==
    \/ Class(trigger[j]) < Class(trigger[k])
    \/ Class(trigger[j]) = Class(trigger[k]) /\ j < k

\* LIMIT 1: the first claimable row, or none.
Chosen(w) == {j \in Claimable(w) : \A k \in Claimable(w) \ {j} : Precedes(j, k)}

(***************************************************************************)
(* claim(): one transaction finalizes the abandoned cancelled jobs and     *)
(* gives the chosen one, if there is one, to w under a new lease.          *)
(***************************************************************************)
Claim(w) ==
    LET Taken == Chosen(w)
        Cleared == Abandoned
    IN  /\ status' = [j \in Job |-> IF j \in Taken THEN "running"
                                    ELSE IF j \in Cleared THEN "interrupted" ELSE status[j]]
        /\ attempts' = [j \in Job |-> IF j \in Taken /\ attempts[j] < MaxAttempts
                                      THEN attempts[j] + 1 ELSE attempts[j]]
        /\ lease' = [j \in Job |-> IF j \in Taken THEN "live"
                                   ELSE IF j \in Cleared THEN "none" ELSE lease[j]]
        /\ owner' = [j \in Job |-> IF j \in Taken THEN w
                                   ELSE IF j \in Cleared THEN NoWorker ELSE owner[j]]
        /\ cancel' = [j \in Job |-> j \notin Cleared /\ cancel[j]]
        /\ stage' = [j \in Job |-> [i \in Plan |->
                        IF j \in Cleared /\ stage[j][i] = "running"
                        THEN "interrupted" ELSE stage[j][i]]]
        /\ UNCHANGED <<trigger, followUp, runId>>

\* _assert_owner(), and the WHERE clause of heartbeat().
Owns(w, j) == status[j] = "running" /\ owner[j] = w

\* heartbeat(): the owner renews its lease, even one whose deadline passed.
Heartbeat(w, j) ==
    /\ Owns(w, j)
    /\ lease' = [lease EXCEPT ![j] = "live"]
    /\ UNCHANGED <<status, trigger, attempts, owner, cancel, followUp, runId, stage>>

\* set_stage()
SetStage(w, j, i, s) ==
    /\ Owns(w, j)
    /\ stage' = [stage EXCEPT ![j][i] = s]
    /\ UNCHANGED <<columns, followUp>>

FaultyUnownedRequeue(w, j) ==  \* no _assert_owner()
    /\ status' = [status EXCEPT ![j] = "queued"]
    /\ lease' = [lease EXCEPT ![j] = "none"]
    /\ owner' = [owner EXCEPT ![j] = NoWorker]
    /\ UNCHANGED <<trigger, attempts, cancel, followUp, runId, stage>>

\* fail(), its retry branch: back to the queue; cancel_requested is not written.
Requeue(w, j) ==
    /\ Owns(w, j)
    /\ status' = [status EXCEPT ![j] = "queued"]
    /\ lease' = [lease EXCEPT ![j] = "none"]
    /\ owner' = [owner EXCEPT ![j] = NoWorker]
    /\ UNCHANGED <<trigger, attempts, cancel, followUp, runId, stage>>

\* _finish(): complete(), cancel_running() and the other branches of fail().
Finish(w, j, outcome, id) ==
    /\ Owns(w, j)
    /\ status' = [status EXCEPT ![j] = outcome]
    /\ lease' = [lease EXCEPT ![j] = "none"]
    /\ owner' = [owner EXCEPT ![j] = NoWorker]
    /\ runId' = [runId EXCEPT ![j] = id]
    /\ cancel' = [cancel EXCEPT ![j] = FALSE]
    /\ UNCHANGED <<trigger, attempts, followUp, stage>>
-----------------------------------------------------------------------------
ClientNext(j) ==
    \/ \E t \in Requests : Enqueue(j, t)
    \/ Cancel(j)
    \/ RequestFollowUp(j)
    \/ ConsumeFollowUp(j)
    \/ LeaseExpires(j)

OwnerNext(w) ==
    \/ Claim(w)
    \/ \E j \in Job :
        \/ Heartbeat(w, j)
        \/ \E i \in Plan, s \in {"running", "succeeded", "failed"} : SetStage(w, j, i, s)
        \/ Requeue(w, j)
        \/ \E id \in {"published", "placeholder"} : Finish(w, j, "succeeded", id)
        \/ \E outcome \in {"failed", "interrupted"} : Finish(w, j, outcome, "none")

Next == (\E j \in Job : ClientNext(j)) \/ (\E w \in Worker : OwnerNext(w))

Spec == Init /\ [][Next]_vars
-----------------------------------------------------------------------------
\* Exactly the running jobs have an owner and a lease, and a finished job asks
\* nobody to cancel it: claim(), fail() and _finish() keep the columns together.
OwnershipOK ==
    \A j \in Job :
        /\ status[j] = "running" <=> owner[j] \in Worker
        /\ status[j] = "running" <=> lease[j] # "none"
        /\ status[j] \in Terminal \cup {"absent"} => ~cancel[j]

\* A late call of a worker that lost the job, a retry or a cancellation never
\* rewrites a finished job: only its follow-up flag may still be consumed.
FinishedIsFinal ==
    [][\A j \in Job : status[j] \in Terminal =>
          /\ status'[j] = status[j]
          /\ runId'[j] = runId[j]
          /\ attempts'[j] = attempts[j]
          /\ stage'[j] = stage[j]
          /\ owner'[j] = owner[j]]_vars

\* "A cancelled job cannot be reclaimed for execution" (job_queue.py:652): once
\* cancellation was requested of its owner, no other worker ever gets the job.
CancelledNotReclaimed ==
    [][\A j \in Job : cancel[j] => owner'[j] \in {owner[j], NoWorker}]_vars

\* "The same write transaction protects a still-renewed lease from cleanup"
\* (job_queue.py:654): under a live lease a job stays with its owner, and one
\* that leaves it went back to the queue whole or to the end without claim()
\* touching its stages.
LeaseProtects ==
    [][\A j \in Job : lease[j] = "live" /\ owner'[j] # owner[j] =>
          owner'[j] = NoWorker /\ stage'[j] = stage[j]]_vars

\* Every row, seen from outside, goes through the life of one job.
Life(j) == INSTANCE JobLifecycle WITH phase <- status[j], holder <- owner[j]
ImplementsLifecycle ==
    /\ \A j \in Job : Life(j)!Init
    /\ [][\A j \in Job : [Life(j)!Next]_(Life(j)!vars)]_vars
=============================================================================
