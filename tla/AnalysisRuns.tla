---------------------------- MODULE AnalysisRuns ----------------------------
(***************************************************************************)
(* One analysis run: a row of analysis_runs that submit() and the synthesis *)
(* stage write, and the job with the same id in the queue, which has its   *)
(* own life.  The row has no owner and no lease: whoever executes the run  *)
(* works on a copy and saves all of it; every start of a process recovers  *)
(* rows that nobody seems to execute.  The queue is seen from here only as *)
(* the state of this job (module JobQueue has the rest of it).             *)
(***************************************************************************)
EXTENDS Naturals

CONSTANTS
    Lens,       \* the lenses asked for
    Executor,   \* worker processes that can come to hold the job
    MaxUpsets   \* bound: leases that lapse under an executor that lives, processes killed,
                \* reads and writes that the database refuses, all together

ASSUME AnalysisAssumption == Lens # {} /\ MaxUpsets \in Nat

VARIABLES
    analysis, \* the row: its status, the lenses with an artifact, what raised
    request,  \* where submit() is
    ticket,   \* the job: its status ("failed" is a failure with the code synthesis.failed,
              \* "errored" one with any other), its owner, whether the lease lives,
              \* whether the stage is recorded as succeeded, cancel_requested
    hand,     \* hand[e]: where e is in the job, its copy of the row, the lenses to do
    lapses, cuts, refusals  \* what has gone wrong so far

analysisVars == <<analysis, request, ticket, hand, lapses, cuts, refusals>>

Cause == Lens \cup {"queue", "context", "restart"}
Final == {"succeeded", "partial", "failed", "interrupted"}
RecordRow == [status : {"none", "queued", "running"} \cup Final, arts : SUBSET Lens, errs : SUBSET Cause]
NoAnalysis == [status |-> "none", arts |-> {}, errs |-> {}]
FreeHand == [at |-> "free", copy |-> NoAnalysis, todo |-> {}]

AnalysisTypeOK ==
    /\ analysis \in RecordRow
    /\ request \in {"none", "saved", "refused", "answered"}
    /\ ticket \in [status : {"none", "queued", "running", "succeeded", "failed", "errored", "interrupted"},
                   owner : Executor \cup {"none"}, live : BOOLEAN, staged : BOOLEAN, cancel : BOOLEAN]
    /\ hand \in [Executor -> [at : {"free", "claimed", "staged", "read", "lenses", "answer", "fail", "error",
                                    "complete", "ended", "down"},
                              copy : RecordRow, todo : SUBSET Lens]]
    /\ lapses \in 0..MaxUpsets /\ cuts \in 0..MaxUpsets /\ refusals \in 0..MaxUpsets

AnalysisInit ==
    /\ analysis = NoAnalysis /\ request = "none"
    /\ ticket = [status |-> "none", owner |-> "none", live |-> FALSE, staged |-> FALSE, cancel |-> FALSE]
    /\ hand = [e \in Executor |-> FreeHand]
    /\ lapses = 0 /\ cuts = 0 /\ refusals = 0
-----------------------------------------------------------------------------
MayUpset == lapses + cuts + refusals < MaxUpsets
Refused == MayUpset /\ refusals' = refusals + 1

\* submit(): the row first, then the job; a job that cannot be queued fails the row.
SaveQueued ==
    /\ request = "none"
    /\ analysis' = [NoAnalysis EXCEPT !.status = "queued"]
    /\ request' = "saved"
    /\ UNCHANGED <<ticket, hand, lapses, cuts, refusals>>

EnqueueRun ==
    /\ request = "saved"
    /\ \/ ticket' = [ticket EXCEPT !.status = "queued"] /\ request' = "answered"
       \/ UNCHANGED ticket /\ request' = "refused"
    /\ UNCHANGED <<analysis, hand, lapses, cuts, refusals>>

SaveRefused ==
    /\ request = "refused"
    /\ \/ analysis' = [analysis EXCEPT !.status = "failed", !.errs = @ \cup {"queue"}] /\ UNCHANGED refusals
       \/ UNCHANGED analysis /\ Refused
    /\ request' = "answered"
    /\ UNCHANGED <<ticket, hand, lapses, cuts>>
-----------------------------------------------------------------------------
Owns(e) == ticket.status = "running" /\ ticket.owner = e
Goes(e, at) == hand' = [hand EXCEPT ![e] = [FreeHand EXCEPT !.at = at]]

\* How the job ends: as it would, or interrupted when its cancellation was requested.
EndJob(status) ==
    ticket' = [ticket EXCEPT !.status = IF ticket.cancel THEN "interrupted" ELSE status,
                             !.owner = "none", !.live = FALSE]

\* The queue hands out a queued job, or one whose lease has expired.
ClaimRun(e) ==
    /\ hand[e].at = "free"
    /\ ~ticket.cancel
    /\ ticket.status = "queued" \/ (ticket.status = "running" /\ ~ticket.live)
    /\ ticket' = [ticket EXCEPT !.status = "running", !.owner = e, !.live = TRUE]
    /\ Goes(e, IF ticket.staged THEN "complete" ELSE "claimed")
    /\ UNCHANGED <<analysis, request, lapses, cuts, refusals>>

\* The worker looks for a cancellation and at the version of the stage, and marks the stage
\* as running.  A worker that does not own the job any more is refused by the queue here
\* and in every later write to the job, and its thread ends.
StartStage(e) ==
    /\ hand[e].at = "claimed"
    /\ \/ Owns(e) /\ ticket.cancel /\ EndJob("interrupted") /\ Goes(e, "free")
       \/ Owns(e) /\ ~ticket.cancel /\ UNCHANGED ticket /\ Goes(e, "staged")
       \/ Owns(e) /\ ~ticket.cancel /\ UNCHANGED ticket /\ Goes(e, "error")  \* another version
       \/ ~Owns(e) /\ UNCHANGED ticket /\ Goes(e, "ended")
    /\ UNCHANGED <<analysis, request, lapses, cuts, refusals>>

FaultyReadRun(e) ==  \* only a run that was never started can be executed
    /\ hand[e].at = "staged"
    /\ hand' = [hand EXCEPT ![e] =
          IF analysis.status = "queued" THEN [FreeHand EXCEPT !.at = "read", !.copy = analysis]
          ELSE [FreeHand EXCEPT !.at = "answer"]]
    /\ UNCHANGED <<analysis, request, ticket, lapses, cuts, refusals>>

\* execute(): read the row, whatever it says ...
ReadRun(e) ==
    /\ hand[e].at = "staged"
    /\ hand' = [hand EXCEPT ![e] = [FreeHand EXCEPT !.at = "read", !.copy = analysis]]
    /\ UNCHANGED <<analysis, request, ticket, lapses, cuts, refusals>>

\* ... show it as running ...
SaveRunning(e) ==
    /\ hand[e].at = "read"
    /\ analysis' = [hand[e].copy EXCEPT !.status = "running"]
    /\ hand' = [hand EXCEPT ![e] = [at |-> "lenses", copy |-> analysis', todo |-> Lens]]
    /\ UNCHANGED <<request, ticket, lapses, cuts, refusals>>

\* ... and save it after each lens, which gives an artifact, raises, or does both (its
\* artifact is in the copy when the save is refused, or the taxonomy workflow raised).
FinishLens(e) ==
    /\ hand[e].at = "lenses"
    /\ \E l \in hand[e].todo, arts, errs \in SUBSET Lens :
          /\ arts \cup errs = {l}
          /\ analysis' = [hand[e].copy EXCEPT !.arts = @ \cup arts, !.errs = @ \cup errs]
          /\ hand' = [hand EXCEPT ![e].copy = analysis', ![e].todo = @ \ {l}]
    /\ UNCHANGED <<request, ticket, lapses, cuts, refusals>>

\* The loop over the lenses is left: before the first of them (analysis is disabled, the
\* manifest is gone), or when the save of a lens that raised is refused too.
LensesStop(e) ==
    /\ hand[e].at = "lenses" /\ hand[e].todo # {}
    /\ \E arts, errs \in SUBSET Lens :
          /\ \/ hand[e].todo = Lens /\ arts = {} /\ errs = {} /\ UNCHANGED refusals
             \/ \E l \in hand[e].todo : arts \subseteq {l} /\ errs = {l} /\ Refused
          /\ hand' = [hand EXCEPT ![e].copy.arts = @ \cup arts,
                                  ![e].copy.errs = @ \cup errs \cup {"context"}, ![e].todo = {}]
    /\ UNCHANGED <<analysis, request, ticket, lapses, cuts>>

Outcome(r) ==
    IF r.errs = {} THEN "succeeded" ELSE IF r.arts # {} THEN "partial" ELSE "failed"

SaveOutcome(e) ==
    /\ hand[e].at = "lenses" /\ hand[e].todo = {}
    /\ analysis' = [hand[e].copy EXCEPT !.status = Outcome(hand[e].copy)]
    /\ Goes(e, "answer")
    /\ UNCHANGED <<request, ticket, lapses, cuts, refusals>>

\* A read or a save of the row outside the loop is refused (at the end, an artifact may be
\* gone as well): the stage raises with the row as it is.
StageRaises(e) ==
    /\ hand[e].at \in {"staged", "read", "answer"} \/ (hand[e].at = "lenses" /\ hand[e].todo = {})
    /\ Refused /\ Goes(e, "error")
    /\ UNCHANGED <<analysis, request, ticket, lapses, cuts>>

\* The stage reads the row again to tell the worker how it went.
StageFails == analysis.status = "failed"
AnswerStage(e) ==
    /\ hand[e].at = "answer"
    /\ \/ StageFails /\ UNCHANGED ticket /\ Goes(e, "fail")
       \/ ~StageFails /\ Owns(e) /\ ticket' = [ticket EXCEPT !.staged = TRUE] /\ Goes(e, "complete")
       \/ ~StageFails /\ ~Owns(e) /\ UNCHANGED ticket /\ Goes(e, "ended")
    /\ UNCHANGED <<analysis, request, lapses, cuts, refusals>>

\* The worker ends the job it owns.
FinishRun(e) ==
    /\ hand[e].at \in {"fail", "error", "complete"}
    /\ \/ Owns(e) /\ hand[e].at = "fail" /\ EndJob("failed") /\ Goes(e, "free")
       \/ Owns(e) /\ hand[e].at = "error" /\ EndJob("errored") /\ Goes(e, "free")
       \/ Owns(e) /\ hand[e].at = "complete" /\ EndJob("succeeded") /\ Goes(e, "free")
       \/ ~Owns(e) /\ UNCHANGED ticket /\ Goes(e, "ended")
    /\ UNCHANGED <<analysis, request, lapses, cuts, refusals>>

\* The database refuses what the worker asks of the queue outside the stage: the handler
\* of run_once() fails the job if it still can, and raises, which ends the thread.
WorkerFails(e) ==
    /\ hand[e].at \in {"free", "claimed", "answer", "fail", "error", "complete"}
    /\ Refused /\ Goes(e, "ended")
    /\ \/ UNCHANGED ticket
       \/ hand[e].at # "free" /\ Owns(e) /\ EndJob("errored")
    /\ UNCHANGED <<analysis, request, lapses, cuts>>
-----------------------------------------------------------------------------
FaultyOrphaned == analysis.status = "running" /\ ticket.status # "queued"  \* leases are not looked at

\* recover_interrupted(), at the start of any process (here: of the API).
Orphaned ==
    /\ analysis.status = "running"
    /\ ticket.status # "queued"
    /\ ~(ticket.status = "running" /\ ticket.live)

Recovered == [analysis EXCEPT !.status = "interrupted", !.errs = @ \cup {"restart"}]
RecoverInterrupted ==
    /\ Orphaned /\ analysis' = Recovered
    /\ UNCHANGED <<request, ticket, hand, lapses, cuts, refusals>>

\* Cancellation: a queued job at once, a running one by its worker at the end, or by the
\* sweep of claim() when its lease has expired.
CancelRun ==
    /\ ~ticket.cancel
    /\ \/ ticket.status = "queued" /\ ticket' = [ticket EXCEPT !.status = "interrupted"]
       \/ ticket.status = "running" /\ ticket' = [ticket EXCEPT !.cancel = TRUE]
    /\ UNCHANGED <<analysis, request, hand, lapses, cuts, refusals>>

SweepRun ==
    /\ ticket.status = "running" /\ ticket.cancel /\ ~ticket.live
    /\ ticket' = [ticket EXCEPT !.status = "interrupted", !.owner = "none"]
    /\ UNCHANGED <<analysis, request, hand, lapses, cuts, refusals>>

\* An executor is killed and started again, the API is killed inside submit().  A worker
\* thread that ended comes back only with a new process, which nothing asks for.
ExecutorKilled(e) ==
    /\ hand[e].at \notin {"free", "ended", "down"} /\ MayUpset
    /\ Goes(e, "down")
    /\ cuts' = cuts + 1
    /\ UNCHANGED <<analysis, request, ticket, lapses, refusals>>

ProcessStarts(e) ==
    /\ analysis' = IF Orphaned THEN Recovered ELSE analysis
    /\ Goes(e, "free")
    /\ UNCHANGED <<request, ticket, lapses, cuts, refusals>>
ExecutorStarts(e) == hand[e].at = "down" /\ ProcessStarts(e)
EndedStarts(e) == hand[e].at = "ended" /\ ProcessStarts(e)

SubmitKilled ==
    /\ request \in {"saved", "refused"} /\ MayUpset
    /\ request' = "answered" /\ cuts' = cuts + 1
    /\ UNCHANGED <<analysis, ticket, hand, lapses, refusals>>

\* The lease of a dead executor expires; that of a live one only when its heartbeats
\* do not get through.
Idle(e) == hand[e].at \in {"free", "ended", "down"}
LeaseLapses ==
    /\ ticket.status = "running" /\ ticket.live
    /\ \/ Idle(ticket.owner) /\ UNCHANGED lapses
       \/ ~Idle(ticket.owner) /\ MayUpset /\ lapses' = lapses + 1
    /\ ticket' = [ticket EXCEPT !.live = FALSE]
    /\ UNCHANGED <<analysis, request, hand, cuts, refusals>>

Execute(e) ==
    \/ ClaimRun(e) \/ StartStage(e) \/ ReadRun(e) \/ SaveRunning(e) \/ FinishLens(e) \/ LensesStop(e)
    \/ SaveOutcome(e) \/ AnswerStage(e) \/ FinishRun(e) \/ ExecutorStarts(e)
Disturb(e) == StageRaises(e) \/ WorkerFails(e) \/ ExecutorKilled(e) \/ EndedStarts(e)
SubmitRun == SaveQueued \/ EnqueueRun \/ SaveRefused
AnalysisNext ==
    \/ SubmitRun \/ SubmitKilled
    \/ \E e \in Executor : Execute(e) \/ Disturb(e)
    \/ RecoverInterrupted \/ CancelRun \/ SweepRun \/ LeaseLapses

\* Workers go on, start again when they were killed and claim what can be claimed; leases
\* run out.
LeaseRunsOut == Idle(ticket.owner) /\ LeaseLapses
AnalysisFairness ==
    (\A e \in Executor : WF_analysisVars(Execute(e))) /\ WF_analysisVars(ticket.live /\ LeaseRunsOut)
AnalysisSpec == AnalysisInit /\ [][AnalysisNext]_analysisVars /\ AnalysisFairness
-----------------------------------------------------------------------------
\* However often the run was taken over and whoever saved last: a row that says it
\* succeeded has an artifact for every lens and nothing raised, a partial one has some
\* artifact and some error, a failed one has no artifact.
OutcomeIsHonest ==
    /\ analysis.status = "succeeded" => analysis.arts = Lens /\ analysis.errs = {}
    /\ analysis.status = "partial" => analysis.arts # {} /\ analysis.errs # {}
    /\ analysis.status = "failed" => analysis.arts = {}

\* The row says what became of the run; and as long as no lease lapses under a live executor
\* it follows the job, whatever is killed or refused: while it is executed the row says so,
\* and a job that succeeded, or failed because the analysis did, has a row that did.  (A job
\* that fails for another reason leaves the row as it was.)
RowFollowsJob ==
    /\ OutcomeIsHonest
    /\ lapses = 0 =>
          /\ \A e \in Executor : hand[e].at = "lenses" => analysis.status = "running"
          /\ ticket.status = "succeeded" => analysis.status \in {"succeeded", "partial"}
          /\ ticket.status = "failed" => analysis.status = "failed"

\* A run that has begun ends, unless it is cancelled, its job fails for another reason than
\* the analysis, or no worker thread is left; whether executors are killed or are taken over
\* alive.  (A lapse with a kill or a refused save can leave the row "running" under a job
\* that has succeeded: the executor that lost its lease shows the row as running again and
\* does not come to its end.)
RunSettles ==
    (analysis.status = "running") ~>
        \/ analysis.status \in Final
        \/ ticket.cancel \/ ticket.status = "errored" \/ \A e \in Executor : hand[e].at = "ended"
        \/ lapses > 0 /\ cuts + refusals > 0
=============================================================================
