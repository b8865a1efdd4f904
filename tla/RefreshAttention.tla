--------------------------- MODULE RefreshAttention ---------------------------
(***************************************************************************)
(* The warning that refreshes keep failing: refresh_failure_streaks()      *)
(* scans the finished jobs of the queue from the newest to the oldest and  *)
(* counts the failures since the last success, once for full account syncs *)
(* and once for performance calculations.  The table is that of JobQueue,  *)
(* with the columns the scan reads; a job that never ends a refresh        *)
(* (research, live, system) is not in it.                                  *)
(***************************************************************************)
EXTENDS Naturals, Sequences, FiniteSets

CONSTANT MaxJobs  \* bound: jobs
ASSUME AttentionAssumption == MaxJobs \in Nat

VARIABLES
    table,      \* rows of jobs, in the order of created_at
    cancelled   \* jobs an operator asked to cancel

attentionVars == <<table, cancelled>>

Kind == {"accounts", "performance"}
Open == {"queued", "running"}
Finished == {"succeeded", "failed", "interrupted"}
\* Full syncs ("all", "accounts"), the same without a broker sync, calculations.
Scope == {"full", "skipped", "performance"}
JobRow == [scope : Scope, status : Open \cup Finished, cancelRequested : BOOLEAN]

AttentionTypeOK ==
    /\ table \in Seq(JobRow) /\ Len(table) <= MaxJobs
    /\ cancelled \subseteq DOMAIN table

AttentionInit == table = <<>> /\ cancelled = {}
-----------------------------------------------------------------------------
Create ==
    /\ Len(table) < MaxJobs
    /\ \E scope \in Scope :
          table' = Append(table, [scope |-> scope, status |-> "queued", cancelRequested |-> FALSE])
    /\ UNCHANGED cancelled

\* claim(), or the requeue of fail(), which keeps the request.
Progress(j) ==
    /\ table[j].status \in Open
    /\ \E next \in Open \ {table[j].status} : table' = [table EXCEPT ![j].status = next]
    /\ UNCHANGED cancelled

\* _finish(), and the sweep of claim(), clear cancel_requested.
End(j) ==
    /\ table[j].status = "running"
    /\ \E outcome \in Finished :
          table' = [table EXCEPT ![j].status = outcome, ![j].cancelRequested = FALSE]
    /\ UNCHANGED cancelled

\* cancel(): a queued job ends at once, a running one is asked to.
Stop(j) ==
    /\ table[j].status \in Open
    /\ table' = IF table[j].status = "queued"
                THEN [table EXCEPT ![j].status = "interrupted", ![j].cancelRequested = FALSE]
                ELSE [table EXCEPT ![j].cancelRequested = TRUE]
    /\ cancelled' = cancelled \cup {j}

AttentionNext == Create \/ \E j \in DOMAIN table : Progress(j) \/ End(j) \/ Stop(j)

AttentionSpec == AttentionInit /\ [][AttentionNext]_attentionVars
-----------------------------------------------------------------------------
\* WHERE status IN (...) AND cancel_requested = 0
Counted(row) == row.status \in Finished /\ ~row.cancelRequested

FaultyRelevant(row, kind) ==  \* a failed sync counts against performance too
    IF kind = "accounts" THEN row.scope = "full"
    ELSE row.scope \in {"performance", "full", "skipped"}

\* A success of any full refresh repairs performance; its failure says nothing.
Relevant(row, kind) ==
    IF kind = "accounts" THEN row.scope = "full"
    ELSE row.scope = "performance" \/ row.status = "succeeded"

\* The body of the loop: resolved streaks have met their last success.
ScanRow(acc, row) ==
    [kind \in Kind |->
        IF acc[kind].resolved \/ ~Counted(row) \/ ~Relevant(row, kind) THEN acc[kind]
        ELSE IF row.status = "succeeded" THEN [acc[kind] EXCEPT !.resolved = TRUE]
        ELSE [acc[kind] EXCEPT !.count = @ + 1]]

\* refresh_failure_streaks(): the n-th row it scans is the n-th newest.
Unscanned == [kind \in Kind |-> [count |-> 0, resolved |-> FALSE]]
Scan[n \in 0..Len(table)] ==
    IF n = 0 THEN Unscanned ELSE ScanRow(Scan[n - 1], table[Len(table) + 1 - n])
Streaks == [kind \in Kind |-> Scan[Len(table)][kind].count]
-----------------------------------------------------------------------------
\* "Live valuations and performance calculations cannot repair a failed full
\* account sync. A successful full refresh does also repair performance."
\* (job_queue.py:204): said of the jobs themselves, whatever the scan looks like.
Repairs(row, kind) ==
    row.status = "succeeded" /\ (kind = "accounts" => row.scope = "full")
Blames(row, kind) ==
    /\ row.status \in {"failed", "interrupted"}
    /\ row.scope = IF kind = "accounts" THEN "full" ELSE "performance"
Unrepaired(kind) ==
    {j \in DOMAIN table : /\ Blames(table[j], kind)
                          /\ \A k \in (j + 1)..Len(table) : ~Repairs(table[k], kind)}
StreaksCountFailures ==
    \A kind \in Kind : Streaks[kind] = Cardinality(Unrepaired(kind))

\* "Pending retries and operator cancellations neither clear nor add failures."
\* (job_queue.py:206)
Withdrawn == {j \in cancelled : table[j].status = "interrupted"}
CancellationsDoNotCount ==
    \A kind \in Kind : Streaks[kind] = Cardinality(Unrepaired(kind) \ Withdrawn)
=============================================================================
