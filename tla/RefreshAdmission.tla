--------------------------- MODULE RefreshAdmission ---------------------------
(***************************************************************************)
(* Who puts refresh jobs on the queue: requests that add a ticker and ask  *)
(* for its research, the live, performance and daily schedulers of the API *)
(* process, and the worker, after a job of its own has ended.  The rows of *)
(* the queue are kept to the columns admission reads (JobQueue has them    *)
(* all); every look at the queue and every insert is a transaction of its  *)
(* own, so whatever was found may have changed when it is acted upon.      *)
(*                                                                         *)
(* Time is the number of the current slot; the three schedulers have the   *)
(* same slots here.  Slot 0 marks a row that was not scheduled.            *)
(***************************************************************************)
EXTENDS Naturals, Sequences, FiniteSets

CONSTANTS
    Settings,    \* the sets of schedulers and requests there may be together
    Client,      \* requests that add a ticker; each stands for its ticker too
    Daily,       \* Daily[n]: trigger of the daily scheduler in slot n
    MaxSlot,     \* bound: slots
    MaxRows,     \* bound: jobs
    MaxWakes,    \* bound: ticks of a scheduler that no boundary or retry caused
    MaxFaults    \* bound: retries, worker crashes and enqueues that raise

Full == {"on_demand", "nightly", "reconciliation"}
Values == {"intraday", "live"}
Scheduler == {"live", "performance", "daily"}

ASSUME AdmissionAssumption ==
    /\ MaxSlot \in Nat \ {0} /\ MaxRows \in Nat /\ MaxWakes \in Nat /\ MaxFaults \in Nat
    /\ Settings \subseteq SUBSET (Scheduler \cup Client)
    /\ Daily \in [1..MaxSlot -> {"research", "reconciliation"}]

VARIABLES
    rows,    \* the jobs, in the order of created_at
    call,    \* call[c]: how far a request is, and the job it found active
    slot,    \* the current slot
    tick,    \* tick[s]: what scheduler s does, and the slot it read the clock in
    wakes,   \* ticks that no boundary or retry caused so far
    after,   \* what the worker process does with its latest job
    faults   \* retries, crashes and failed enqueues so far

admissionVars == <<rows, call, slot, tick, wakes, after, faults>>

Active == {"queued", "running"}
Ended == {"succeeded", "failed", "interrupted"}
Row == [trigger : {"on_demand", "live", "performance", "research", "reconciliation"},
        structural : BOOLEAN,  \* scope "accounts" with a broker sync
        status : Active \cup Ended,
        for : 0..MaxSlot,      \* scheduled_for
        tickers : SUBSET Client, followUp : BOOLEAN]

NewRow(trigger, structural, for, tickers) ==
    [trigger |-> trigger, structural |-> structural, status |-> "queued",
     for |-> for, tickers |-> tickers, followUp |-> FALSE]

AdmissionTypeOK ==
    /\ rows \in Seq(Row) /\ Len(rows) <= MaxRows
    /\ call \in [Client -> [at : {"off", "idle", "admitted", "refused", "asking", "queued", "told", "error"},
                            job : 0..MaxRows]]
    /\ slot \in 1..MaxSlot
    /\ tick \in [Scheduler -> [at : {"off", "asleep", "awake", "admitted", "retrying"}, slot : 0..MaxSlot]]
    /\ wakes \in 0..MaxWakes
    /\ after \in [at : {"idle", "busy", "look", "structural", "consume", "research"},
                  job : 0..MaxRows, tickers : SUBSET Client]
    /\ faults \in 0..MaxFaults

Rest == [at |-> "idle", job |-> 0, tickers |-> {}]

AdmissionInit ==
    /\ rows = <<>>
    /\ slot = 1
    /\ \E enabled \in Settings :
        /\ call = [c \in Client |-> [at |-> IF c \in enabled THEN "idle" ELSE "off", job |-> 0]]
        /\ tick = [s \in Scheduler |->
                      [at |-> IF s \in enabled THEN "awake" ELSE "off", slot |-> 0]]
    /\ wakes = 0
    /\ after = Rest
    /\ faults = 0

IsActive(j) == rows[j].status \in Active
ActiveRows == {j \in DOMAIN rows : IsActive(j)}
Insert(row) == Len(rows) < MaxRows /\ rows' = Append(rows, row)
-----------------------------------------------------------------------------
\* submit(): a live job yields to a full refresh and to another live job only;
\* any other job yields to all but live ones.
Admitted(trigger) ==
    IF trigger \in Values
    THEN \A j \in ActiveRows : rows[j].trigger \notin Full \cup Values
    ELSE \A j \in ActiveRows : rows[j].trigger \in Values

\* POST /v1/watchlist with refresh: the look of submit() at the queue ...
Ask(c) ==
    /\ call[c].at = "idle"
    /\ call' = [call EXCEPT ![c].at = IF Admitted("on_demand") THEN "admitted" ELSE "refused"]
    /\ UNCHANGED <<rows, slot, tick, wakes, after, faults>>

\* ... and its insert.
EnqueueRow(c) ==
    /\ call[c].at = "admitted"
    /\ Insert(NewRow("on_demand", FALSE, 0, {c}))
    /\ call' = [call EXCEPT ![c].at = "queued"]
    /\ UNCHANGED <<slot, tick, wakes, after, faults>>

\* active_job_id: full refreshes and calculations before live jobs, then the oldest.
Foremost ==
    {j \in ActiveRows : \A k \in ActiveRows \ {j} :
        \/ rows[j].trigger \notin Values /\ rows[k].trigger \in Values
        \/ (rows[j].trigger \in Values <=> rows[k].trigger \in Values) /\ j < k}

\* The handler of JobConflict: without an active job there is nothing to do, and
\* the request is answered "follow-up research refresh queued" all the same.
LookForActive(c) ==
    /\ call[c].at = "refused"
    /\ \/ Foremost = {} /\ call' = [call EXCEPT ![c].at = "told"]
       \/ \E j \in Foremost : call' = [call EXCEPT ![c] = [at |-> "asking", job |-> j]]
    /\ UNCHANGED <<rows, slot, tick, wakes, after, faults>>

FaultyAskFollowUp(c) ==  \* the new ticker replaces those of the job
    /\ call[c].at = "asking"
    /\ IF IsActive(call[c].job)
       THEN /\ rows' = [rows EXCEPT ![call[c].job].followUp = TRUE,
                                    ![call[c].job].tickers = {c}]
            /\ call' = [call EXCEPT ![c].at = "told"]
       ELSE call' = [call EXCEPT ![c].at = "error"] /\ UNCHANGED rows
    /\ UNCHANGED <<slot, tick, wakes, after, faults>>

\* request_research_follow_up(): the ticker joins those of the job, and the flag
\* is set; QueueConflict if the job has ended meanwhile.
AskFollowUp(c) ==
    /\ call[c].at = "asking"
    /\ IF IsActive(call[c].job)
       THEN /\ rows' = [rows EXCEPT ![call[c].job].followUp = TRUE,
                                    ![call[c].job].tickers = @ \cup {c}]
            /\ call' = [call EXCEPT ![c].at = "told"]
       ELSE call' = [call EXCEPT ![c].at = "error"] /\ UNCHANGED rows
    /\ UNCHANGED <<slot, tick, wakes, after, faults>>
-----------------------------------------------------------------------------
Triggers(s) == IF s = "daily" THEN {"nightly", "research", "reconciliation"}
               ELSE IF s = "live" THEN Values ELSE {s}

RowsOf(s) == {j \in DOMAIN rows : rows[j].trigger \in Triggers(s)}

FaultyAttempted(s, n) ==  \* only attempts that succeeded count
    \E j \in RowsOf(s) : rows[j].for = n /\ rows[j].status = "succeeded"

(***************************************************************************)
(* _attempt_for(): the daily scheduler looks for a job of the slot, the    *)
(* others look whether the newest job with their trigger, scheduled or     *)
(* not, is of the slot.                                                    *)
(***************************************************************************)
Attempted(s, n) ==
    IF s = "daily" THEN \E j \in RowsOf(s) : rows[j].for = n
    ELSE \E j \in RowsOf(s) : rows[j].for = n /\ \A k \in RowsOf(s) : k <= j

TriggerOf(s, n) == IF s = "daily" THEN Daily[n] ELSE s

\* _tick(): read the clock, look for an attempt, let submit() look at the queue.
Tick(s) ==
    /\ tick[s].at = "awake"
    /\ tick' = [tick EXCEPT ![s] =
         [at |-> IF Attempted(s, slot) THEN "asleep"
                 ELSE IF Admitted(TriggerOf(s, slot)) THEN "admitted"
                 ELSE "retrying",
          slot |-> slot]]
    /\ UNCHANGED <<rows, call, slot, wakes, after, faults>>

\* The insert of submit(), for the slot the tick began in. The sleep that follows
\* was to last until the next boundary; if that has passed, it is short.
SubmitSlot(s) ==
    /\ tick[s].at = "admitted"
    /\ Insert(NewRow(TriggerOf(s, tick[s].slot), FALSE, tick[s].slot, {}))
    /\ tick' = [tick EXCEPT ![s].at = IF tick[s].slot = slot THEN "asleep" ELSE "awake"]
    /\ UNCHANGED <<call, slot, wakes, after, faults>>

\* JobConflict: the scheduler looks again in 30 seconds.
Retry(s) ==
    /\ tick[s].at = "retrying"
    /\ tick' = [tick EXCEPT ![s].at = "awake"]
    /\ UNCHANGED <<rows, call, slot, wakes, after, faults>>

\* A boundary passes: those who sleep until then wake up.
SlotPasses ==
    /\ slot < MaxSlot
    /\ slot' = slot + 1
    /\ tick' = [s \in Scheduler |->
                  IF tick[s].at = "asleep" THEN [tick[s] EXCEPT !.at = "awake"] ELSE tick[s]]
    /\ UNCHANGED <<rows, call, wakes, after, faults>>

\* Settings are saved (configure()) or the API process starts again.
Wake(s) ==
    /\ tick[s].at = "asleep"
    /\ wakes < MaxWakes
    /\ wakes' = wakes + 1
    /\ tick' = [tick EXCEPT ![s].at = "awake"]
    /\ UNCHANGED <<rows, call, slot, after, faults>>

\* An operator asks for live values at any time: not a slot.
RefreshValues ==
    /\ Admitted("live")
    /\ Insert(NewRow("live", FALSE, 0, {}))
    /\ UNCHANGED <<call, slot, tick, wakes, after, faults>>
-----------------------------------------------------------------------------
ClassOf(trigger) == IF trigger \in Full THEN 0 ELSE IF trigger \in Values THEN 1 ELSE 2

\* claim(): the highest class first, then the oldest. A running job can be had
\* when its lease has expired, that is, after a crash.
NextRow ==
    {j \in ActiveRows : \A k \in ActiveRows \ {j} :
        \/ ClassOf(rows[j].trigger) < ClassOf(rows[k].trigger)
        \/ ClassOf(rows[j].trigger) = ClassOf(rows[k].trigger) /\ j < k}

ClaimRow ==
    /\ after.at = "idle"
    /\ \E j \in NextRow :
        /\ rows' = [rows EXCEPT ![j].status = "running"]
        /\ after' = [Rest EXCEPT !.at = "busy", !.job = j]
    /\ UNCHANGED <<call, slot, tick, wakes, faults>>

\* The job succeeds. After a live one with structural changes, on_finished looks
\* for a pending reconciliation of the accounts.
Succeeds ==
    /\ after.at = "busy"
    /\ rows' = [rows EXCEPT ![after.job].status = "succeeded"]
    /\ \E next \in IF rows[after.job].trigger \in Values THEN {"look", "consume"} ELSE {"consume"} :
          after' = [after EXCEPT !.at = next]
    /\ UNCHANGED <<call, slot, tick, wakes, faults>>

\* It fails or is cancelled: on_finished returns at once.
Stops ==
    /\ after.at = "busy"
    /\ \E outcome \in {"failed", "interrupted"} :
          rows' = [rows EXCEPT ![after.job].status = outcome]
    /\ after' = Rest
    /\ UNCHANGED <<call, slot, tick, wakes, faults>>

\* A queued job is cancelled.
CancelRow ==
    /\ \E j \in DOMAIN rows :
        /\ rows[j].status = "queued"
        /\ rows' = [rows EXCEPT ![j].status = "interrupted"]
    /\ UNCHANGED <<call, slot, tick, wakes, after, faults>>

FaultyPendingStructural == FALSE  \* pending ones are not looked for

PendingStructural == \E j \in ActiveRows : rows[j].structural

LookForStructural ==
    /\ after.at = "look"
    /\ after' = [after EXCEPT !.at = IF PendingStructural THEN "consume" ELSE "structural"]
    /\ UNCHANGED <<rows, call, slot, tick, wakes, faults>>

EnqueueStructural ==
    /\ after.at = "structural"
    /\ Insert(NewRow("performance", TRUE, 0, {}))
    /\ after' = [after EXCEPT !.at = "consume"]
    /\ UNCHANGED <<call, slot, tick, wakes, faults>>

\* consume_follow_up(): the flag is cleared, and the tickers are those of the job.
TakeFollowUp ==
    /\ after.at = "consume"
    /\ rows' = [rows EXCEPT ![after.job].followUp = FALSE]
    /\ after' = IF rows[after.job].followUp
                THEN [after EXCEPT !.at = "research", !.tickers = rows[after.job].tickers]
                ELSE Rest
    /\ UNCHANGED <<call, slot, tick, wakes, faults>>

\* The worker does not ask for admission.
EnqueueResearch ==
    /\ after.at = "research"
    /\ Insert(NewRow("on_demand", FALSE, 0, after.tickers))
    /\ after' = Rest
    /\ UNCHANGED <<call, slot, tick, wakes, faults>>

\* The job goes back to the queue (fail() with a retry), the process dies, or an
\* enqueue of on_finished raises and is logged.
Requeues ==
    /\ after.at = "busy"
    /\ rows' = [rows EXCEPT ![after.job].status = "queued"]
    /\ after' = Rest
Dies ==
    /\ after.at # "idle"
    /\ after' = Rest
    /\ UNCHANGED rows
EnqueueRaises ==
    /\ after.at \in {"structural", "research"}
    /\ after' = IF after.at = "research" THEN Rest ELSE [after EXCEPT !.at = "consume"]
    /\ UNCHANGED rows

WorkerFault ==
    /\ faults < MaxFaults
    /\ faults' = faults + 1
    /\ Requeues \/ Dies \/ EnqueueRaises
    /\ UNCHANGED <<call, slot, tick, wakes>>
-----------------------------------------------------------------------------
ClientStep(c) == Ask(c) \/ EnqueueRow(c) \/ LookForActive(c) \/ AskFollowUp(c)
SchedulerStep(s) == Tick(s) \/ SubmitSlot(s) \/ Retry(s) \/ Wake(s)
WorkerStep ==
    \/ ClaimRow \/ Succeeds \/ Stops \/ LookForStructural \/ EnqueueStructural
    \/ TakeFollowUp \/ EnqueueResearch

AdmissionNext ==
    \/ \E c \in Client : ClientStep(c)
    \/ \E s \in Scheduler : SchedulerStep(s)
    \/ SlotPasses \/ RefreshValues \/ CancelRow
    \/ WorkerStep \/ WorkerFault

AdmissionSpec == AdmissionInit /\ [][AdmissionNext]_admissionVars
-----------------------------------------------------------------------------
\* A live job can be admitted next to a calculation and is claimed before it; the
\* structural refresh it then asks for is pending at most once, whatever the
\* schedulers put on the queue between the look and the insert.
OneStructural ==
    Cardinality({j \in ActiveRows : rows[j].structural}) <= 1

\* A daily slot is attempted once, however its job ended and however often the
\* process restarts.
DailyOnce ==
    \A j, k \in RowsOf("daily") : rows[j].for = rows[k].for => j = k

\* "A follow-up research request is persisted as a coalesced flag on the active
\* job" (durable-job-runtime.md:14): unless that job fails, or a crash or a
\* database error hits the worker, every ticker that was merged into it stays
\* with the flag until it is handed on, and is handed on to a research job.
Requested(c) == call[c].at = "told" /\ call[c].job # 0
Flagged(c, j) == rows[j].followUp /\ c \in rows[j].tickers
Served(c, j) ==
    \E k \in DOMAIN rows : k > j /\ rows[k].trigger = "on_demand" /\ c \in rows[k].tickers
FollowUpKept ==
    \A c \in Client : Requested(c) /\ faults = 0 =>
        LET j == call[c].job
        IN  \/ IsActive(j) /\ Flagged(c, j)
            \/ after.job = j /\ after.at \in {"look", "structural", "consume"} /\ Flagged(c, j)
            \/ after.at = "research" /\ c \in after.tickers
            \/ Served(c, j)
            \/ rows[j].status \in {"failed", "interrupted"}
=============================================================================
