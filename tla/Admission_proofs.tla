-------------------------- MODULE Admission_proofs --------------------------
(*****************************************************************************)
(* What puts jobs on the queue, the watchlist that the jobs maintain, and    *)
(* the warning that they fail, for any clients, schedulers, slots,           *)
(* processes, tickers and jobs.                                              *)
(*****************************************************************************)
EXTENDS RefreshAdmission, RefreshAttention, WatchlistFile, Integers, FiniteSetTheorems, SequenceTheorems,
        WellFoundedInduction, TLAPS

------------------------------------------------------------------------------
(*****************************************************************************)
(* Admission.  That one structural refresh is pending rests on the one       *)
(* worker that asks for it (StructuralOK), that a daily slot has one job on  *)
(* what the one daily scheduler saw when it looked (DailyOK), and that a     *)
(* follow-up is not forgotten on what the worker knows of the job it has     *)
(* just done (HeldOK).                                                       *)
(*****************************************************************************)
USE AdmissionAssumption

CallState == [at : {"off", "idle", "admitted", "refused", "asking", "queued", "told", "error"}, job : 0..MaxRows]
TickState == [at : {"off", "asleep", "awake", "admitted", "retrying"}, slot : 0..MaxSlot]
AfterState == [at : {"idle", "busy", "look", "structural", "consume", "research"}, job : 0..MaxRows, tickers : SUBSET Client]

AdmissionTypes ==
    /\ rows \in Seq(Row) /\ Len(rows) <= MaxRows
    /\ call \in [Client -> CallState] /\ tick \in [Scheduler -> TickState] /\ after \in AfterState
    /\ slot \in 1..MaxSlot /\ wakes \in 0..MaxWakes /\ faults \in 0..MaxFaults

\* Who acts upon a job acts upon one there is; the worker's is running, or has succeeded.
HeldOK ==
    /\ after.at # "idle" => after.job \in DOMAIN rows
    /\ after.at = "busy" => rows[after.job].status = "running"
    /\ after.at \in {"look", "structural", "consume", "research"} => rows[after.job].status = "succeeded"
    /\ \A c \in Client : /\ call[c].at \in {"idle", "admitted", "refused"} => call[c].job = 0
                         /\ call[c].at = "asking" => call[c].job \in DOMAIN rows
                         /\ Requested(c) => call[c].job \in DOMAIN rows
    /\ \A s \in Scheduler : tick[s].at = "admitted" => tick[s].slot \in 1..MaxSlot

\* The worker has found no structural refresh that could be pending when it asks for one.
StructuralOK ==
    /\ \A j, k \in ActiveRows : rows[j].structural /\ rows[k].structural => j = k
    /\ after.at = "structural" => \A j \in ActiveRows : ~rows[j].structural

\* The daily scheduler alone puts jobs of its triggers on the queue, after it has looked.
DailyOK ==
    /\ \A j, k \in RowsOf("daily") : rows[j].for = rows[k].for => j = k
    /\ tick["daily"].at = "admitted" => \A j \in RowsOf("daily") : rows[j].for # tick["daily"].slot

AdmissionInv == AdmissionTypes /\ HeldOK /\ StructuralOK /\ DailyOK /\ FollowUpKept

\* What a step leaves of the rows: one was added, or one is another now.
Added(row) ==
    /\ row \in Row
    /\ rows' \in Seq(Row) /\ Len(rows') = Len(rows) + 1 /\ Len(rows') <= MaxRows
    /\ DOMAIN rows = 1..Len(rows) /\ DOMAIN rows' = 1..Len(rows') /\ Len(rows) \in Nat
    /\ rows'[Len(rows')] = row
    /\ \A k \in DOMAIN rows : rows'[k] = rows[k]
Becomes(j, row) ==
    /\ j \in DOMAIN rows
    /\ rows' \in Seq(Row) /\ Len(rows') = Len(rows) /\ DOMAIN rows' = DOMAIN rows
    /\ rows'[j] = row
    /\ \A k \in DOMAIN rows : k # j => rows'[k] = rows[k]
RowWith(row, outcome, tickers, flag) ==
    [trigger |-> row.trigger, structural |-> row.structural, status |-> outcome, for |-> row.for,
     tickers |-> tickers, followUp |-> flag]
WithStatus(j, outcome) == RowWith(rows[j], outcome, rows[j].tickers, rows[j].followUp)
WithFollowUp(j, flag, tickers) == RowWith(rows[j], rows[j].status, tickers, flag)

LEMMA RowWithOK ==
    ASSUME NEW row \in Row, NEW outcome \in Active \cup Ended, NEW tickers \in SUBSET Client, NEW flag \in BOOLEAN
    PROVE  /\ RowWith(row, outcome, tickers, flag) \in Row
           /\ [row EXCEPT !.status = outcome] = RowWith(row, outcome, row.tickers, row.followUp)
           /\ [[row EXCEPT !.followUp = flag] EXCEPT !.tickers = tickers] = RowWith(row, row.status, tickers, flag)
           /\ [row EXCEPT !.followUp = flag] = RowWith(row, row.status, row.tickers, flag)
<1>1. RowWith(row, outcome, tickers, flag) \in Row
  BY DEF RowWith, Row
<1>2. row = RowWith(row, row.status, row.tickers, row.followUp)
  BY DEF RowWith, Row
<1>3. [row EXCEPT !.status = outcome] = RowWith(row, outcome, row.tickers, row.followUp)
  BY DEF RowWith, Row
<1>4. [RowWith(row, row.status, row.tickers, row.followUp) EXCEPT !.followUp = flag] = RowWith(row, row.status, row.tickers, flag)
  BY DEF RowWith
<1>5. [RowWith(row, row.status, row.tickers, flag) EXCEPT !.tickers = tickers] = RowWith(row, row.status, tickers, flag)
  BY DEF RowWith
<1> HIDE DEF RowWith
<1> QED  BY <1>1, <1>2, <1>3, <1>4, <1>5

LEMMA RowsOfSeq ==
    ASSUME rows \in Seq(Row)
    PROVE  /\ DOMAIN rows = 1..Len(rows) /\ Len(rows) \in Nat
           /\ \A j \in DOMAIN rows : rows[j] \in Row /\ j \in Nat
OBVIOUS

LEMMA NewRowOK ==
    ASSUME NEW trigger \in {"on_demand", "live", "performance", "research", "reconciliation"},
           NEW structural \in BOOLEAN, NEW n \in 0..MaxSlot, NEW tickers \in SUBSET Client
    PROVE  NewRow(trigger, structural, n, tickers) \in Row
BY DEF NewRow, Row, Active

LEMMA ZeroSlot == 0 \in 0..MaxSlot /\ \A n \in 1..MaxSlot : n \in 0..MaxSlot
OBVIOUS

LEMMA InsertOK ==
    ASSUME AdmissionTypes, NEW trigger \in {"on_demand", "live", "performance", "research", "reconciliation"},
           NEW structural \in BOOLEAN, NEW n \in 0..MaxSlot, NEW tickers \in SUBSET Client,
           Insert(NewRow(trigger, structural, n, tickers))
    PROVE  Added(NewRow(trigger, structural, n, tickers))
<1> DEFINE row == NewRow(trigger, structural, n, tickers)
<1>1. row \in Row
  BY NewRowOK
<1>2. rows \in Seq(Row) /\ rows' = Append(rows, row) /\ Len(rows) < MaxRows /\ Len(rows) \in Nat
  BY RowsOfSeq DEF Insert, AdmissionTypes
<1> HIDE DEF row
<1>3. /\ rows' \in Seq(Row) /\ Len(rows') = Len(rows) + 1 /\ rows'[Len(rows) + 1] = row
      /\ \A k \in 1..Len(rows) : rows'[k] = rows[k]
  BY <1>1, <1>2
<1>4. Added(row)
  BY <1>1, <1>2, <1>3, RowsOfSeq DEF Added
<1> QED  BY <1>4 DEF row

LEMMA ReplaceOK ==
    ASSUME AdmissionTypes, NEW j \in DOMAIN rows, NEW row \in Row, rows' = [rows EXCEPT ![j] = row]
    PROVE  Becomes(j, row)
<1>1. rows \in Seq(Row) /\ DOMAIN rows = 1..Len(rows)
  BY RowsOfSeq DEF AdmissionTypes
<1>2. /\ rows' \in Seq(Row) /\ Len(rows') = Len(rows)
      /\ \A k \in 1..Len(rows) : rows'[k] = IF k = j THEN row ELSE rows[k]
  BY <1>1, ExceptSeq
<1>3. DOMAIN rows' = DOMAIN rows
  OBVIOUS
<1> QED  BY <1>1, <1>2, <1>3 DEF Becomes

LEMMA StatusOK ==
    ASSUME AdmissionTypes, NEW j \in DOMAIN rows, NEW outcome \in Active \cup Ended,
           rows' = [rows EXCEPT ![j].status = outcome]
    PROVE  Becomes(j, WithStatus(j, outcome))
<1>1. rows[j] \in Row /\ rows[j].tickers \in SUBSET Client /\ rows[j].followUp \in BOOLEAN
  BY RowsOfSeq DEF AdmissionTypes, Row
<1>2. /\ [rows[j] EXCEPT !.status = outcome] = WithStatus(j, outcome)
      /\ WithStatus(j, outcome) \in Row
  BY <1>1, RowWithOK DEF WithStatus
<1>3. rows' = [rows EXCEPT ![j] = WithStatus(j, outcome)]
  BY <1>2
<1> QED  BY <1>2, <1>3, ReplaceOK

LEMMA FollowUpOK ==
    ASSUME AdmissionTypes, NEW j \in DOMAIN rows, NEW flag \in BOOLEAN
    PROVE  /\ \A c \in Client : rows' = [rows EXCEPT ![j].followUp = flag, ![j].tickers = @ \cup {c}]
                => Becomes(j, WithFollowUp(j, flag, rows[j].tickers \cup {c}))
           /\ rows' = [rows EXCEPT ![j].followUp = flag] => Becomes(j, WithFollowUp(j, flag, rows[j].tickers))
<1>1. /\ rows[j] \in Row /\ rows[j].tickers \in SUBSET Client /\ rows[j].status \in Active \cup Ended
  BY RowsOfSeq DEF AdmissionTypes, Row
<1>2. ASSUME NEW c \in Client, rows' = [rows EXCEPT ![j].followUp = flag, ![j].tickers = @ \cup {c}]
      PROVE  Becomes(j, WithFollowUp(j, flag, rows[j].tickers \cup {c}))
  <2> DEFINE first == [rows[j] EXCEPT !.followUp = flag]
             half == [rows EXCEPT ![j] = first]
             more == rows[j].tickers \cup {c}
  <2>1. half[j] = first /\ first.tickers = rows[j].tickers
    BY <1>1 DEF Row
  <2>2. rows' = [half EXCEPT ![j].tickers = more]
    BY <1>2, <2>1
  <2>3. /\ [first EXCEPT !.tickers = more] = WithFollowUp(j, flag, more)
        /\ WithFollowUp(j, flag, more) \in Row
    BY <1>1, RowWithOK DEF WithFollowUp
  <2>4. rows' = [half EXCEPT ![j] = WithFollowUp(j, flag, more)]
    BY <2>1, <2>2, <2>3
  <2> HIDE DEF first
  <2>5. rows' = [rows EXCEPT ![j] = WithFollowUp(j, flag, more)]
    BY <2>4
  <2> QED  BY <2>3, <2>5, ReplaceOK
<1>3. ASSUME rows' = [rows EXCEPT ![j].followUp = flag] PROVE Becomes(j, WithFollowUp(j, flag, rows[j].tickers))
  <2>1. /\ [rows[j] EXCEPT !.followUp = flag] = WithFollowUp(j, flag, rows[j].tickers)
        /\ WithFollowUp(j, flag, rows[j].tickers) \in Row
    BY <1>1, RowWithOK DEF WithFollowUp
  <2>2. rows' = [rows EXCEPT ![j] = WithFollowUp(j, flag, rows[j].tickers)]
    BY <1>3, <2>1
  <2> QED  BY <2>1, <2>2, ReplaceOK
<1> QED  BY <1>2, <1>3

-----------------------------------------------------------------------------
\* Every step leaves the rows alone, adds one, or changes one.
LEMMA ActiveInRows == /\ ActiveRows \subseteq DOMAIN rows /\ NextRow \subseteq ActiveRows /\ Foremost \subseteq ActiveRows
BY DEF ActiveRows, NextRow, Foremost

LEMMA RowsAdded ==
    ASSUME AdmissionTypes, HeldOK
    PROVE  /\ \A c \in Client : EnqueueRow(c) => Added(NewRow("on_demand", FALSE, 0, {c}))
           /\ \A s \in Scheduler : SubmitSlot(s) => /\ tick[s].slot \in 1..MaxSlot
                                                  /\ Added(NewRow(TriggerOf(s, tick[s].slot), FALSE, tick[s].slot, {}))
           /\ RefreshValues => Added(NewRow("live", FALSE, 0, {}))
           /\ EnqueueStructural => Added(NewRow("performance", TRUE, 0, {}))
           /\ EnqueueResearch => Added(NewRow("on_demand", FALSE, 0, after.tickers))
<1>1. ASSUME NEW c \in Client, EnqueueRow(c) PROVE Added(NewRow("on_demand", FALSE, 0, {c}))
  BY <1>1, ZeroSlot, InsertOK DEF EnqueueRow
<1>2. ASSUME NEW s \in Scheduler, SubmitSlot(s)
      PROVE  tick[s].slot \in 1..MaxSlot /\ Added(NewRow(TriggerOf(s, tick[s].slot), FALSE, tick[s].slot, {}))
  <2>1. tick[s].slot \in 1..MaxSlot
    BY <1>2 DEF SubmitSlot, HeldOK
  <2>2. TriggerOf(s, tick[s].slot) \in {"on_demand", "live", "performance", "research", "reconciliation"}
    BY <2>1 DEF TriggerOf, Scheduler
  <2> QED  BY <1>2, <2>1, <2>2, ZeroSlot, InsertOK DEF SubmitSlot
<1>3. RefreshValues => Added(NewRow("live", FALSE, 0, {}))
  BY ZeroSlot, InsertOK DEF RefreshValues
<1>4. EnqueueStructural => Added(NewRow("performance", TRUE, 0, {}))
  BY ZeroSlot, InsertOK DEF EnqueueStructural
<1>5. EnqueueResearch => Added(NewRow("on_demand", FALSE, 0, after.tickers))
  BY ZeroSlot, InsertOK DEF EnqueueResearch, AdmissionTypes, AfterState
<1> QED  BY <1>1, <1>2, <1>3, <1>4, <1>5

LEMMA RowsChanged ==
    ASSUME AdmissionTypes, HeldOK
    PROVE  /\ \A c \in Client : AskFollowUp(c) /\ IsActive(call[c].job)
                => Becomes(call[c].job, WithFollowUp(call[c].job, TRUE, rows[call[c].job].tickers \cup {c}))
           /\ ClaimRow => \E j \in ActiveRows : /\ Becomes(j, WithStatus(j, "running"))
                                              /\ after' = [Rest EXCEPT !.at = "busy", !.job = j]
           /\ Succeeds => Becomes(after.job, WithStatus(after.job, "succeeded"))
           /\ Stops => \E outcome \in {"failed", "interrupted"} : Becomes(after.job, WithStatus(after.job, outcome))
           /\ Requeues => Becomes(after.job, WithStatus(after.job, "queued"))
           /\ TakeFollowUp => Becomes(after.job, WithFollowUp(after.job, FALSE, rows[after.job].tickers))
           /\ CancelRow => \E j \in DOMAIN rows : /\ rows[j].status = "queued"
                                               /\ Becomes(j, WithStatus(j, "interrupted"))
<1>1. ASSUME NEW c \in Client, AskFollowUp(c), IsActive(call[c].job)
      PROVE  Becomes(call[c].job, WithFollowUp(call[c].job, TRUE, rows[call[c].job].tickers \cup {c}))
  BY <1>1, FollowUpOK DEF AskFollowUp, HeldOK
<1>2. ASSUME ClaimRow PROVE \E j \in ActiveRows : /\ Becomes(j, WithStatus(j, "running"))
                                               /\ after' = [Rest EXCEPT !.at = "busy", !.job = j]
  <2>1. PICK j \in NextRow : /\ rows' = [rows EXCEPT ![j].status = "running"]
                             /\ after' = [Rest EXCEPT !.at = "busy", !.job = j]
    BY <1>2 DEF ClaimRow
  <2>2. j \in ActiveRows /\ j \in DOMAIN rows
    BY ActiveInRows
  <2>3. Becomes(j, WithStatus(j, "running"))
    BY <2>1, <2>2, StatusOK DEF Active
  <2> QED  BY <2>1, <2>2, <2>3
<1>3. Succeeds => Becomes(after.job, WithStatus(after.job, "succeeded"))
  BY StatusOK DEF Succeeds, HeldOK, Ended
<1>4. ASSUME Stops PROVE \E outcome \in {"failed", "interrupted"} : Becomes(after.job, WithStatus(after.job, outcome))
  BY <1>4, StatusOK DEF Stops, HeldOK, Ended
<1>5. Requeues => Becomes(after.job, WithStatus(after.job, "queued"))
  BY StatusOK DEF Requeues, HeldOK, Active
<1>6. TakeFollowUp => Becomes(after.job, WithFollowUp(after.job, FALSE, rows[after.job].tickers))
  BY FollowUpOK DEF TakeFollowUp, HeldOK
<1>7. CancelRow => \E j \in DOMAIN rows : rows[j].status = "queued" /\ Becomes(j, WithStatus(j, "interrupted"))
  BY StatusOK DEF CancelRow, Ended
<1> QED  BY <1>1, <1>2, <1>3, <1>4, <1>5, <1>6, <1>7

LEMMA ClientTypes ==
    ASSUME AdmissionTypes, HeldOK, NEW c \in Client, ClientStep(c)
    PROVE  AdmissionTypes' /\ HeldOK'
<1>1. CASE Ask(c)
  BY <1>1 DEF Ask, AdmissionTypes, CallState, HeldOK, Requested
<1>2. CASE EnqueueRow(c)
  <2>1. Added(NewRow("on_demand", FALSE, 0, {c}))
    BY <1>2, RowsAdded
  <2> QED  BY <1>2, <2>1 DEF EnqueueRow, Added, AdmissionTypes, CallState, HeldOK, Requested
<1>3. CASE LookForActive(c)
  <2>1. \A j \in Foremost : j \in DOMAIN rows /\ j \in 0..MaxRows
    BY ActiveInRows, RowsOfSeq DEF AdmissionTypes
  <2>2. call[c].at = "refused" /\ call[c].job = 0
    BY <1>3 DEF LookForActive, HeldOK
  <2>3. PICK h \in CallState : /\ call' = [call EXCEPT ![c] = h]
                               /\ \/ h.at = "told" /\ h.job = 0
                                  \/ h.at = "asking" /\ h.job \in DOMAIN rows
    <3>1. CASE Foremost = {} /\ call' = [call EXCEPT ![c].at = "told"]
      <4>1. [at |-> "told", job |-> 0] \in CallState
        BY DEF CallState
      <4>2. call' = [call EXCEPT ![c] = [at |-> "told", job |-> 0]]
        <5>1. call[c] \in CallState
          BY DEF AdmissionTypes
        <5>2. [call[c] EXCEPT !.at = "told"] = [at |-> "told", job |-> 0]
          BY <2>2, <5>1 DEF CallState
        <5> QED  BY <3>1, <5>2
      <4> QED  BY <4>1, <4>2
    <3>2. ASSUME NEW j \in Foremost, call' = [call EXCEPT ![c] = [at |-> "asking", job |-> j]]
          PROVE  \E h \in CallState : /\ call' = [call EXCEPT ![c] = h]
                                      /\ \/ h.at = "told" /\ h.job = 0
                                         \/ h.at = "asking" /\ h.job \in DOMAIN rows
      <4>1. [at |-> "asking", job |-> j] \in CallState
        BY <2>1 DEF CallState
      <4> QED  BY <2>1, <3>2, <4>1
    <3> QED  BY <1>3, <3>1, <3>2 DEF LookForActive
  <2>4. call' \in [Client -> CallState] /\ call'[c] = h /\ \A x \in Client \ {c} : call'[x] = call[x]
    BY <2>3 DEF AdmissionTypes
  <2> QED  BY <1>3, <2>3, <2>4 DEF LookForActive, AdmissionTypes, HeldOK, Requested
<1>4. CASE AskFollowUp(c)
  <2>1. call[c].at = "asking" /\ call[c].job \in DOMAIN rows
    BY <1>4 DEF AskFollowUp, HeldOK
  <2>2. /\ call' \in [Client -> CallState] /\ \A x \in Client \ {c} : call'[x] = call[x]
        /\ call'[c].job = call[c].job /\ call'[c].at \in {"told", "error"}
    BY <1>4 DEF AskFollowUp, AdmissionTypes, CallState
  <2>3. CASE IsActive(call[c].job)
    <3>1. Becomes(call[c].job, WithFollowUp(call[c].job, TRUE, rows[call[c].job].tickers \cup {c}))
      BY <1>4, <2>3, RowsChanged
    <3>2. \A j \in DOMAIN rows : rows'[j].status = rows[j].status
      BY <3>1 DEF Becomes, WithFollowUp, RowWith
    <3> QED  BY <1>4, <2>1, <2>2, <3>1, <3>2 DEF AskFollowUp, Becomes, AdmissionTypes, HeldOK, Requested
  <2>4. CASE ~IsActive(call[c].job)
    BY <1>4, <2>1, <2>2, <2>4 DEF AskFollowUp, AdmissionTypes, HeldOK, Requested
  <2> QED  BY <2>3, <2>4
<1> QED  BY <1>1, <1>2, <1>3, <1>4 DEF ClientStep

LEMMA SchedulerTypes ==
    ASSUME AdmissionTypes, HeldOK, NEW s \in Scheduler, SchedulerStep(s)
    PROVE  AdmissionTypes' /\ HeldOK'
<1>1. CASE Tick(s)
  <2>1. /\ tick' \in [Scheduler -> TickState] /\ tick'[s].slot = slot
        /\ \A x \in Scheduler \ {s} : tick'[x] = tick[x]
    BY <1>1 DEF Tick, AdmissionTypes, TickState
  <2> QED  BY <1>1, <2>1 DEF Tick, AdmissionTypes, HeldOK, Requested
<1>2. CASE SubmitSlot(s)
  <2>3. Added(NewRow(TriggerOf(s, tick[s].slot), FALSE, tick[s].slot, {}))
    BY <1>2, RowsAdded
  <2>4. tick' \in [Scheduler -> TickState] /\ \A x \in Scheduler : tick'[x].at = "admitted" => tick'[x] = tick[x]
    BY <1>2 DEF SubmitSlot, AdmissionTypes, TickState
  <2> QED  BY <1>2, <2>3, <2>4 DEF SubmitSlot, Added, AdmissionTypes, HeldOK, Requested
<1>3. CASE Retry(s) \/ Wake(s)
  <2>1. tick' \in [Scheduler -> TickState] /\ \A x \in Scheduler : tick'[x].at = "admitted" => tick'[x] = tick[x]
    BY <1>3 DEF Retry, Wake, AdmissionTypes, TickState
  <2>2. wakes' \in 0..MaxWakes
    BY <1>3 DEF Retry, Wake, AdmissionTypes
  <2> QED  BY <1>3, <2>1, <2>2 DEF Retry, Wake, AdmissionTypes, HeldOK, Requested
<1> QED  BY <1>1, <1>2, <1>3 DEF SchedulerStep

LEMMA WorkerTypes ==
    ASSUME AdmissionTypes, HeldOK, WorkerStep
    PROVE  AdmissionTypes' /\ HeldOK'
<1>0. after.job \in 0..MaxRows /\ Rest \in AfterState
  BY DEF AdmissionTypes, AfterState, Rest
<1>1. CASE ClaimRow
  <2>1. PICK j \in ActiveRows : Becomes(j, WithStatus(j, "running")) /\ after' = [Rest EXCEPT !.at = "busy", !.job = j]
    BY <1>1, RowsChanged
  <2>2. j \in DOMAIN rows /\ j \in 0..MaxRows /\ after.at = "idle"
    BY <1>1, ActiveInRows, RowsOfSeq DEF ClaimRow, AdmissionTypes
  <2>4. after' \in AfterState /\ after'.at = "busy" /\ after'.job = j
    BY <2>1, <2>2 DEF Rest, AfterState
  <2> QED  BY <1>1, <2>1, <2>2, <2>4 DEF ClaimRow, Becomes, WithStatus, RowWith, AdmissionTypes, HeldOK, Requested
<1>2. CASE Succeeds
  <2>1. after.at = "busy" /\ after.job \in DOMAIN rows
    BY <1>2 DEF Succeeds, HeldOK
  <2>2. Becomes(after.job, WithStatus(after.job, "succeeded"))
    BY <1>2, RowsChanged
  <2>3. after' \in AfterState /\ after'.at \in {"look", "consume"} /\ after'.job = after.job
    <3>1. PICK next \in {"look", "consume"} : after' = [after EXCEPT !.at = next]
      BY <1>2 DEF Succeeds
    <3> QED  BY <3>1 DEF AdmissionTypes, AfterState
  <2> QED  BY <1>2, <2>1, <2>2, <2>3 DEF Succeeds, Becomes, WithStatus, RowWith, AdmissionTypes, HeldOK, Requested
<1>3. CASE Stops
  <2>1. after.at = "busy" /\ after.job \in DOMAIN rows
    BY <1>3 DEF Stops, HeldOK
  <2>2. PICK outcome \in {"failed", "interrupted"} : Becomes(after.job, WithStatus(after.job, outcome))
    BY <1>3, RowsChanged
  <2> QED  BY <1>0, <1>3, <2>1, <2>2 DEF Stops, Rest, Becomes, AdmissionTypes, HeldOK, Requested
<1>4. CASE LookForStructural
  <2>1. after' \in AfterState /\ after'.at \in {"consume", "structural"} /\ after'.job = after.job /\ after.at = "look"
    BY <1>4 DEF LookForStructural, AdmissionTypes, AfterState
  <2> QED  BY <1>4, <2>1 DEF LookForStructural, AdmissionTypes, HeldOK, Requested
<1>5. CASE EnqueueStructural
  <2>1. Added(NewRow("performance", TRUE, 0, {}))
    BY <1>5, RowsAdded
  <2>2. after' \in AfterState /\ after'.at = "consume" /\ after'.job = after.job /\ after.at = "structural"
    BY <1>5 DEF EnqueueStructural, AdmissionTypes, AfterState
  <2> QED  BY <1>5, <2>1, <2>2 DEF EnqueueStructural, Added, AdmissionTypes, HeldOK, Requested
<1>6. CASE TakeFollowUp
  <2>1. after.at = "consume" /\ after.job \in DOMAIN rows
    BY <1>6 DEF TakeFollowUp, HeldOK
  <2>2. Becomes(after.job, WithFollowUp(after.job, FALSE, rows[after.job].tickers))
    BY <1>6, RowsChanged
  <2>3. rows[after.job].tickers \in SUBSET Client
    BY <2>1, RowsOfSeq DEF AdmissionTypes, Row
  <2>4. \/ after' = Rest
        \/ after' \in AfterState /\ after'.at = "research" /\ after'.job = after.job
    BY <1>6, <2>3 DEF TakeFollowUp, AdmissionTypes, AfterState
  <2>5. after'.at # "idle" => after'.job = after.job /\ after'.at = "research"
    BY <2>4 DEF Rest
  <2>6. \A j \in DOMAIN rows : rows'[j].status = rows[j].status
    BY <2>2 DEF Becomes, WithFollowUp, RowWith
  <2> QED  BY <1>0, <1>6, <2>1, <2>2, <2>4, <2>5, <2>6 DEF TakeFollowUp, Becomes, AdmissionTypes, HeldOK, Requested
<1>7. CASE EnqueueResearch
  <2>1. Added(NewRow("on_demand", FALSE, 0, after.tickers))
    BY <1>7, RowsAdded
  <2> QED  BY <1>0, <1>7, <2>1 DEF EnqueueResearch, Rest, Added, AdmissionTypes, HeldOK, Requested
<1> QED  BY <1>1, <1>2, <1>3, <1>4, <1>5, <1>6, <1>7 DEF WorkerStep

LEMMA FaultTypes ==
    ASSUME AdmissionTypes, HeldOK, WorkerFault
    PROVE  AdmissionTypes' /\ HeldOK' /\ faults' > 0
<1>0. Rest \in AfterState /\ faults' \in 0..MaxFaults /\ faults' > 0
  BY DEF Rest, AfterState, WorkerFault, AdmissionTypes
<1>1. CASE Requeues
  <2>1. after.at = "busy" /\ after.job \in DOMAIN rows
    BY <1>1 DEF Requeues, HeldOK
  <2>2. Becomes(after.job, WithStatus(after.job, "queued"))
    BY <1>1, RowsChanged
  <2> QED  BY <1>0, <1>1, <2>1, <2>2 DEF WorkerFault, Requeues, Rest, Becomes, AdmissionTypes, HeldOK, Requested
<1>2. CASE Dies
  BY <1>0, <1>2 DEF WorkerFault, Dies, Rest, AdmissionTypes, HeldOK, Requested
<1>3. CASE EnqueueRaises
  <2>1. after' \in AfterState /\ (after'.at # "idle" => after'.at = "consume" /\ after'.job = after.job /\ after.at = "structural")
    BY <1>0, <1>3 DEF EnqueueRaises, Rest, AdmissionTypes, AfterState
  <2> QED  BY <1>0, <1>3, <2>1 DEF WorkerFault, EnqueueRaises, AdmissionTypes, HeldOK, Requested
<1> QED  BY <1>1, <1>2, <1>3 DEF WorkerFault

LEMMA OtherTypes ==
    ASSUME AdmissionTypes, HeldOK, SlotPasses \/ RefreshValues \/ CancelRow \/ UNCHANGED admissionVars
    PROVE  AdmissionTypes' /\ HeldOK'
<1>1. CASE SlotPasses
  <2>0. slot' \in 1..MaxSlot
    BY <1>1 DEF SlotPasses, AdmissionTypes
  <2>1. /\ tick' \in [Scheduler -> TickState]
        /\ \A x \in Scheduler : tick'[x].at = "admitted" => tick'[x] = tick[x]
    BY <1>1 DEF SlotPasses, AdmissionTypes, TickState
  <2> QED  BY <1>1, <2>0, <2>1 DEF SlotPasses, AdmissionTypes, HeldOK, Requested
<1>2. CASE RefreshValues
  <2>1. Added(NewRow("live", FALSE, 0, {}))
    BY <1>2, RowsAdded
  <2> QED  BY <1>2, <2>1 DEF RefreshValues, Added, AdmissionTypes, HeldOK, Requested
<1>3. CASE CancelRow
  <2>1. PICK j \in DOMAIN rows : rows[j].status = "queued" /\ Becomes(j, WithStatus(j, "interrupted"))
    BY <1>3, RowsChanged
  <2> QED  BY <1>3, <2>1 DEF CancelRow, Becomes, WithStatus, RowWith, AdmissionTypes, HeldOK, Requested
<1>4. CASE UNCHANGED admissionVars
  BY <1>4 DEF admissionVars, AdmissionTypes, HeldOK, Requested
<1> QED  BY <1>1, <1>2, <1>3, <1>4

LEMMA AdmissionTypeStep ==
    AdmissionTypes /\ HeldOK /\ [AdmissionNext]_admissionVars => AdmissionTypes' /\ HeldOK'
BY ClientTypes, SchedulerTypes, WorkerTypes, FaultTypes, OtherTypes DEF AdmissionNext

-----------------------------------------------------------------------------
NoNewStructural(j, row) ==
    (row.structural => rows[j].structural) /\ (row.status \in Active => rows[j].status \in Active)
LEMMA StructuralKept ==
    ASSUME AdmissionTypes, StructuralOK, after'.at = "structural" => after.at = "structural",
           \/ rows' = rows
           \/ \E row \in Row : Added(row) /\ ~row.structural
           \/ \E j \in DOMAIN rows, row \in Row : Becomes(j, row) /\ NoNewStructural(j, row)
    PROVE  StructuralOK'
<1>1. CASE rows' = rows
  BY <1>1 DEF StructuralOK, ActiveRows, IsActive
<1>2. ASSUME NEW row \in Row, Added(row), ~row.structural PROVE StructuralOK'
  <2>1. \A j \in ActiveRows' : rows'[j].structural => j \in ActiveRows /\ rows[j].structural
    BY <1>2, RowsOfSeq DEF Added, ActiveRows, IsActive, AdmissionTypes
  <2>2. \A j \in ActiveRows : rows'[j].structural = rows[j].structural
    BY <1>2 DEF Added, ActiveRows
  <2> QED  BY <2>1, <2>2 DEF StructuralOK
<1>3. ASSUME NEW j \in DOMAIN rows, NEW row \in Row, Becomes(j, row), NoNewStructural(j, row)
      PROVE  StructuralOK'
  <2>1. \A k \in ActiveRows' : k \in ActiveRows /\ (rows'[k].structural => rows[k].structural)
    BY <1>3 DEF Becomes, NoNewStructural, ActiveRows, IsActive
  <2> QED  BY <2>1 DEF StructuralOK
<1> QED  BY <1>1, <1>2, <1>3

LEMMA DailyKept ==
    ASSUME AdmissionTypes, DailyOK, tick'["daily"].at = "admitted" => tick'["daily"] = tick["daily"],
           \/ rows' = rows
           \/ \E row \in Row : Added(row) /\ row.trigger \notin Triggers("daily")
           \/ \E j \in DOMAIN rows, row \in Row : Becomes(j, row) /\ row.trigger = rows[j].trigger /\ row.for = rows[j].for
    PROVE  DailyOK'
<1>0. rows \in Seq(Row) /\ DOMAIN rows = 1..Len(rows) /\ Len(rows) \in Nat
  BY RowsOfSeq DEF AdmissionTypes
<1>1. ASSUME \A j \in RowsOf("daily")' : j \in RowsOf("daily") /\ rows'[j].for = rows[j].for PROVE DailyOK'
  BY <1>1 DEF DailyOK
<1>2. CASE rows' = rows
  BY <1>1, <1>2 DEF RowsOf
<1>3. ASSUME NEW row \in Row, Added(row), row.trigger \notin Triggers("daily") PROVE DailyOK'
  <2>1. \A j \in RowsOf("daily")' : j \in RowsOf("daily") /\ rows'[j].for = rows[j].for
    BY <1>0, <1>3 DEF Added, RowsOf
  <2> QED  BY <1>1, <2>1
<1>4. ASSUME NEW j \in DOMAIN rows, NEW row \in Row, Becomes(j, row), row.trigger = rows[j].trigger, row.for = rows[j].for
      PROVE  DailyOK'
  <2>1. \A k \in RowsOf("daily")' : k \in RowsOf("daily") /\ rows'[k].for = rows[k].for
    BY <1>4 DEF Becomes, RowsOf
  <2> QED  BY <1>1, <2>1
<1> QED  BY <1>2, <1>3, <1>4

\* What has become of the request of c that joined a job.
FollowUpFor(c) ==
    Requested(c) /\ faults = 0 =>
        LET j == call[c].job
        IN  \/ IsActive(j) /\ Flagged(c, j)
            \/ after.job = j /\ after.at \in {"look", "structural", "consume"} /\ Flagged(c, j)
            \/ after.at = "research" /\ c \in after.tickers
            \/ Served(c, j)
            \/ rows[j].status \in {"failed", "interrupted"}
GrowsOnly(k, row) ==
    /\ row.trigger = rows[k].trigger /\ row.status = rows[k].status
    /\ rows[k].tickers \subseteq row.tickers /\ (rows[k].followUp => row.followUp)

LEMMA ServedKept ==
    ASSUME NEW c \in Client, NEW j \in DOMAIN rows, Served(c, j),
           \/ rows' = rows
           \/ \E row \in Row : Added(row)
           \/ \E k \in DOMAIN rows, row \in Row : /\ Becomes(k, row) /\ row.trigger = rows[k].trigger
                                                 /\ rows[k].tickers \subseteq row.tickers
    PROVE  Served(c, j)'
<1>0. PICK k \in DOMAIN rows : k > j /\ rows[k].trigger = "on_demand" /\ c \in rows[k].tickers
  BY DEF Served
<1>1. k \in DOMAIN rows' /\ rows'[k].trigger = "on_demand" /\ c \in rows'[k].tickers
  BY <1>0 DEF Added, Becomes
<1> QED  BY <1>0, <1>1 DEF Served

LEMMA JobKept ==
    ASSUME NEW c \in Client, NEW j \in DOMAIN rows,
           \/ rows' = rows
           \/ \E row \in Row : Added(row)
           \/ \E k \in DOMAIN rows, row \in Row : Becomes(k, row) /\ GrowsOnly(k, row)
    PROVE  /\ Flagged(c, j) => Flagged(c, j)'
           /\ rows'[j].status = rows[j].status
           /\ Served(c, j) => Served(c, j)'
<1>1. CASE rows' = rows \/ \E row \in Row : Added(row)
  <2>1. rows'[j] = rows[j]
    BY <1>1 DEF Added
  <2> QED  BY <1>1, <2>1, ServedKept DEF Flagged
<1>2. ASSUME NEW k \in DOMAIN rows, NEW row \in Row, Becomes(k, row), GrowsOnly(k, row)
      PROVE  /\ Flagged(c, j) => Flagged(c, j)'
             /\ rows'[j].status = rows[j].status
             /\ Served(c, j) => Served(c, j)'
  <2>0. Served(c, j) => Served(c, j)'
    BY <1>2, ServedKept DEF GrowsOnly
  <2>1. CASE j = k
    BY <1>2, <2>0, <2>1 DEF Becomes, Flagged, GrowsOnly
  <2>2. CASE j # k
    <3>1. rows'[j] = rows[j]
      BY <1>2, <2>2 DEF Becomes
    <3> QED  BY <2>0, <3>1 DEF Flagged
  <2> QED  BY <2>1, <2>2
<1> QED  BY <1>1, <1>2

LEMMA StatusMoves ==
    ASSUME NEW c \in Client, NEW j \in DOMAIN rows, NEW k \in DOMAIN rows, NEW outcome, Becomes(k, WithStatus(k, outcome)),
           rows \in Seq(Row)
    PROVE  /\ Flagged(c, j) => Flagged(c, j)'
           /\ rows'[j].status = IF j = k THEN outcome ELSE rows[j].status
           /\ Served(c, j) => Served(c, j)'
<1>1. /\ rows'[j].status = IF j = k THEN outcome ELSE rows[j].status
      /\ rows'[j].tickers = rows[j].tickers /\ rows'[j].followUp = rows[j].followUp
  BY DEF Becomes, WithStatus, RowWith
<1>2. ASSUME Served(c, j) PROVE Served(c, j)'
  <2>1. PICK n \in DOMAIN rows : n > j /\ rows[n].trigger = "on_demand" /\ c \in rows[n].tickers
    BY <1>2 DEF Served
  <2>2. n \in DOMAIN rows' /\ rows'[n].trigger = "on_demand" /\ c \in rows'[n].tickers
    BY <2>1 DEF Becomes, WithStatus, RowWith
  <2> QED  BY <2>1, <2>2 DEF Served
<1> QED  BY <1>1, <1>2 DEF Flagged

LEMMA FollowKept ==
    ASSUME HeldOK, NEW c \in Client, FollowUpFor(c), Requested(c)' /\ faults' = 0,
           Requested(c), faults = 0, call'[c].job = call[c].job,
           \/ rows' = rows
           \/ \E row \in Row : Added(row)
           \/ \E k \in DOMAIN rows, row \in Row : Becomes(k, row) /\ GrowsOnly(k, row),
           \/ after' = after
           \/ after.at \notin {"look", "structural", "consume", "research"}
           \/ after.at \in {"look", "structural"} /\ after'.at \in {"structural", "consume"} /\ after'.job = after.job
    PROVE  FollowUpFor(c)'
<1>1. PICK j \in DOMAIN rows : j = call[c].job
  BY DEF HeldOK
<1>2. /\ Flagged(c, j) => Flagged(c, j)'
      /\ rows'[j].status = rows[j].status
      /\ Served(c, j) => Served(c, j)'
  BY <1>1, JobKept
<1>3. \/ IsActive(j) /\ Flagged(c, j)
      \/ after.job = j /\ after.at \in {"look", "structural", "consume"} /\ Flagged(c, j)
      \/ after.at = "research" /\ c \in after.tickers
      \/ Served(c, j)
      \/ rows[j].status \in {"failed", "interrupted"}
  BY <1>1 DEF FollowUpFor
<1>4. call'[c].job = j
  BY <1>1
<1>5. \/ IsActive(j)' /\ Flagged(c, j)'
      \/ after'.job = j /\ after'.at \in {"look", "structural", "consume"} /\ Flagged(c, j)'
      \/ after'.at = "research" /\ c \in after'.tickers
      \/ Served(c, j)'
      \/ rows'[j].status \in {"failed", "interrupted"}
  BY <1>2, <1>3 DEF IsActive
<1> QED  BY <1>4, <1>5 DEF FollowUpFor, IsActive, Flagged, Served

LEMMA StructuralStep ==
    AdmissionTypes /\ HeldOK /\ StructuralOK /\ [AdmissionNext]_admissionVars => StructuralOK'
<1> SUFFICES ASSUME AdmissionTypes, HeldOK, StructuralOK, [AdmissionNext]_admissionVars PROVE StructuralOK'
  OBVIOUS
<1>1. ASSUME rows' = rows, after'.at = "structural" => after.at = "structural" PROVE StructuralOK'
  BY <1>1, StructuralKept
<1>2. ASSUME NEW c \in Client, ClientStep(c) PROVE StructuralOK'
  <2>1. CASE EnqueueRow(c)
    <3>1. \E row \in Row : Added(row) /\ ~row.structural
      BY <2>1, RowsAdded DEF Added, NewRow
    <3> QED  BY <2>1, <3>1, StructuralKept DEF EnqueueRow
  <2>2. CASE AskFollowUp(c) /\ IsActive(call[c].job)
    <3> DEFINE j == call[c].job
               row == WithFollowUp(j, TRUE, rows[j].tickers \cup {c})
    <3>1. Becomes(j, row) /\ j \in DOMAIN rows
      BY <2>2, RowsChanged DEF Becomes
    <3>2. row \in Row /\ NoNewStructural(j, row)
      BY <3>1, RowsOfSeq DEF Becomes, WithFollowUp, RowWith, NoNewStructural
    <3> HIDE DEF row
    <3> QED  BY <2>2, <3>1, <3>2, StructuralKept DEF AskFollowUp
  <2> QED  BY <1>1, <1>2, <2>1, <2>2 DEF ClientStep, Ask, LookForActive, AskFollowUp
<1>3. ASSUME NEW s \in Scheduler, SchedulerStep(s) PROVE StructuralOK'
  <2>1. CASE SubmitSlot(s)
    <3>1. \E row \in Row : Added(row) /\ ~row.structural
      BY <2>1, RowsAdded DEF Added, NewRow
    <3> QED  BY <2>1, <3>1, StructuralKept DEF SubmitSlot
  <2> QED  BY <1>1, <1>3, <2>1 DEF SchedulerStep, Tick, Retry, Wake
<1>4. CASE RefreshValues \/ EnqueueResearch
  <2>1. \E row \in Row : Added(row) /\ ~row.structural
    BY <1>4, RowsAdded DEF Added, NewRow
  <2>2. after'.at = "structural" => after.at = "structural"
    <3>1. Rest.at = "idle"
      BY DEF Rest
    <3> QED  BY <1>4, <3>1 DEF RefreshValues, EnqueueResearch
  <2> QED  BY <2>1, <2>2, StructuralKept
<1>5. ASSUME NEW j \in DOMAIN rows, NEW outcome \in Active \cup Ended, Becomes(j, WithStatus(j, outcome)),
             outcome \in Active => rows[j].status \in Active, after'.at = "structural" => after.at = "structural"
      PROVE  StructuralOK'
  <2>1. WithStatus(j, outcome) \in Row /\ NoNewStructural(j, WithStatus(j, outcome))
    BY <1>5 DEF Becomes, WithStatus, RowWith, NoNewStructural
  <2> QED  BY <1>5, <2>1, StructuralKept
<1>6. CASE ClaimRow
  <2>1. PICK j \in ActiveRows : Becomes(j, WithStatus(j, "running")) /\ after' = [Rest EXCEPT !.at = "busy", !.job = j]
    BY <1>6, RowsChanged
  <2> QED  BY <1>5, <2>1 DEF ActiveRows, IsActive, Active, Rest
<1>7. CASE Succeeds \/ Stops \/ CancelRow
  <2>1. \E j \in DOMAIN rows, outcome \in Ended : Becomes(j, WithStatus(j, outcome))
    BY <1>7, RowsChanged DEF Becomes, Ended
  <2>2. after'.at = "structural" => after.at = "structural"
    BY <1>7 DEF Succeeds, Stops, CancelRow, Rest, AdmissionTypes, AfterState
  <2> QED  BY <1>5, <2>1, <2>2 DEF Active, Ended
<1>8. CASE TakeFollowUp
  <2> DEFINE row == WithFollowUp(after.job, FALSE, rows[after.job].tickers)
  <2>1. Becomes(after.job, row) /\ after.job \in DOMAIN rows
    BY <1>8, RowsChanged DEF Becomes
  <2>2. row \in Row /\ NoNewStructural(after.job, row)
    BY <2>1 DEF Becomes, WithFollowUp, RowWith, NoNewStructural
  <2>3. after'.at # "structural"
    BY <1>8 DEF TakeFollowUp, Rest, AdmissionTypes, AfterState
  <2> HIDE DEF row
  <2> QED  BY <2>1, <2>2, <2>3, StructuralKept
<1>9. CASE LookForStructural
  BY <1>9 DEF LookForStructural, PendingStructural, StructuralOK, ActiveRows, IsActive, AdmissionTypes, AfterState
<1>10. CASE EnqueueStructural
  <2>1. Added(NewRow("performance", TRUE, 0, {})) /\ after.at = "structural" /\ after'.at = "consume"
    BY <1>10, RowsAdded DEF EnqueueStructural, AdmissionTypes, AfterState
  <2>2. \A j \in ActiveRows' : rows'[j].structural => j = Len(rows')
    BY <2>1 DEF Added, StructuralOK, ActiveRows, IsActive
  <2> QED  BY <2>1, <2>2 DEF StructuralOK
<1>11. CASE WorkerFault
  <2>1. CASE Requeues
    <3>1. Becomes(after.job, WithStatus(after.job, "queued")) /\ after.job \in DOMAIN rows
      BY <2>1, RowsChanged DEF Becomes
    <3>2. rows[after.job].status \in Active /\ after'.at # "structural"
      BY <2>1 DEF Requeues, HeldOK, Active, Rest
    <3> QED  BY <1>5, <3>1, <3>2 DEF Active
  <2>2. CASE Dies \/ EnqueueRaises
    BY <1>1, <2>2 DEF Dies, EnqueueRaises, Rest, AdmissionTypes, AfterState
  <2> QED  BY <1>11, <2>1, <2>2 DEF WorkerFault
<1>12. CASE SlotPasses \/ UNCHANGED admissionVars
  BY <1>1, <1>12 DEF SlotPasses, admissionVars
<1> QED
  BY <1>2, <1>3, <1>4, <1>6, <1>7, <1>8, <1>9, <1>10, <1>11, <1>12 DEF AdmissionNext, WorkerStep

LEMMA DailyStep == AdmissionTypes /\ HeldOK /\ DailyOK /\ [AdmissionNext]_admissionVars => DailyOK'
<1> SUFFICES ASSUME AdmissionTypes, HeldOK, DailyOK, [AdmissionNext]_admissionVars PROVE DailyOK'
  OBVIOUS
<1>0. "daily" \in Scheduler /\ tick["daily"] \in TickState
  BY DEF Scheduler, AdmissionTypes
<1>1. ASSUME rows' = rows, tick'["daily"].at = "admitted" => tick'["daily"] = tick["daily"] PROVE DailyOK'
  BY <1>1, DailyKept
<1>2. ASSUME tick' = tick, \E row \in Row : Added(row) /\ row.trigger \notin Triggers("daily") PROVE DailyOK'
  BY <1>2, DailyKept
<1>3. ASSUME tick' = tick, NEW j \in DOMAIN rows, NEW row \in Row, Becomes(j, row),
             row.trigger = rows[j].trigger, row.for = rows[j].for
      PROVE  DailyOK'
  BY <1>3, DailyKept
<1>4. ASSUME NEW c \in Client, ClientStep(c) PROVE DailyOK'
  <2>1. CASE EnqueueRow(c)
    <3>1. \E row \in Row : Added(row) /\ row.trigger \notin Triggers("daily")
      BY <2>1, RowsAdded DEF Added, NewRow, Triggers
    <3> QED  BY <1>2, <2>1, <3>1 DEF EnqueueRow
  <2>2. CASE AskFollowUp(c) /\ IsActive(call[c].job)
    <3> DEFINE j == call[c].job
               row == WithFollowUp(j, TRUE, rows[j].tickers \cup {c})
    <3>1. Becomes(j, row) /\ j \in DOMAIN rows
      BY <2>2, RowsChanged DEF Becomes
    <3>2. row \in Row /\ row.trigger = rows[j].trigger /\ row.for = rows[j].for
      BY <3>1, RowsOfSeq DEF Becomes, WithFollowUp, RowWith
    <3> HIDE DEF row
    <3> QED  BY <1>3, <2>2, <3>1, <3>2 DEF AskFollowUp
  <2> QED  BY <1>1, <1>4, <2>1, <2>2 DEF ClientStep, Ask, LookForActive, AskFollowUp
<1>5. ASSUME NEW s \in Scheduler, Tick(s) PROVE DailyOK'
  <2>1. CASE s = "daily"
    <3>1. /\ tick'["daily"].slot = slot /\ rows' = rows
          /\ tick'["daily"].at = "admitted" => ~Attempted("daily", slot)
      BY <1>0, <1>5, <2>1 DEF Tick, AdmissionTypes
    <3> QED  BY <3>1 DEF DailyOK, Attempted, RowsOf
  <2>2. CASE s # "daily"
    BY <1>0, <1>1, <1>5, <2>2 DEF Tick, AdmissionTypes
  <2> QED  BY <2>1, <2>2
<1>6. ASSUME NEW s \in Scheduler, SubmitSlot(s) PROVE DailyOK'
  <2> DEFINE n == tick[s].slot
             row == NewRow(TriggerOf(s, n), FALSE, n, {})
  <2>0. n \in 1..MaxSlot /\ Added(row)
    BY <1>6, RowsAdded
  <2>1. CASE s = "daily"
    <3>1. tick'["daily"].at # "admitted"
      BY <1>0, <1>6, <2>1 DEF SubmitSlot, AdmissionTypes
    <3>2. \A j \in RowsOf("daily") : rows[j].for # n
      BY <1>6, <2>1 DEF SubmitSlot, DailyOK
    <3>3. \A j \in RowsOf("daily")' : \/ j \in RowsOf("daily") /\ rows'[j].for = rows[j].for
                                      \/ j = Len(rows') /\ rows'[j].for = n
      BY <2>0 DEF Added, RowsOf, NewRow
    <3> QED  BY <3>1, <3>2, <3>3 DEF DailyOK
  <2>2. CASE s # "daily"
    <3>1. tick'["daily"] = tick["daily"]
      BY <1>0, <1>6, <2>2 DEF SubmitSlot, AdmissionTypes
    <3>2. \E r \in Row : Added(r) /\ r.trigger \notin Triggers("daily")
      BY <2>0, <2>2 DEF Added, NewRow, Triggers, TriggerOf, Scheduler
    <3> QED  BY <3>1, <3>2, DailyKept
  <2> QED  BY <2>1, <2>2
<1>7. ASSUME NEW s \in Scheduler, Retry(s) \/ Wake(s) PROVE DailyOK'
  <2>1. rows' = rows /\ tick' = [tick EXCEPT ![s].at = "awake"]
    BY <1>7 DEF Retry, Wake
  <2>2. tick'["daily"].at = "admitted" => tick'["daily"] = tick["daily"]
    BY <1>0, <2>1 DEF AdmissionTypes, TickState
  <2> QED  BY <1>1, <2>1, <2>2
<1>8. CASE SlotPasses
  BY <1>0, <1>1, <1>8 DEF SlotPasses, AdmissionTypes, TickState
<1>9. CASE RefreshValues \/ EnqueueStructural \/ EnqueueResearch
  <2>1. \E row \in Row : Added(row) /\ row.trigger \notin Triggers("daily")
    BY <1>9, RowsAdded DEF Added, NewRow, Triggers
  <2> QED  BY <1>2, <1>9, <2>1 DEF RefreshValues, EnqueueStructural, EnqueueResearch
<1>10. CASE ClaimRow \/ Succeeds \/ Stops \/ CancelRow \/ (WorkerFault /\ Requeues)
  <2>1. \E j \in DOMAIN rows, outcome \in Active \cup Ended : Becomes(j, WithStatus(j, outcome))
    BY <1>10, RowsChanged DEF Becomes, Active, Ended
  <2>2. PICK j \in DOMAIN rows, outcome \in Active \cup Ended : Becomes(j, WithStatus(j, outcome))
    BY <2>1
  <2>3. /\ WithStatus(j, outcome) \in Row /\ WithStatus(j, outcome).trigger = rows[j].trigger
        /\ WithStatus(j, outcome).for = rows[j].for
    BY <2>2, RowsOfSeq DEF Becomes, WithStatus, RowWith
  <2>4. tick' = tick
    BY <1>10 DEF ClaimRow, Succeeds, Stops, CancelRow, WorkerFault
  <2> QED  BY <1>3, <2>2, <2>3, <2>4
<1>11. CASE TakeFollowUp
  <2> DEFINE row == WithFollowUp(after.job, FALSE, rows[after.job].tickers)
  <2>1. Becomes(after.job, row) /\ after.job \in DOMAIN rows
    BY <1>11, RowsChanged DEF Becomes
  <2>2. row \in Row /\ row.trigger = rows[after.job].trigger /\ row.for = rows[after.job].for
    BY <2>1 DEF Becomes, WithFollowUp, RowWith
  <2> HIDE DEF row
  <2> QED  BY <1>3, <1>11, <2>1, <2>2 DEF TakeFollowUp
<1>12. CASE LookForStructural \/ (WorkerFault /\ (Dies \/ EnqueueRaises)) \/ UNCHANGED admissionVars
  BY <1>1, <1>12 DEF LookForStructural, WorkerFault, Dies, EnqueueRaises, admissionVars
<1> QED
  BY <1>4, <1>5, <1>6, <1>7, <1>8, <1>9, <1>10, <1>11, <1>12 DEF AdmissionNext, SchedulerStep, WorkerStep, WorkerFault

LEMMA FollowUpStep ==
    ASSUME AdmissionTypes, HeldOK, NEW c \in Client, FollowUpFor(c), [AdmissionNext]_admissionVars
    PROVE  FollowUpFor(c)'
<1> SUFFICES ASSUME Requested(c)' /\ faults' = 0 PROVE FollowUpFor(c)'
  BY DEF FollowUpFor
<1>0. faults \in Nat /\ after \in AfterState /\ call[c] \in CallState
  BY DEF AdmissionTypes
\* A request becomes one that joined a job in AskFollowUp alone.
<1>1. CASE AskFollowUp(c)
  <2>1. call[c].at = "asking" /\ call[c].job \in DOMAIN rows
    BY <1>1 DEF AskFollowUp, HeldOK
  <2>2. PICK j \in DOMAIN rows : j = call[c].job
    BY <2>1
  <2>3. IsActive(j) /\ call'[c].job = j
    <3>1. call[c].at = "asking" /\ call'[c].at = "told"
      BY <1>1 DEF AskFollowUp, Requested
    <3>2. CASE IsActive(call[c].job)
      BY <1>0, <1>1, <2>2, <3>2 DEF AskFollowUp, AdmissionTypes, CallState
    <3>3. CASE ~IsActive(call[c].job)
      BY <1>0, <1>1, <3>1, <3>3 DEF AskFollowUp, AdmissionTypes, CallState
    <3> QED  BY <3>2, <3>3
  <2>4. Becomes(j, WithFollowUp(j, TRUE, rows[j].tickers \cup {c}))
    BY <1>1, <2>2, <2>3, RowsChanged
  <2>5. rows'[j].status = rows[j].status /\ rows'[j].followUp /\ c \in rows'[j].tickers
    BY <2>4 DEF Becomes, WithFollowUp, RowWith
  <2> QED  BY <2>3, <2>5 DEF FollowUpFor, IsActive, Flagged
<1>2. CASE ~AskFollowUp(c)
  <2>1. /\ Requested(c) /\ call'[c] = call[c] /\ (faults = 0 \/ WorkerFault)
    <3>1. ASSUME NEW d \in Client, ClientStep(d) PROVE Requested(c) /\ call'[c] = call[c] /\ faults = 0
      <4>1. CASE d = c
        <5>1. Ask(c) \/ EnqueueRow(c) => call'[c].at # "told"
          BY <1>0 DEF Ask, EnqueueRow, AdmissionTypes, CallState
        <5>2. LookForActive(c) => call'[c].at # "told" \/ call'[c].job = 0
          BY <1>0 DEF LookForActive, HeldOK, AdmissionTypes, CallState
        <5> QED  BY <1>2, <3>1, <4>1, <5>1, <5>2 DEF ClientStep, Requested
      <4>2. CASE d # c
        BY <1>0, <3>1, <4>2 DEF ClientStep, Ask, EnqueueRow, LookForActive, AskFollowUp, Requested, AdmissionTypes
      <4> QED  BY <4>1, <4>2
    <3>2. CASE call' = call /\ faults' = faults
      BY <3>2 DEF Requested
    <3>3. CASE WorkerFault
      BY <3>3 DEF WorkerFault, Requested
    <3> QED
      BY <3>1, <3>2, <3>3
      DEF AdmissionNext, SchedulerStep, Tick, SubmitSlot, Retry, Wake, SlotPasses, RefreshValues, CancelRow, WorkerStep,
          ClaimRow, Succeeds, Stops, LookForStructural, EnqueueStructural, TakeFollowUp, EnqueueResearch, admissionVars
  <2>2. ~WorkerFault /\ faults = 0
    BY <1>0, <2>1 DEF WorkerFault
  <2>3. PICK j \in DOMAIN rows : j = call[c].job /\ j = call'[c].job
    BY <2>1 DEF HeldOK
  <2>4. /\ \/ IsActive(j) /\ Flagged(c, j)
           \/ after.job = j /\ after.at \in {"look", "structural", "consume"} /\ Flagged(c, j)
           \/ after.at = "research" /\ c \in after.tickers
           \/ Served(c, j)
           \/ rows[j].status \in {"failed", "interrupted"}
        /\ rows \in Seq(Row)
    BY <2>1, <2>2, <2>3 DEF FollowUpFor, AdmissionTypes
  <2>5. ASSUME \/ rows' = rows
               \/ \E row \in Row : Added(row)
               \/ \E k \in DOMAIN rows, row \in Row : Becomes(k, row) /\ GrowsOnly(k, row),
               \/ after' = after
               \/ after.at \notin {"look", "structural", "consume", "research"}
               \/ after.at \in {"look", "structural"} /\ after'.at \in {"structural", "consume"} /\ after'.job = after.job
        PROVE  FollowUpFor(c)'
    BY <2>1, <2>2, <2>5, FollowKept
  <2>6. ASSUME \/ (IsActive(j) /\ Flagged(c, j))'
               \/ after'.job = j /\ after'.at \in {"look", "structural", "consume"} /\ Flagged(c, j)'
               \/ after'.at = "research" /\ c \in after'.tickers
               \/ Served(c, j)'
               \/ rows'[j].status \in {"failed", "interrupted"}
        PROVE  FollowUpFor(c)'
    BY <2>3, <2>6 DEF FollowUpFor, IsActive, Flagged, Served
  <2>7. ASSUME NEW d \in Client, ClientStep(d) PROVE FollowUpFor(c)'
    <3>1. CASE EnqueueRow(d)
      <4>1. \E row \in Row : Added(row)
        BY <3>1, RowsAdded DEF Added
      <4> QED  BY <2>5, <3>1, <4>1 DEF EnqueueRow
    <3>2. CASE AskFollowUp(d) /\ IsActive(call[d].job)
      <4> DEFINE k == call[d].job
                 row == WithFollowUp(k, TRUE, rows[k].tickers \cup {d})
      <4>1. Becomes(k, row) /\ k \in DOMAIN rows
        BY <3>2, RowsChanged DEF Becomes
      <4>2. row \in Row /\ GrowsOnly(k, row)
        BY <4>1, RowsOfSeq DEF Becomes, WithFollowUp, RowWith, GrowsOnly
      <4> HIDE DEF row
      <4> QED  BY <2>5, <3>2, <4>1, <4>2 DEF AskFollowUp
    <3> QED  BY <2>5, <2>7, <3>1, <3>2 DEF ClientStep, Ask, LookForActive, AskFollowUp
  <2>8. CASE \E s \in Scheduler : SchedulerStep(s)
    <3>1. CASE \E s \in Scheduler : SubmitSlot(s)
      <4>1. \E row \in Row : Added(row)
        BY <3>1, RowsAdded DEF Added
      <4> QED  BY <2>5, <3>1, <4>1 DEF SubmitSlot
    <3> QED  BY <2>5, <2>8, <3>1 DEF SchedulerStep, Tick, Retry, Wake
  <2>9. CASE SlotPasses \/ UNCHANGED admissionVars
    BY <2>5, <2>9 DEF SlotPasses, admissionVars
  <2>10. CASE RefreshValues
    <3>1. \E row \in Row : Added(row)
      BY <2>10, RowsAdded DEF Added
    <3> QED  BY <2>5, <2>10, <3>1 DEF RefreshValues
  <2>11. CASE LookForStructural
    BY <1>0, <2>5, <2>11 DEF LookForStructural, AfterState
  <2>12. CASE EnqueueStructural
    <3>1. \E row \in Row : Added(row)
      BY <2>12, RowsAdded DEF Added
    <3> QED  BY <1>0, <2>5, <2>12, <3>1 DEF EnqueueStructural, AfterState
  <2>13. CASE EnqueueResearch
    <3>1. Added(NewRow("on_demand", FALSE, 0, after.tickers)) /\ after.at = "research"
      BY <2>13, RowsAdded DEF EnqueueResearch
    <3>2. (Flagged(c, j) => Flagged(c, j)') /\ rows'[j].status = rows[j].status /\ (Served(c, j) => Served(c, j)')
      BY <3>1, JobKept DEF Added
    <3>3. c \in after.tickers => Served(c, j)'
      BY <3>1 DEF Added, Served, NewRow
    <3> QED  BY <2>4, <2>6, <3>1, <3>2, <3>3 DEF IsActive
  <2>14. CASE ClaimRow
    <3>1. PICK k \in ActiveRows : Becomes(k, WithStatus(k, "running")) /\ after' = [Rest EXCEPT !.at = "busy", !.job = k]
      BY <2>14, RowsChanged
    <3>2. k \in DOMAIN rows /\ rows[k].status \in Active /\ after.at = "idle"
      BY <2>14 DEF ClaimRow, ActiveRows, IsActive
    <3>3. /\ Flagged(c, j) => Flagged(c, j)'
          /\ rows'[j].status = IF j = k THEN "running" ELSE rows[j].status
          /\ Served(c, j) => Served(c, j)'
      BY <2>4, <3>1, <3>2, StatusMoves
    <3> QED  BY <2>4, <2>6, <3>2, <3>3 DEF IsActive, Active
  <2>15. CASE Succeeds
    <3>1. /\ Becomes(after.job, WithStatus(after.job, "succeeded")) /\ after.job \in DOMAIN rows /\ after.at = "busy"
          /\ rows[after.job].status = "running" /\ after'.at \in {"look", "consume"} /\ after'.job = after.job
      BY <1>0, <2>15, RowsChanged DEF Succeeds, HeldOK, AfterState
    <3>2. /\ Flagged(c, j) => Flagged(c, j)'
          /\ rows'[j].status = IF j = after.job THEN "succeeded" ELSE rows[j].status
          /\ Served(c, j) => Served(c, j)'
      BY <2>4, <3>1, StatusMoves
    <3> QED  BY <2>4, <2>6, <3>1, <3>2 DEF IsActive
  <2>16. CASE Stops
    <3>1. PICK outcome \in {"failed", "interrupted"} : Becomes(after.job, WithStatus(after.job, outcome))
      BY <2>16, RowsChanged
    <3>2. after.at = "busy" /\ after.job \in DOMAIN rows
      BY <2>16 DEF Stops, HeldOK
    <3>3. /\ Flagged(c, j) => Flagged(c, j)'
          /\ rows'[j].status = IF j = after.job THEN outcome ELSE rows[j].status
          /\ Served(c, j) => Served(c, j)'
      BY <2>4, <3>1, <3>2, StatusMoves
    <3> QED  BY <2>4, <2>6, <3>2, <3>3 DEF IsActive
  <2>17. CASE CancelRow
    <3>1. PICK k \in DOMAIN rows : rows[k].status = "queued" /\ Becomes(k, WithStatus(k, "interrupted"))
      BY <2>17, RowsChanged
    <3>2. /\ Flagged(c, j) => Flagged(c, j)'
          /\ rows'[j].status = IF j = k THEN "interrupted" ELSE rows[j].status
          /\ Served(c, j) => Served(c, j)'
      BY <2>4, <3>1, StatusMoves
    <3>3. after' = after
      BY <2>17 DEF CancelRow
    <3> QED  BY <2>4, <2>6, <3>2, <3>3 DEF IsActive
  <2>18. CASE TakeFollowUp
    <3>1. PICK k \in DOMAIN rows : /\ k = after.job /\ after.at = "consume" /\ rows[k].status = "succeeded"
                                   /\ Becomes(k, WithFollowUp(k, FALSE, rows[k].tickers))
      BY <2>18, RowsChanged DEF TakeFollowUp, HeldOK
    <3>2. \A n \in DOMAIN rows : /\ rows'[n].trigger = rows[n].trigger /\ rows'[n].tickers = rows[n].tickers
                               /\ rows'[n].status = rows[n].status
      BY <3>1 DEF Becomes, WithFollowUp, RowWith
    <3>3. Served(c, j) => Served(c, j)'
      BY <3>1, <3>2 DEF Served, Becomes
    <3>4. CASE j = k
      <4>1. Flagged(c, j) => after'.at = "research" /\ c \in after'.tickers
        BY <1>0, <2>18, <3>1, <3>4 DEF TakeFollowUp, Flagged, AfterState
      <4> QED  BY <2>4, <2>6, <3>1, <3>3, <3>4, <4>1 DEF IsActive, Active
    <3>5. CASE j # k
      <4>1. Flagged(c, j) => Flagged(c, j)'
        BY <3>1, <3>5 DEF Flagged, Becomes
      <4> QED  BY <2>4, <2>6, <3>1, <3>2, <3>3, <3>5, <4>1 DEF IsActive
    <3> QED  BY <3>4, <3>5
  <2> QED
    BY <2>2, <2>7, <2>8, <2>9, <2>10, <2>11, <2>12, <2>13, <2>14, <2>15, <2>16, <2>17, <2>18 DEF AdmissionNext, WorkerStep
<1> QED  BY <1>1, <1>2

LEMMA FollowUpEach == FollowUpKept <=> \A c \in Client : FollowUpFor(c)
BY DEF FollowUpKept, FollowUpFor

LEMMA AdmissionStep == AdmissionInv /\ [AdmissionNext]_admissionVars => AdmissionInv'
<1> SUFFICES ASSUME AdmissionInv, [AdmissionNext]_admissionVars PROVE AdmissionInv'
  OBVIOUS
<1>1. /\ AdmissionTypes /\ HeldOK /\ StructuralOK /\ DailyOK
      /\ \A c \in Client : FollowUpFor(c)
  BY FollowUpEach DEF AdmissionInv
<1>2. \A c \in Client : FollowUpFor(c)'
  BY <1>1, FollowUpStep
<1>3. FollowUpKept'
  BY <1>2 DEF FollowUpKept, FollowUpFor
<1> QED  BY <1>1, <1>3, AdmissionTypeStep, StructuralStep, DailyStep DEF AdmissionInv

LEMMA AdmissionInitially == AdmissionInit => AdmissionInv
<1> SUFFICES ASSUME AdmissionInit PROVE AdmissionInv
  OBVIOUS
<1>1. rows = <<>> /\ DOMAIN rows = {} /\ slot = 1 /\ wakes = 0 /\ after = Rest /\ faults = 0
  BY DEF AdmissionInit
<1>2. PICK enabled \in Settings :
        /\ call = [c \in Client |-> [at |-> IF c \in enabled THEN "idle" ELSE "off", job |-> 0]]
        /\ tick = [s \in Scheduler |-> [at |-> IF s \in enabled THEN "awake" ELSE "off", slot |-> 0]]
  BY DEF AdmissionInit
<1>3. call \in [Client -> CallState] /\ tick \in [Scheduler -> TickState] /\ after \in AfterState
  BY <1>1, <1>2 DEF CallState, TickState, AfterState, Rest
<1>4. AdmissionTypes
  <2>1. <<>> \in Seq(Row) /\ Len(<<>>) = 0
    OBVIOUS
  <2> QED  BY <1>1, <1>3, <2>1 DEF AdmissionInit, AdmissionTypes
<1>5. \A c \in Client : call[c].at \notin {"asking", "told"} /\ call[c].job = 0
  BY <1>2
<1>6. \A s \in Scheduler : tick[s].at # "admitted"
  BY <1>2
<1>7. after.at = "idle"
  BY <1>1 DEF Rest
<1>8. HeldOK
  BY <1>5, <1>6, <1>7 DEF HeldOK, Requested
<1>9. StructuralOK /\ DailyOK
  BY <1>1, <1>6, <1>7 DEF StructuralOK, DailyOK, ActiveRows, RowsOf, Scheduler
<1>10. FollowUpKept
  BY <1>5 DEF FollowUpKept, Requested
<1> QED  BY <1>4, <1>8, <1>9, <1>10 DEF AdmissionInv

\* The queue's columns, the requests, the schedulers and the worker have their types.
THEOREM AdmissionTypeCorrect == AdmissionSpec => []AdmissionTypeOK
<1>1. AdmissionInv => AdmissionTypeOK
  BY DEF AdmissionInv, AdmissionTypes, AdmissionTypeOK, CallState, TickState, AfterState
<1> QED  BY AdmissionInitially, AdmissionStep, <1>1, PTL DEF AdmissionSpec

\* At most one structural refresh is queued or running, although the worker looks for one in a
\* transaction and asks for it in another (worker_main.py).
THEOREM OneStructuralPending == AdmissionSpec => []OneStructural
<1>1. AdmissionInv => OneStructural
  <2> SUFFICES ASSUME StructuralOK PROVE OneStructural
    BY DEF AdmissionInv
  <2> DEFINE S == {j \in ActiveRows : rows[j].structural}
  <2>0. OneStructural <=> Cardinality(S) <= 1
    BY DEF OneStructural
  <2>1. \A j, k \in S : j = k
    BY DEF StructuralOK
  <2> HIDE DEF S
  <2>2. CASE S = {}
    BY <2>0, <2>2, FS_EmptySet
  <2>3. ASSUME NEW j \in S PROVE OneStructural
    <3>1. S = {j}
      BY <2>1, <2>3
    <3>2. Cardinality({j}) = 1
      BY FS_Singleton
    <3>3. Cardinality(S) = 1
      BY <3>1, <3>2
    <3> QED  BY <2>0, <3>3
  <2> QED  BY <2>2, <2>3
<1> QED  BY AdmissionInitially, AdmissionStep, <1>1, PTL DEF AdmissionSpec

\* No slot of the daily scheduler is attempted twice, whatever became of its job and however
\* often the scheduler was woken (scheduler.py).
THEOREM DailySlotOnce == AdmissionSpec => []DailyOnce
<1>1. AdmissionInv => DailyOnce
  BY DEF AdmissionInv, DailyOK, DailyOnce
<1> QED  BY AdmissionInitially, AdmissionStep, <1>1, PTL DEF AdmissionSpec

\* Without faults a ticker that joined an active job stays flagged on it until a research job
\* has it, or the job fails or is cancelled (job_queue.py, worker_main.py).
THEOREM JoinedTickersServed == AdmissionSpec => []FollowUpKept
<1>1. AdmissionInv => FollowUpKept
  BY DEF AdmissionInv
<1> QED  BY AdmissionInitially, AdmissionStep, <1>1, PTL DEF AdmissionSpec

------------------------------------------------------------------------------
(*****************************************************************************)
(* Watchlist.  Operations work on the list of the file because nobody        *)
(* remembers a signature the file has yet to get (CurrentOK); nobody seeds   *)
(* it again because whoever has seen an entry has left the marker            *)
(* (MarkerOK).                                                               *)
(*****************************************************************************)
HIDE AdmissionAssumption

USE WatchlistAssumption

WorkState == [at : {"idle", "load", "refresh", "note", "change", "remember", "mark"}, op : Operation, ticker : Listed]
CacheState == [entries : Entries, version : 0..MaxSaves]
WatchTypes ==
    /\ entries \in Entries
    /\ version \in 0..MaxSaves /\ marked \in BOOLEAN
    /\ work \in [Process -> WorkState] /\ copy \in [Process -> Entries] /\ cache \in [Process -> CacheState]
    /\ overlap \in BOOLEAN /\ seeded \in 0..version /\ emptied \in BOOLEAN

\* Nobody remembers a signature the file has yet to get; and unless operations overlapped,
\* a state that is worked on, or remembered under the file's signature, is the file's.
CurrentOK ==
    /\ \A p \in Process : cache[p].version <= version
    /\ ~overlap => \A p \in Process :
         /\ work[p].at \in {"refresh", "note", "change", "remember"} => copy[p] = entries
         /\ cache[p].version = version => cache[p].entries = entries

\* Whoever has seen an entry has left the marker, but for a process that is about to, and
\* so has whoever wrote the file without an entry in it.
MarkerOK ==
    /\ \A p \in Process :
         /\ work[p].at = "refresh" => copy[p] # Nobody
         /\ work[p].at = "change" /\ copy[p] # Nobody => marked
         /\ work[p].at = "remember" /\ work[p].op \notin {"add", "seed"} => marked
         /\ cache[p].entries # Nobody => marked \/ work[p].at = "mark"
    /\ emptied => marked
    /\ version > 0 => marked \/ entries # Nobody

\* The process that seeds the list leaves the marker before it does anything else.
SeederOK(s) == seeded > 0 => marked \/ work[s].at \in {"remember", "mark"}

WatchInv == WatchTypes /\ CurrentOK /\ MarkerOK

LEMMA WatchConstants == Nobody \in Entries /\ Quiet \in WorkState /\ Quiet.at = "idle"
BY DEF Nobody, Entries, Quiet, WorkState, Operation

LEMMA SeedsOK ==
    ASSUME NEW state \in Entries
    PROVE  Seeds(state) \in Entries
BY DEF Seeds, Entries, Fresh, Entry

LEMMA ChangedOK ==
    ASSUME NEW op \in Operation, NEW t \in Listed, NEW state \in Entries, Writes(op, t, state)
    PROVE  /\ Changed(op, t, state) \in Entries
           /\ state # Nobody \/ Changed(op, t, state) # Nobody
           /\ op \notin {"add", "seed"} => state # Nobody
<1>1. CASE op = "seed"
  BY <1>1, SeedsOK DEF Changed, Writes, Seeds
<1>2. CASE op = "add"
  <2>1. Changed(op, t, state) = [state EXCEPT ![t] = Fresh]
    BY <1>2 DEF Changed
  <2>2. Fresh \in Entry /\ Fresh # Absent
    BY DEF Fresh, Entry, Absent
  <2> QED  BY <1>2, <2>1, <2>2 DEF Entries, Nobody
<1>3. CASE op \notin {"add", "seed"}
  <2>1. state[t] \in Entry /\ state # Nobody
    BY <1>3 DEF Writes, Entries, Nobody
  <2>2. PICK e \in Entry \cup {Absent} : Changed(op, t, state) = [state EXCEPT ![t] = e]
    BY <1>3, <2>1 DEF Changed, Entry
  <2> QED  BY <1>3, <2>1, <2>2 DEF Entries
<1> QED  BY <1>1, <1>2, <1>3

LEMMA WatchTypeStep == WatchTypes /\ [WatchNext]_watchVars => WatchTypes'
<1> SUFFICES ASSUME WatchTypes, [WatchNext]_watchVars PROVE WatchTypes'
  OBVIOUS
<1>1. ASSUME NEW p \in Process, NEW op \in Operations[p], NEW t \in Listed, BeginOperation(p, op, t) PROVE WatchTypes'
  <2>1. op \in Operation
    OBVIOUS
  <2> QED  BY <1>1, <2>1 DEF BeginOperation, WatchTypes, WorkState
<1>2. ASSUME NEW p \in Process, LoadCached(p) \/ LoadFile(p) PROVE WatchTypes'
  <2>1. work' \in [Process -> WorkState]
    BY SMTT(30), <1>2 DEF LoadCached, LoadFile, Move, WatchTypes, WorkState
  <2>2. copy' \in [Process -> Entries]
    BY <1>2 DEF LoadCached, LoadFile, WatchTypes, CacheState
  <2> QED  BY <1>2, <2>1, <2>2 DEF LoadCached, LoadFile, WatchTypes
<1>3. ASSUME NEW p \in Process, NoteLoaded(p) \/ Remember(p) PROVE WatchTypes'
  <2>1. cache' \in [Process -> CacheState]
    <3>1. [entries |-> copy[p], version |-> version] \in CacheState
      BY DEF WatchTypes, CacheState
    <3> QED  BY <1>3, <3>1 DEF NoteLoaded, Remember, WatchTypes
  <2>3. marked' \in BOOLEAN
    BY <1>3 DEF NoteLoaded, Remember, WatchTypes
  <2>2. work' \in [Process -> WorkState]
    BY <1>3 DEF NoteLoaded, Remember, Move, WatchTypes, WorkState
  <2> QED  BY <1>3, <2>1, <2>2, <2>3 DEF NoteLoaded, Remember, WatchTypes
<1>4. ASSUME NEW p \in Process, SaveChange(p) PROVE WatchTypes'
  <2>1. work[p].op \in Operation /\ work[p].ticker \in Listed /\ copy[p] \in Entries
    BY DEF WatchTypes, WorkState
  <2>2. entries' \in Entries /\ copy' \in [Process -> Entries]
    BY <1>4, <2>1, ChangedOK DEF SaveChange, Replace, WatchTypes
  <2>3. work' \in [Process -> WorkState]
    BY <1>4 DEF SaveChange, Move, WatchTypes, WorkState
  <2>4. version' \in 0..MaxSaves /\ seeded' \in 0..version'
    BY <1>4 DEF SaveChange, Replace, WatchTypes
  <2>5. overlap' \in BOOLEAN /\ emptied' \in BOOLEAN
    BY <1>4 DEF SaveChange, Replace, WatchTypes
  <2> QED  BY <1>4, <2>2, <2>3, <2>4, <2>5 DEF SaveChange, WatchTypes
<1>5. ASSUME NEW p \in Process, NothingToChange(p) \/ Mark(p) PROVE WatchTypes'
  BY <1>5 DEF NothingToChange, Mark, Move, WatchTypes, WorkState
<1>6. ASSUME NEW p \in Process, RestartProcess(p) PROVE WatchTypes'
  <2>1. /\ entries' = entries /\ version' \in 0..MaxSaves /\ version <= version' /\ overlap' \in BOOLEAN
    <3>1. version \in 0..MaxSaves /\ MaxSaves \in Nat /\ overlap \in BOOLEAN
      BY DEF WatchTypes
    <3>2. CASE UNCHANGED <<entries, version, overlap>>
      BY <3>1, <3>2
    <3>3. CASE Replace(p, entries)
      BY <3>1, <3>3 DEF Replace
    <3> QED  BY <1>6, <3>2, <3>3 DEF RestartProcess
  <2>2. cache' \in [Process -> CacheState]
    BY <1>6, <2>1 DEF RestartProcess, WatchTypes, CacheState
  <2>3. seeded' \in 0..version' /\ marked' \in BOOLEAN
    BY <1>6, <2>1 DEF RestartProcess, WatchTypes
  <2> QED  BY <1>6, <2>1, <2>2, <2>3, WatchConstants DEF RestartProcess, WatchTypes
<1>7. CASE UNCHANGED watchVars
  BY <1>7 DEF watchVars, WatchTypes
<1>8. ASSUME NEW p \in Process, RefreshLoaded(p) PROVE WatchTypes'
  <2>1. /\ entries' \in Entries /\ version' \in 0..MaxSaves /\ seeded' \in 0..version' /\ overlap' \in BOOLEAN
    BY <1>8 DEF RefreshLoaded, Replace, WatchTypes
  <2>2. work' \in [Process -> WorkState]
    BY <1>8 DEF RefreshLoaded, Move, WatchTypes, WorkState
  <2> QED  BY <1>8, <2>1, <2>2 DEF RefreshLoaded, WatchTypes
<1> QED  BY <1>1, <1>2, <1>3, <1>4, <1>5, <1>6, <1>7, <1>8 DEF WatchNext, OperationStep

\* The process that acts is now at "at", the others are where they were.
Comes(p, at) == /\ work'[p].at = at /\ work'[p].op = work[p].op
                /\ \A q \in Process \ {p} : work'[q] = work[q]
LEMMA ComesOK ==
    ASSUME WatchTypes, NEW p \in Process, NEW at, Move(p, at)
    PROVE  Comes(p, at)
BY DEF Move, Comes, WatchTypes, WorkState

LEMMA CurrentStep == WatchTypes /\ CurrentOK /\ [WatchNext]_watchVars => CurrentOK'
<1> SUFFICES ASSUME WatchTypes, CurrentOK, [WatchNext]_watchVars PROVE CurrentOK'
  OBVIOUS
<1>1. ASSUME NEW p \in Process, NEW op \in Operations[p], NEW t \in Listed, BeginOperation(p, op, t) PROVE CurrentOK'
  BY <1>1 DEF BeginOperation, WatchTypes, CurrentOK
<1>2. ASSUME NEW p \in Process, LoadCached(p) \/ LoadFile(p) PROVE CurrentOK'
  <2>1. Comes(p, "change") \/ Comes(p, "refresh") \/ Comes(p, "note")
    BY <1>2, ComesOK DEF LoadCached, LoadFile
  <2>2. ~overlap => copy'[p] = entries
    BY <1>2 DEF LoadCached, LoadFile, WatchTypes, CurrentOK
  <2>3. \A q \in Process \ {p} : copy'[q] = copy[q]
    BY <1>2 DEF LoadCached, LoadFile, WatchTypes
  <2> QED  BY <1>2, <2>1, <2>2, <2>3 DEF LoadCached, LoadFile, Comes, CurrentOK
<1>3. ASSUME NEW p \in Process, NoteLoaded(p) \/ Remember(p) PROVE CurrentOK'
  <2>1. /\ cache'[p] = [entries |-> copy[p], version |-> version]
        /\ \A q \in Process \ {p} : cache'[q] = cache[q]
        /\ entries' = entries /\ version' = version /\ copy' = copy /\ overlap' = overlap
        /\ version \in Nat /\ work[p].at \in {"note", "remember"}
    BY <1>3 DEF NoteLoaded, Remember, WatchTypes
  <2>2. Comes(p, "change") \/ Comes(p, "mark") \/ Comes(p, "idle")
    BY <1>3, ComesOK DEF NoteLoaded, Remember
  <2> QED  BY <2>1, <2>2 DEF Comes, CurrentOK
<1>4. ASSUME NEW p \in Process, SaveChange(p) PROVE CurrentOK'
  <2>1. Comes(p, "remember")
    BY <1>4, ComesOK DEF SaveChange
  <2>2. copy'[p] = entries' /\ \A q \in Process \ {p} : copy'[q] = copy[q]
    BY <1>4 DEF SaveChange, Replace, WatchTypes
  <2>3. version' = version + 1 /\ cache' = cache /\ version \in Nat
    BY <1>4 DEF SaveChange, Replace, WatchTypes
  <2>4. \A q \in Process : cache[q].version \in Nat
    BY DEF WatchTypes, CacheState
  <2>5. ~overlap' => \A q \in Process \ {p} : work[q].at \in {"idle", "load", "mark"}
    BY <1>4 DEF SaveChange, Replace
  <2>6. \A q \in Process : cache'[q].version < version'
    BY <2>3, <2>4 DEF CurrentOK
  <2> QED  BY <2>1, <2>2, <2>3, <2>4, <2>5, <2>6 DEF Comes, CurrentOK
<1>5. ASSUME NEW p \in Process, NothingToChange(p) \/ Mark(p) PROVE CurrentOK'
  <2>1. Comes(p, "idle")
    BY <1>5, ComesOK DEF NothingToChange, Mark
  <2> QED  BY <1>5, <2>1 DEF NothingToChange, Mark, Comes, CurrentOK
<1>6. ASSUME NEW p \in Process, RestartProcess(p) PROVE CurrentOK'
  <2>1. work'[p].at = "idle" /\ \A q \in Process \ {p} : work'[q] = work[q] /\ copy'[q] = copy[q] /\ cache'[q] = cache[q]
    BY <1>6, WatchConstants DEF RestartProcess, WatchTypes
  <2>2. cache'[p].entries = entries /\ cache'[p].version = version' /\ version \in Nat /\ entries' = entries
    BY <1>6 DEF RestartProcess, Replace, WatchTypes
  <2>3. CASE version' = version /\ overlap' = overlap
    BY <2>1, <2>2, <2>3 DEF CurrentOK
  <2>4. CASE Replace(p, entries)
    <3>1. /\ version' = version + 1
          /\ ~overlap' => \A q \in Process \ {p} : work[q].at \in {"idle", "load", "mark"}
      BY <2>4 DEF Replace
    <3>2. \A q \in Process : cache[q].version \in Nat
      BY DEF WatchTypes, CacheState
    <3>3. \A q \in Process \ {p} : cache'[q].version < version'
      BY <2>1, <2>2, <3>1, <3>2 DEF CurrentOK
    <3>4. version' \in Nat
      BY <2>2, <3>1
    <3>5. \A q \in Process : cache'[q].version <= version'
      BY <2>1, <2>2, <3>1, <3>2, <3>3, <3>4 DEF CurrentOK
    <3> QED  BY <2>1, <2>2, <3>1, <3>2, <3>3, <3>5 DEF CurrentOK
  <2> QED  BY <1>6, <2>3, <2>4 DEF RestartProcess
<1>7. CASE UNCHANGED watchVars
  BY <1>7 DEF watchVars, CurrentOK
<1>8. ASSUME NEW p \in Process, RefreshLoaded(p) PROVE CurrentOK'
  <2>1. Comes(p, "note")
    BY <1>8, ComesOK DEF RefreshLoaded
  <2>2. copy' = copy /\ copy'[p] = entries'
    BY <1>8 DEF RefreshLoaded, Replace
  <2>3. version' = version + 1 /\ cache' = cache /\ version \in Nat
    BY <1>8 DEF RefreshLoaded, Replace, WatchTypes
  <2>4. \A q \in Process : cache[q].version \in Nat
    BY DEF WatchTypes, CacheState
  <2>5. ~overlap' => \A q \in Process \ {p} : work[q].at \in {"idle", "load", "mark"}
    BY <1>8 DEF RefreshLoaded, Replace
  <2>6. \A q \in Process : cache'[q].version < version'
    BY <2>3, <2>4 DEF CurrentOK
  <2> QED  BY <2>1, <2>2, <2>3, <2>4, <2>5, <2>6 DEF Comes, CurrentOK
<1> QED  BY <1>1, <1>2, <1>3, <1>4, <1>5, <1>6, <1>7, <1>8 DEF WatchNext, OperationStep

LEMMA MarkerStep == WatchTypes /\ MarkerOK /\ [WatchNext]_watchVars => MarkerOK' /\ (marked => marked')
<1> SUFFICES ASSUME WatchTypes, MarkerOK, [WatchNext]_watchVars PROVE MarkerOK' /\ (marked => marked')
  OBVIOUS
<1>1. ASSUME NEW p \in Process, NEW op \in Operations[p], NEW t \in Listed, BeginOperation(p, op, t)
      PROVE  MarkerOK' /\ (marked => marked')
  BY <1>1 DEF BeginOperation, WatchTypes, MarkerOK
<1>2. ASSUME NEW p \in Process, LoadCached(p) \/ LoadFile(p) PROVE MarkerOK' /\ (marked => marked')
  <2>1. \/ Comes(p, "change") /\ copy'[p] = cache[p].entries
        \/ Comes(p, "note")
        \/ Comes(p, "refresh") /\ copy'[p] # Nobody
    BY <1>2, ComesOK DEF LoadCached, LoadFile, WatchTypes
  <2>2. work[p].at = "load" /\ \A q \in Process \ {p} : copy'[q] = copy[q]
    BY <1>2 DEF LoadCached, LoadFile, WatchTypes
  <2> QED  BY <1>2, <2>1, <2>2 DEF LoadCached, LoadFile, Comes, MarkerOK
<1>3. ASSUME NEW p \in Process, NoteLoaded(p) PROVE MarkerOK' /\ (marked => marked')
  <2>1. Comes(p, "change")
    BY <1>3, ComesOK DEF NoteLoaded
  <2>2. cache'[p].entries = copy[p] /\ \A q \in Process \ {p} : cache'[q] = cache[q]
    BY <1>3 DEF NoteLoaded, WatchTypes
  <2> QED  BY <1>3, <2>1, <2>2 DEF NoteLoaded, Comes, MarkerOK
<1>4. ASSUME NEW p \in Process, Remember(p) PROVE MarkerOK' /\ (marked => marked')
  <2>1. IF work[p].op \in {"add", "seed"} THEN Comes(p, "mark") ELSE Comes(p, "idle") /\ marked
    BY <1>4, ComesOK DEF Remember, MarkerOK
  <2>2. \A q \in Process \ {p} : cache'[q] = cache[q]
    BY <1>4 DEF Remember, WatchTypes
  <2> QED  BY <1>4, <2>1, <2>2 DEF Remember, Comes, MarkerOK
<1>5. ASSUME NEW p \in Process, SaveChange(p) PROVE MarkerOK' /\ (marked => marked')
  <2>1. Comes(p, "remember")
    BY <1>5, ComesOK DEF SaveChange
  <2>2. \A q \in Process \ {p} : copy'[q] = copy[q]
    BY <1>5 DEF SaveChange, WatchTypes
  <2>3. work[p].op \in Operation /\ work[p].ticker \in Listed /\ copy[p] \in Entries
    BY DEF WatchTypes, WorkState
  <2>4. /\ copy[p] # Nobody \/ entries' # Nobody
        /\ work[p].op \notin {"add", "seed"} => copy[p] # Nobody
    BY <1>5, <2>3, ChangedOK DEF SaveChange, Replace
  <2>5. work[p].at = "change" /\ marked' = marked /\ cache' = cache
    BY <1>5 DEF SaveChange
  <2>6. copy[p] # Nobody => marked
    BY <2>5 DEF MarkerOK
  <2>7. emptied' => emptied \/ work[p].op = "remove"
    BY <1>5 DEF SaveChange
  <2> QED  BY <2>1, <2>2, <2>4, <2>5, <2>6, <2>7 DEF Comes, MarkerOK
<1>6. ASSUME NEW p \in Process, NothingToChange(p) \/ Mark(p) PROVE MarkerOK' /\ (marked => marked')
  <2>1. Comes(p, "idle")
    BY <1>6, ComesOK DEF NothingToChange, Mark
  <2> QED  BY <1>6, <2>1 DEF NothingToChange, Mark, Comes, MarkerOK
<1>7. ASSUME NEW p \in Process, RestartProcess(p) PROVE MarkerOK' /\ (marked => marked')
  <2>1. work'[p].at = "idle" /\ \A q \in Process \ {p} : work'[q] = work[q] /\ copy'[q] = copy[q] /\ cache'[q] = cache[q]
    BY <1>7, WatchConstants DEF RestartProcess, WatchTypes
  <2>2. cache'[p].entries = entries
    BY <1>7 DEF RestartProcess, WatchTypes
  <2>3. entries' = entries /\ (version' > 0 => version > 0 \/ entries # Nobody) /\ emptied' = emptied
    BY <1>7 DEF RestartProcess, Replace
  <2>4. marked' = (marked \/ entries # Nobody)
    BY <1>7 DEF RestartProcess
  <2> QED  BY <2>1, <2>2, <2>3, <2>4 DEF MarkerOK
<1>8. CASE UNCHANGED watchVars
  BY <1>8 DEF watchVars, MarkerOK
<1>9. ASSUME NEW p \in Process, RefreshLoaded(p) PROVE MarkerOK' /\ (marked => marked')
  <2>1. Comes(p, "note") /\ work[p].at = "refresh"
    BY <1>9, ComesOK DEF RefreshLoaded
  <2>2. entries' = copy[p] /\ copy[p] # Nobody
    BY <1>9 DEF RefreshLoaded, Replace, MarkerOK
  <2> QED  BY <1>9, <2>1, <2>2 DEF RefreshLoaded, Comes, MarkerOK
<1> QED  BY <1>1, <1>2, <1>3, <1>4, <1>5, <1>6, <1>7, <1>8, <1>9 DEF WatchNext, OperationStep

LEMMA WatchInitially == WatchInit => WatchInv
<1> SUFFICES ASSUME WatchInit PROVE WatchInv
  OBVIOUS
<1>1. WatchTypes
  <2>1. [entries |-> Nobody, version |-> 0] \in CacheState
    BY WatchConstants DEF CacheState
  <2>2. MaxSaves \in Nat /\ 0 \in 0..MaxSaves
    BY DEF WatchlistAssumption
  <2>3. seeded \in 0..version /\ version \in 0..MaxSaves
    BY <2>2 DEF WatchInit
  <2>4. work \in [Process -> WorkState] /\ copy \in [Process -> Entries] /\ cache \in [Process -> CacheState]
    BY <2>1, WatchConstants DEF WatchInit
  <2> QED  BY <2>3, <2>4, WatchConstants DEF WatchInit, WatchTypes
<1>2. CurrentOK /\ MarkerOK
  BY WatchConstants DEF WatchInit, CurrentOK, MarkerOK
<1> QED  BY <1>1, <1>2 DEF WatchInv

LEMMA WatchStep == WatchInv /\ [WatchNext]_watchVars => WatchInv'
BY WatchTypeStep, CurrentStep, MarkerStep DEF WatchInv

\* The file, the marker, and what the processes work on and remember have their types.
THEOREM WatchTypeCorrect == WatchSpec => []WatchTypeOK
<1>1. WatchInv => WatchTypeOK
  BY DEF WatchInv, WatchTypes, WatchTypeOK, WorkState, CacheState
<1> QED  BY WatchInitially, WatchStep, <1>1, PTL DEF WatchSpec

\* As long as no operation of one process was overlapped by a save of another, whatever
\* either process works on, read or remembered, is what the file holds (watchlist.py).
THEOREM WorkIsOnTheFile == WatchSpec => []WorksOnCurrent
<1>1. WatchInv => WorksOnCurrent
  BY DEF WatchInv, CurrentOK, WorksOnCurrent
<1> QED  BY WatchInitially, WatchStep, <1>1, PTL DEF WatchSpec

LEMMA SeederStep ==
    ASSUME NEW s \in Process, \A p \in Process \ {s} : "seed" \notin Operations[p],
           WatchInv, SeederOK(s), \A p \in Process \ {s} : work[p].op # "seed", [WatchNext]_watchVars
    PROVE  /\ SeederOK(s)' /\ \A p \in Process \ {s} : work'[p].op # "seed"
           /\ emptied \/ seeded > 0 => seeded' = seeded
<1>1. WatchTypes /\ MarkerOK /\ seeded \in Nat /\ version \in Nat /\ MarkerOK' /\ (marked => marked')
  BY MarkerStep DEF WatchInv, WatchTypes
<1>2. ASSUME NEW p \in Process, SaveChange(p)
      PROVE  /\ SeederOK(s)' /\ \A q \in Process \ {s} : work'[q].op # "seed"
             /\ emptied \/ seeded > 0 => seeded' = seeded
  <2>1. Comes(p, "remember") /\ work[p].at = "change" /\ marked' = marked
    BY <1>1, <1>2, ComesOK DEF SaveChange
  <2>2. CASE work[p].op # "seed"
    <3>1. seeded' = seeded
      BY <1>2, <2>2 DEF SaveChange
    <3> QED  BY <2>1, <3>1 DEF SeederOK, Comes
  <2>3. CASE work[p].op = "seed"
    <3>1. p = s
      BY <2>3
    <3>2. ~marked
      BY <1>2, <2>3 DEF SaveChange, Writes, Seeds
    <3>3. ~emptied /\ ~(seeded > 0)
      BY <1>1, <2>1, <3>1, <3>2 DEF MarkerOK, SeederOK
    <3> QED  BY <2>1, <3>1, <3>3 DEF SeederOK, Comes
  <2> QED  BY <2>2, <2>3
<1>3. ASSUME seeded' = seeded, work'[s] = work[s] \/ work'[s].at \in {"remember", "mark"} \/ (seeded > 0 => marked'),
             \A q \in Process \ {s} : work'[q].op # "seed"
      PROVE  /\ SeederOK(s)' /\ \A q \in Process \ {s} : work'[q].op # "seed"
             /\ emptied \/ seeded > 0 => seeded' = seeded
  BY <1>1, <1>3 DEF SeederOK
<1>4. ASSUME NEW p \in Process, NEW op \in Operations[p], NEW t \in Listed, BeginOperation(p, op, t)
      PROVE  /\ SeederOK(s)' /\ \A q \in Process \ {s} : work'[q].op # "seed"
             /\ emptied \/ seeded > 0 => seeded' = seeded
  <2>1. /\ work[p].at = "idle" /\ \A q \in Process \ {p} : work'[q] = work[q]
        /\ work'[p].op = op /\ seeded' = seeded
    BY <1>1, <1>4 DEF BeginOperation, WatchTypes, WorkState
  <2>2. CASE p = s
    <3>1. seeded > 0 => marked'
      BY <1>1, <2>1, <2>2 DEF SeederOK
    <3> QED  BY <1>3, <2>1, <2>2, <3>1
  <2>3. CASE p # s
    BY <1>3, <2>1, <2>3
  <2> QED  BY <2>2, <2>3
<1>5. ASSUME NEW p \in Process, \/ LoadCached(p) \/ LoadFile(p) \/ RefreshLoaded(p) \/ NoteLoaded(p) \/ NothingToChange(p)
                                \/ Remember(p) \/ Mark(p)
      PROVE  /\ SeederOK(s)' /\ \A q \in Process \ {s} : work'[q].op # "seed"
             /\ emptied \/ seeded > 0 => seeded' = seeded
  <2>1. PICK at : Comes(p, at)
    BY <1>1, <1>5, ComesOK DEF LoadCached, LoadFile, RefreshLoaded, NoteLoaded, NothingToChange, Remember, Mark
  <2>2. seeded' = seeded
    BY <1>5 DEF LoadCached, LoadFile, RefreshLoaded, NoteLoaded, NothingToChange, Remember, Mark
  <2>3. \A q \in Process \ {s} : work'[q].op # "seed"
    BY <2>1 DEF Comes
  <2>4. CASE p = s /\ (Remember(p) \/ Mark(p))
    <3>1. work'[s].at = "mark" \/ marked'
      BY <1>1, <2>4, ComesOK DEF Remember, Mark, MarkerOK, Comes
    <3> QED  BY <1>3, <2>2, <2>3, <3>1
  <2>5. CASE p = s /\ ~(Remember(p) \/ Mark(p))
    <3>1. seeded > 0 => marked'
      BY <1>1, <1>5, <2>5 DEF SeederOK, LoadCached, LoadFile, RefreshLoaded, NoteLoaded, NothingToChange
    <3> QED  BY <1>3, <2>2, <2>3, <3>1
  <2>6. CASE p # s
    BY <1>3, <2>1, <2>2, <2>3, <2>6 DEF Comes
  <2> QED  BY <2>4, <2>5, <2>6
<1>6. ASSUME NEW p \in Process, RestartProcess(p)
      PROVE  /\ SeederOK(s)' /\ \A q \in Process \ {s} : work'[q].op # "seed"
             /\ emptied \/ seeded > 0 => seeded' = seeded
  <2>1. \A q \in Process \ {p} : work'[q] = work[q]
    BY <1>1, <1>6 DEF RestartProcess, WatchTypes
  <2>2. work'[p].op # "seed" /\ seeded' = seeded
    BY <1>1, <1>6 DEF RestartProcess, WatchTypes, Quiet
  <2>3. seeded > 0 => marked'
    <3>1. seeded <= version /\ marked' = (marked \/ entries # Nobody)
      BY <1>6 DEF RestartProcess, WatchInv, WatchTypes
    <3>2. seeded > 0 => version > 0
      BY <1>1, <3>1
    <3> QED  BY <1>1, <3>1, <3>2 DEF MarkerOK
  <2> QED  BY <1>3, <2>1, <2>2, <2>3
<1>7. CASE UNCHANGED watchVars
  BY <1>3, <1>7 DEF watchVars
<1> QED  BY <1>2, <1>4, <1>5, <1>6, <1>7 DEF WatchNext, OperationStep

\* Where only one process seeds the list (only the API does, in submit() of typed_jobs.py), it
\* does so once at most, and never after a user has emptied the list.
THEOREM SeededOnce ==
    ASSUME NEW s \in Process, \A p \in Process \ {s} : "seed" \notin Operations[p]
    PROVE  WatchSpec => NotSeededAgain
<1> DEFINE SeedInv == WatchInv /\ SeederOK(s) /\ \A p \in Process \ {s} : work[p].op # "seed"
<1>1. WatchInit => SeedInv
  BY WatchInitially DEF WatchInit, SeederOK, Quiet
<1>2. SeedInv /\ [WatchNext]_watchVars => SeedInv' /\ (emptied \/ seeded > 0 => seeded' = seeded)
  BY WatchStep, SeederStep
<1>3. SeedInv /\ [WatchNext]_watchVars => [emptied \/ seeded > 0 => seeded' = seeded]_watchVars
  BY <1>2
<1> HIDE DEF SeedInv
<1> QED  BY <1>1, <1>2, <1>3, PTL DEF WatchSpec, NotSeededAgain

------------------------------------------------------------------------------
(*****************************************************************************)
(* The warning.  The scan is a recursive function; that it exists, and what  *)
(* it has counted after some rows, is an induction over the number of rows.  *)
(* It relies on the queue: a job that has finished is not asked to           *)
(* be cancelled any more (Settled).                                          *)
(*****************************************************************************)
\* A set of numbers has a least one.
LEMMA LeastElement ==
    ASSUME NEW S \in SUBSET Nat, S # {}
    PROVE  \E n \in S : \A m \in S : n <= m
<1> DEFINE R == {ss \in Nat \X Nat : ss[1] < ss[2]}
<1>1. IsWellFoundedOn(R, Nat)
  BY NatLessThanWellFounded, Zenon DEF OpToRel
<1>2. \A x, y \in Nat : x < y => <<x, y>> \in R
  OBVIOUS
<1> HIDE DEF R
<1>3. PICK n \in S : \A m \in S : <<m, n>> \notin R
  BY <1>1, WFMin
<1>4. ASSUME NEW m \in S PROVE n <= m
  <2>1. m \in Nat /\ n \in Nat /\ <<m, n>> \notin R
    BY <1>3
  <2>2. ~(m < n)
    BY <1>2, <2>1, Zenon
  <2> QED  BY <2>1, <2>2
<1> QED  BY <1>4

\* A set of numbers with 0, and with the successor of each of its members, has them all.
LEMMA AllNumbers ==
    ASSUME NEW T, 0 \in T, \A n \in Nat : n \in T => n + 1 \in T
    PROVE  Nat \subseteq T
<1> SUFFICES ASSUME Nat \ T # {} PROVE FALSE
  OBVIOUS
<1>1. PICK n \in Nat \ T : \A m \in Nat \ T : n <= m
  BY LeastElement
<1>2. n # 0 /\ n - 1 \in Nat /\ n - 1 \in T
  BY <1>1
<1> QED  BY <1>1, <1>2

USE AttentionAssumption

\* A row that is finished is of a job nobody asks to cancel any more.
Settled == \A j \in DOMAIN table : table[j].status \in Finished => ~table[j].cancelRequested
AttentionInv == AttentionTypeOK /\ Settled

\* Claims and retries leave a job open, and every end clears the request.
LEMMA AttentionStep == AttentionInv /\ [AttentionNext]_attentionVars => AttentionInv'
<1> SUFFICES ASSUME AttentionInv, [AttentionNext]_attentionVars PROVE AttentionInv'
  OBVIOUS
<1> USE DEF AttentionInv, AttentionTypeOK, Settled
<1>1. CASE Create
  <2>1. PICK scope \in Scope :
           table' = Append(table, [scope |-> scope, status |-> "queued", cancelRequested |-> FALSE])
    BY <1>1 DEF Create
  <2> DEFINE row == [scope |-> scope, status |-> "queued", cancelRequested |-> FALSE]
  <2>2. row \in JobRow /\ row.status \notin Finished
    BY DEF JobRow, Open, Finished
  <2> HIDE DEF row
  <2>3. /\ table' \in Seq(JobRow) /\ Len(table') = Len(table) + 1 /\ Len(table) \in Nat
        /\ \A j \in 1..Len(table) : table'[j] = table[j]
        /\ table'[Len(table) + 1] = row
    BY <2>1, <2>2, AppendProperties DEF row
  <2>4. DOMAIN table = 1..Len(table) /\ DOMAIN table' = 1..(Len(table) + 1)
    BY <2>3, LenProperties
  <2>5. Len(table') <= MaxJobs /\ cancelled' \subseteq DOMAIN table'
    BY <1>1, <2>3, <2>4 DEF Create
  <2>6. ASSUME NEW j \in DOMAIN table', table'[j].status \in Finished PROVE ~table'[j].cancelRequested
    <3>1. j # Len(table) + 1
      BY <2>2, <2>3, <2>6
    <3>2. j \in 1..Len(table)
      BY <2>3, <2>4, <3>1
    <3> QED  BY <2>3, <2>4, <2>6, <3>2
  <2> QED  BY <2>3, <2>5, <2>6
<1>2. ASSUME NEW j \in DOMAIN table, NEW row \in JobRow, row.status \in Finished => ~row.cancelRequested,
             table' = [table EXCEPT ![j] = row], cancelled' \subseteq DOMAIN table
      PROVE  AttentionInv'
  <2>1. table' \in Seq(JobRow) /\ Len(table') = Len(table) /\ DOMAIN table' = DOMAIN table
    BY <1>2, ExceptSeq
  <2>2. \A k \in DOMAIN table : table'[k] = IF k = j THEN row ELSE table[k]
    BY <1>2
  <2> QED  BY <1>2, <2>1, <2>2
<1>3. ASSUME NEW j \in DOMAIN table PROVE table[j] \in JobRow
  BY <1>3, ElementOfSeq, LenProperties
<1>4. ASSUME NEW j \in DOMAIN table, Progress(j) PROVE AttentionInv'
  <2>1. PICK next \in Open : table' = [table EXCEPT ![j].status = next]
    BY <1>4 DEF Progress
  <2> DEFINE row == [table[j] EXCEPT !.status = next]
  <2>2. row \in JobRow /\ row.status \notin Finished /\ table' = [table EXCEPT ![j] = row]
    BY <1>3, <2>1 DEF JobRow, Open, Finished
  <2> QED  BY <1>2, <1>4, <2>2 DEF Progress
<1>5. ASSUME NEW j \in DOMAIN table, End(j) PROVE AttentionInv'
  <2>1. PICK outcome \in Finished : table' = [table EXCEPT ![j].status = outcome, ![j].cancelRequested = FALSE]
    BY <1>5 DEF End
  <2> DEFINE row == [[table[j] EXCEPT !.status = outcome] EXCEPT !.cancelRequested = FALSE]
  <2>2. row \in JobRow /\ ~row.cancelRequested /\ table' = [table EXCEPT ![j] = row]
    BY <1>3, <2>1 DEF JobRow, Finished
  <2> QED  BY <1>2, <1>5, <2>2 DEF End
<1>6. ASSUME NEW j \in DOMAIN table, Stop(j) PROVE AttentionInv'
  <2>1. cancelled' \subseteq DOMAIN table
    BY <1>6 DEF Stop
  <2>2. CASE table[j].status = "queued"
    <3> DEFINE row == [[table[j] EXCEPT !.status = "interrupted"] EXCEPT !.cancelRequested = FALSE]
    <3>1. row \in JobRow /\ ~row.cancelRequested /\ table' = [table EXCEPT ![j] = row]
      BY <1>3, <1>6, <2>2 DEF JobRow, Finished, Stop
    <3> QED  BY <1>2, <2>1, <3>1
  <2>3. CASE table[j].status # "queued"
    <3> DEFINE row == [table[j] EXCEPT !.cancelRequested = TRUE]
    <3>1. row \in JobRow /\ row.status \notin Finished /\ table' = [table EXCEPT ![j] = row]
      BY <1>3, <1>6, <2>3 DEF JobRow, Finished, Open, Stop
    <3> QED  BY <1>2, <2>1, <3>1
  <2> QED  BY <2>2, <2>3
<1>7. CASE UNCHANGED attentionVars
  BY <1>7 DEF attentionVars
<1> QED  BY <1>1, <1>4, <1>5, <1>6, <1>7 DEF AttentionNext

LEMMA AttentionInvariant == AttentionSpec => []AttentionInv
<1>1. AttentionInit => AttentionInv
  BY DEF AttentionInit, AttentionInv, AttentionTypeOK, Settled
<1> QED  BY <1>1, AttentionStep, PTL DEF AttentionSpec

Streak == [count : Nat, resolved : BOOLEAN]
Scanned(n, scan) == IF n = 0 THEN Unscanned ELSE ScanRow(scan[n - 1], table[Len(table) + 1 - n])

\* A row leaves a streak a streak.
LEMMA RowScanned ==
    ASSUME NEW acc \in [Kind -> Streak], NEW row \in JobRow
    PROVE  ScanRow(acc, row) \in [Kind -> Streak]
<1>1. ASSUME NEW kind \in Kind
      PROVE  (IF acc[kind].resolved \/ ~Counted(row) \/ ~Relevant(row, kind) THEN acc[kind]
              ELSE IF row.status = "succeeded" THEN [acc[kind] EXCEPT !.resolved = TRUE]
              ELSE [acc[kind] EXCEPT !.count = @ + 1]) \in Streak
  <2>1. acc[kind] \in Streak
    OBVIOUS
  <2>2. ASSUME NEW a \in Streak PROVE [a EXCEPT !.resolved = TRUE] \in Streak
    BY DEF Streak
  <2>3. ASSUME NEW a \in Streak PROVE [a EXCEPT !.count = @ + 1] \in Streak
    BY DEF Streak
  <2> QED  BY <2>1, <2>2, <2>3
<1> QED  BY <1>1 DEF ScanRow

\* The scan is what its definition says of it.
LEMMA ScanUnfolds ==
    ASSUME AttentionTypeOK
    PROVE  \A n \in 0..Len(table) : Scan[n] = Scanned(n, Scan) /\ Scan[n] \in [Kind -> Streak]
<1> DEFINE D == 0..Len(table)
           Upto(n) == \E h \in [D -> [Kind -> Streak]] : \A m \in D : m <= n => h[m] = Scanned(m, h)
           T == {n \in Nat : Upto(n)}
<1>1. /\ Len(table) \in Nat /\ Unscanned \in [Kind -> Streak]
      /\ \A n \in D : n # 0 => n - 1 \in D /\ table[Len(table) + 1 - n] \in JobRow
  <2>1. Len(table) \in Nat /\ Unscanned \in [Kind -> Streak]
    BY LenProperties DEF AttentionTypeOK, Unscanned, Streak
  <2>2. ASSUME NEW n \in D, n # 0 PROVE n - 1 \in D /\ table[Len(table) + 1 - n] \in JobRow
    <3>1. n - 1 \in D /\ Len(table) + 1 - n \in 1..Len(table)
      BY <2>1, <2>2
    <3> QED  BY <3>1, ElementOfSeq DEF AttentionTypeOK
  <2> QED  BY <2>1, <2>2
<1> HIDE DEF D
<1>2. ASSUME NEW h \in [D -> [Kind -> Streak]], NEW n \in D PROVE Scanned(n, h) \in [Kind -> Streak]
  BY <1>1, RowScanned DEF Scanned
<1>3. Upto(0)
  <2> DEFINE h == [m \in D |-> Unscanned]
  <2>1. h \in [D -> [Kind -> Streak]] /\ \A m \in D : m <= 0 => m = 0
    BY <1>1 DEF D
  <2> QED  BY <2>1 DEF Scanned
<1>4. ASSUME NEW n \in Nat, Upto(n) PROVE Upto(n + 1)
  <2>1. PICK h \in [D -> [Kind -> Streak]] : \A m \in D : m <= n => h[m] = Scanned(m, h)
    BY <1>4
  <2> DEFINE f == [m \in D |-> Scanned(m, h)]
  <2>2. f \in [D -> [Kind -> Streak]]
    BY <1>2
  <2>3. ASSUME NEW m \in D, m <= n + 1 PROVE f[m] = Scanned(m, f)
    <3>1. CASE m = 0
      BY <3>1 DEF Scanned
    <3>2. CASE m # 0
      <4>1. m - 1 \in D /\ m - 1 <= n
        BY <1>1, <2>3, <3>2 DEF D
      <4>2. f[m - 1] = h[m - 1]
        BY <2>1, <4>1
      <4> QED  BY <4>2 DEF Scanned
    <3> QED  BY <3>1, <3>2
  <2> HIDE DEF f
  <2> QED  BY <2>2, <2>3
<1>5. 0 \in T /\ \A n \in Nat : n \in T => n + 1 \in T
  <2> HIDE DEF Upto
  <2> QED  BY <1>3, <1>4
<1>6. Nat \subseteq T
  <2> HIDE DEF T
  <2> QED  BY <1>5, AllNumbers
<1>7. Upto(Len(table))
  BY <1>1, <1>6
<1>8. PICK h \in [D -> [Kind -> Streak]] : \A m \in D : m <= Len(table) => h[m] = Scanned(m, h)
  BY <1>7
<1> DEFINE Next(g) == [n \in D |-> Scanned(n, g)]
<1>9. h = Next(h)
  BY <1>1, <1>8 DEF D
<1>10. Scan = CHOOSE g : g = Next(g)
  BY DEF Scan, Scanned, D
<1>11. Scan = Next(Scan)
  <2> HIDE DEF Next
  <2> QED  BY <1>9, <1>10
<1>12. ASSUME NEW n \in D PROVE Scan[n] = Scanned(n, Scan)
  BY <1>11
<1> DEFINE Typed == {n \in Nat : n \in D => Scan[n] \in [Kind -> Streak]}
<1>13. 0 \in Typed
  BY <1>1, <1>12 DEF Scanned
<1>14. ASSUME NEW n \in Nat, n \in Typed PROVE n + 1 \in Typed
  <2> SUFFICES ASSUME n + 1 \in D PROVE Scan[n + 1] \in [Kind -> Streak]
    OBVIOUS
  <2>1. n \in D /\ n + 1 # 0 /\ (n + 1) - 1 = n /\ table[Len(table) + 1 - (n + 1)] \in JobRow
    BY <1>1 DEF D
  <2>2. Scan[n + 1] = ScanRow(Scan[n], table[Len(table) + 1 - (n + 1)])
    BY <1>12, <2>1 DEF Scanned
  <2> QED  BY <1>14, <2>1, <2>2, RowScanned
<1>15. Nat \subseteq Typed
  <2> HIDE DEF Typed
  <2> QED  BY <1>13, <1>14, AllNumbers
<1>16. D \subseteq Nat
  BY DEF D
<1> QED  BY <1>12, <1>15, <1>16 DEF D

\* The newest rows, and the failures among them that no success repaired.
Newest(n) == {j \in DOMAIN table : j > Len(table) - n}
Repaired(kind, n) == \E j \in Newest(n) : Repairs(table[j], kind)
Failures(kind, n) == {j \in Newest(n) : j \in Unrepaired(kind)}

\* The scan has counted the failures among the rows it has seen, and knows of a success.
LEMMA ScanCounts ==
    ASSUME AttentionInv, NEW kind \in Kind
    PROVE  \A n \in 0..Len(table) :
              /\ Scan[n][kind].resolved <=> Repaired(kind, n)
              /\ IsFiniteSet(Failures(kind, n)) /\ Scan[n][kind].count = Cardinality(Failures(kind, n))
<1> DEFINE Right(n) == /\ Scan[n][kind].resolved <=> Repaired(kind, n)
                       /\ IsFiniteSet(Failures(kind, n)) /\ Scan[n][kind].count = Cardinality(Failures(kind, n))
           T == {n \in Nat : n <= Len(table) => Right(n)}
<1>1. /\ Len(table) \in Nat /\ DOMAIN table = 1..Len(table) /\ AttentionTypeOK
      /\ \A j \in DOMAIN table : table[j] \in JobRow /\ (table[j].status \in Finished => ~table[j].cancelRequested)
  <2>1. Len(table) \in Nat /\ DOMAIN table = 1..Len(table) /\ AttentionTypeOK
    BY LenProperties DEF AttentionInv, AttentionTypeOK
  <2> QED  BY <2>1, ElementOfSeq DEF AttentionInv, AttentionTypeOK, Settled
<1>2. Right(0)
  <2>1. Scan[0] = Unscanned
    BY <1>1, ScanUnfolds DEF Scanned
  <2>2. Newest(0) = {}
    BY <1>1 DEF Newest
  <2>3. Scan[0][kind].count = 0 /\ ~Scan[0][kind].resolved
    BY <2>1 DEF Unscanned
  <2>4. ~Repaired(kind, 0) /\ Failures(kind, 0) = {}
    BY <2>2 DEF Repaired, Failures
  <2>5. IsFiniteSet({}) /\ Cardinality({}) = 0
    BY FS_EmptySet
  <2> QED  BY <2>3, <2>4, <2>5
<1>3. ASSUME NEW n \in Nat, n + 1 <= Len(table), Right(n) PROVE Right(n + 1)
  <2> DEFINE j == Len(table) - n
             row == table[j]
             acc == Scan[n][kind]
             next == Scan[n + 1][kind]
  <2>1. /\ j \in DOMAIN table /\ row \in JobRow /\ (row.status \in Finished => ~row.cancelRequested)
        /\ j \notin Newest(n) /\ Newest(n + 1) = Newest(n) \cup {j} /\ Newest(n) = (j + 1)..Len(table)
    BY <1>1, <1>3 DEF Newest
  <2>2. acc \in Streak
    BY <1>1, <1>3, ScanUnfolds
  <2>3. next = IF acc.resolved \/ ~Counted(row) \/ ~Relevant(row, kind) THEN acc
               ELSE IF row.status = "succeeded" THEN [acc EXCEPT !.resolved = TRUE]
               ELSE [acc EXCEPT !.count = @ + 1]
    <3>1. /\ n + 1 \in 0..Len(table) /\ n + 1 # 0 /\ (n + 1) - 1 = n /\ Len(table) + 1 - (n + 1) = j
      <4> DEFINE L == Len(table)
      <4>1. L \in Nat /\ n \in Nat /\ n + 1 <= L
        BY <1>1, <1>3
      <4> HIDE DEF L
      <4>2. n + 1 \in 0..L /\ n + 1 # 0 /\ (n + 1) - 1 = n /\ L + 1 - (n + 1) = L - n
        BY <4>1
      <4> QED  BY <4>2 DEF L
    <3>2. Scan[n + 1] = ScanRow(Scan[n], row)
      BY <1>1, <3>1, ScanUnfolds DEF Scanned
    <3> QED  BY <3>2 DEF ScanRow
  <2>4. /\ Counted(row) /\ Relevant(row, kind) /\ row.status = "succeeded" <=> Repairs(row, kind)
        /\ Counted(row) /\ Relevant(row, kind) /\ row.status # "succeeded" <=> Blames(row, kind)
    BY <2>1 DEF Counted, Relevant, Repairs, Blames, Finished, JobRow, Kind, Scope
  <2>5. j \in Unrepaired(kind) <=> Blames(row, kind) /\ ~Repaired(kind, n)
    BY <2>1 DEF Unrepaired, Repaired
  <2>6. Repaired(kind, n + 1) <=> Repaired(kind, n) \/ Repairs(row, kind)
    BY <2>1 DEF Repaired
  <2>7. Failures(kind, n + 1) = IF j \in Unrepaired(kind) THEN Failures(kind, n) \cup {j} ELSE Failures(kind, n)
    BY <2>1 DEF Failures
  <2>8. /\ j \notin Failures(kind, n)
        /\ IsFiniteSet(Failures(kind, n) \cup {j})
        /\ Cardinality(Failures(kind, n) \cup {j}) = Cardinality(Failures(kind, n)) + 1
    BY <1>3, <2>1, FS_AddElement DEF Failures
  <2>9. ~(Blames(row, kind) /\ Repairs(row, kind))
    BY DEF Blames, Repairs
  <2> HIDE DEF j, row, acc, next
  <2>10. next.resolved <=> Repaired(kind, n + 1)
    BY <1>3, <2>2, <2>3, <2>4, <2>6 DEF acc, Streak
  <2>11. next.count = IF j \in Unrepaired(kind) THEN acc.count + 1 ELSE acc.count
    BY <1>3, <2>2, <2>3, <2>4, <2>5, <2>9 DEF acc, Streak
  <2> QED  BY <1>3, <2>7, <2>8, <2>10, <2>11 DEF acc, next
<1>4. 0 \in T /\ \A n \in Nat : n \in T => n + 1 \in T
  <2> HIDE DEF Right
  <2> QED  BY <1>1, <1>2, <1>3
<1>5. Nat \subseteq T
  <2> HIDE DEF T
  <2> QED  BY <1>4, AllNumbers
<1> QED  BY <1>1, <1>5

\* Whatever jobs end, are retried or are cancelled in any order: the warning counts the failed
\* refreshes that no later success repaired, once for each kind.
THEOREM FailuresAreCounted == AttentionSpec => []StreaksCountFailures
<1>1. AttentionInv => StreaksCountFailures
  <2> SUFFICES ASSUME AttentionInv, NEW kind \in Kind PROVE Streaks[kind] = Cardinality(Unrepaired(kind))
    BY DEF StreaksCountFailures
  <2>1. Len(table) \in 0..Len(table) /\ Newest(Len(table)) = DOMAIN table
    <3>1. Len(table) \in Nat /\ DOMAIN table = 1..Len(table)
      BY LenProperties DEF AttentionInv, AttentionTypeOK
    <3> QED  BY <3>1 DEF Newest
  <2>2. Failures(kind, Len(table)) = Unrepaired(kind)
    BY <2>1 DEF Failures, Unrepaired
  <2> QED  BY <2>1, <2>2, ScanCounts DEF Streaks
<1> QED  BY AttentionInvariant, <1>1, PTL
==============================================================================
