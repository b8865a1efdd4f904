----------------------------- MODULE BrokerSync -----------------------------
(***************************************************************************)
(* One account's ledger: transaction exports that the broker prepares on   *)
(* request, in windows of at most a year, merged into one file that a      *)
(* manifest names.  A sync exports the rolling window up to today, then    *)
(* older windows back to the configured floor, compares what it has with   *)
(* the positions the account holds, and registers the merged ledger only   *)
(* when they agree.  It can be killed anywhere, a report can fail or take  *)
(* too long, and the clock, midnight included, goes on between its steps.  *)
(*                                                                         *)
(* A day has two halves.  An export is the set of half days whose          *)
(* transactions it holds.  In a half day there was nothing ("quiet"), a    *)
(* trade that the positions of today show ("held"), or one, or a payment,  *)
(* that they do not show ("closed").  Left out are the snapshot and the    *)
(* cash feed, written whole between the comparison and the ledger.         *)
(***************************************************************************)
EXTENDS FiniteSetsExt, Integers

CONSTANTS
    Lookback,    \* days the rolling window goes back
    Year,        \* days in an older window
    Installed,   \* half day of the first sync
    MaxHalf,     \* bound: half days that are looked at
    MaxActive,   \* bound: half days that are not quiet
    MaxSetbacks  \* bound: syncs that are killed, reports that fail or are late

ASSUME BrokerAssumption ==
    /\ Year \in Nat \ {0} /\ Lookback \in 1..Year
    /\ Installed \in Nat /\ MaxHalf \in Nat /\ Installed <= MaxHalf
    /\ Lookback <= Installed \div 2  \* a rolling window that starts before the floor is refused
    /\ MaxActive \in Nat /\ MaxSetbacks \in Nat

VARIABLES
    now,       \* the half day it is; what happens in it can be exported after it
    activity,  \* activity[h]: what happens in half day h
    exports,   \* downloaded files, the latest of each window
    report,    \* pending_export.json
    ledger,    \* what the manifest names
    sync,      \* the sync under way
    late,      \* whether a sync came more than Lookback days after the end of the ledger
    setbacks   \* syncs killed and reports failed so far

brokerVars == <<now, activity, exports, report, ledger, sync, late, setbacks>>

Half == 0..MaxHalf
Day(h) == h \div 2
Today == Day(now)
Days == 0..Day(MaxHalf)
Floor == 0  \* TRADING_MAX_BROKER_EXPORT_FLOOR
Window == [from : Days, to : Days]
NoReport == [window |-> [from |-> 0, to |-> 0], rows |-> {}, failed |-> FALSE, loaded |-> FALSE, known |-> FALSE]
NoLedger == [start |-> -1, end |-> -1, rows |-> {}]
Registered == ledger # NoLedger
NoSync == [at |-> "rest", seen |-> 0, request |-> [from |-> 0, to |-> 0], window |-> [from |-> 0, to |-> 0],
            rows |-> {}, oldest |-> 0]

ReportState == [window : Window, rows : SUBSET Half, failed : BOOLEAN, loaded : BOOLEAN, known : BOOLEAN]
LedgerState == [start : Days, end : Days, rows : SUBSET Half] \cup {NoLedger}
SyncState == [at : {"rest", "window", "wait", "clear", "reconcile", "register"}, seen : Half,
              request : Window, window : Window, rows : SUBSET Half, oldest : Days]

BrokerTypeOK ==
    /\ now \in Half /\ activity \in [Half -> {"quiet", "closed", "held"}]
    /\ exports \subseteq [window : Window, rows : SUBSET Half]
    /\ report \in ReportState /\ ledger \in LedgerState /\ sync \in SyncState
    /\ late \in BOOLEAN /\ setbacks \in 0..MaxSetbacks

BrokerInit ==
    /\ now = Installed
    /\ \E active \in UNION {kSubset(n, Half) : n \in 0..MaxActive} :
          \E kind \in [active -> {"closed", "held"}] :
             activity = [h \in Half |-> IF h \in active THEN kind[h] ELSE "quiet"]
    /\ exports = {} /\ report = NoReport /\ ledger = NoLedger /\ sync = NoSync
    /\ late = FALSE /\ setbacks = 0

\* What a report that is requested now will hold: its window, as far as it has passed.
Exported(window) == {h \in Half : Day(h) \in window.from..window.to /\ h < now}
Held(rows) == {h \in rows : activity[h] = "held"}
Passed(h) == {i \in Half : i < h}

\* reconcile_positions(): what the exports say of the positions is what was read.
Verified == Held(sync.rows) = Held(Passed(sync.seen))
-----------------------------------------------------------------------------
FaultyRecent == [from |-> Today - Lookback + 1, to |-> Today]  \* a day short
Recent == [from |-> Today - Lookback, to |-> Today]

\* The rolling window, in UTC; the positions are read first.
StartSync ==
    /\ sync.at = "rest"
    /\ sync' = [at |-> "window", seen |-> now, request |-> Recent, window |-> Recent, rows |-> ledger.rows,
                oldest |-> IF Registered THEN Min({ledger.start, Recent.from}) ELSE Recent.from]
    /\ late' = (late \/ (Registered /\ Today - Lookback > ledger.end))
    /\ UNCHANGED <<now, activity, exports, report, ledger, setbacks>>

\* A window that is over is not downloaded twice ...
Mutable == sync.window.to >= Today
Matching == report.known /\ report.window = sync.window
FindExport ==
    /\ sync.at = "window" /\ ~Mutable
    /\ \E f \in exports :
          /\ f.window = sync.window
          /\ sync' = [sync EXCEPT !.at = "reconcile", !.rows = @ \cup f.rows]
    /\ UNCHANGED <<now, activity, exports, report, ledger, late, setbacks>>

\* ... a report that was asked for is waited for, unless it is today's and was used ...
Cached == ~Mutable /\ \E f \in exports : f.window = sync.window
ResumeReport ==
    /\ sync.at = "window" /\ ~Cached
    /\ Matching /\ ~(Mutable /\ report.loaded)
    /\ sync' = [sync EXCEPT !.at = "wait"]
    /\ UNCHANGED <<now, activity, exports, report, ledger, late, setbacks>>

\* ... and anything else is asked for.
RequestReport ==
    /\ sync.at = "window" /\ ~Cached
    /\ ~Matching \/ (Mutable /\ report.loaded)
    /\ report' = [NoReport EXCEPT !.window = sync.window, !.rows = Exported(sync.window), !.known = TRUE]
    /\ sync' = [sync EXCEPT !.at = "wait"]
    /\ UNCHANGED <<now, activity, exports, ledger, late, setbacks>>

\* The file appears whole; the report is forgotten in a step of its own.
Download ==
    /\ sync.at = "wait" /\ ~report.failed
    /\ exports' = {f \in exports : f.window # sync.window} \cup {[window |-> sync.window, rows |-> report.rows]}
    /\ report' = [report EXCEPT !.loaded = TRUE]
    /\ sync' = [sync EXCEPT !.at = "clear", !.rows = @ \cup report.rows]
    /\ UNCHANGED <<now, activity, ledger, late, setbacks>>
ClearPending ==
    /\ sync.at = "clear"
    /\ report' = NoReport
    /\ sync' = [sync EXCEPT !.at = "reconcile"]
    /\ UNCHANGED <<now, activity, exports, ledger, late, setbacks>>

\* A report that ended without a file stays pending; so does one that takes too long.
ReportFails ==
    /\ sync.at = "wait"
    /\ \/ report.failed /\ UNCHANGED <<report, setbacks>>
       \/ ~report.failed /\ setbacks < MaxSetbacks /\ setbacks' = setbacks + 1 /\ UNCHANGED report
       \/ /\ ~report.failed /\ setbacks < MaxSetbacks /\ setbacks' = setbacks + 1
          /\ Today < Day(MaxHalf)  \* the bound of the clock: there is another day
          /\ report' = [report EXCEPT !.failed = TRUE]
    /\ sync' = NoSync
    /\ UNCHANGED <<now, activity, exports, ledger, late>>

\* Older windows, back to the floor or until one is empty ...
Oldest == Min({sync.oldest, sync.window.from})
EmptyWindow ==
    /\ sync.window # sync.request
    /\ \A h \in sync.rows : Day(h) \in sync.window.from..sync.window.to => activity[h] = "quiet"
FaultyDone == Oldest <= Floor \/ Verified  \* a ledger that explains the positions will do
Done == Oldest <= Floor \/ EmptyWindow
OlderWindow ==
    /\ sync.at = "reconcile" /\ ~Done
    /\ sync' = [sync EXCEPT !.at = "window", !.oldest = Oldest,
                            !.window = [from |-> Max({Floor, Oldest - Year}), to |-> Oldest - 1]]
    /\ UNCHANGED <<now, activity, exports, report, ledger, late, setbacks>>

\* ... then the positions must agree.
Reconcile ==
    /\ sync.at = "reconcile" /\ Done
    /\ sync' = IF Verified THEN [sync EXCEPT !.at = "register", !.oldest = Oldest] ELSE NoSync
    /\ UNCHANGED <<now, activity, exports, report, ledger, late, setbacks>>

Consolidated == [start |-> sync.oldest, end |-> sync.request.to, rows |-> sync.rows]
Register ==
    /\ sync.at = "register"
    /\ ledger' = Consolidated
    /\ report' = NoReport /\ sync' = NoSync
    /\ UNCHANGED <<now, activity, exports, late, setbacks>>

SyncStep ==
    \/ FindExport \/ ResumeReport \/ RequestReport \/ Download \/ ClearPending
    \/ ReportFails \/ OlderWindow \/ Reconcile \/ Register

SyncLost ==
    /\ sync.at # "rest" /\ setbacks < MaxSetbacks
    /\ setbacks' = setbacks + 1
    /\ sync' = NoSync
    /\ UNCHANGED <<now, activity, exports, report, ledger, late>>

HalfDayPasses ==
    /\ now < MaxHalf /\ now' = now + 1
    /\ UNCHANGED <<activity, exports, report, ledger, sync, late, setbacks>>

BrokerNext == StartSync \/ SyncStep \/ SyncLost \/ HalfDayPasses
BrokerFairness == WF_brokerVars(StartSync) /\ WF_brokerVars(SyncStep) /\ WF_brokerVars(HalfDayPasses)
BrokerSpec == BrokerInit /\ [][BrokerNext]_brokerVars /\ BrokerFairness
-----------------------------------------------------------------------------
Holes == {h \in Half : Day(h) \in ledger.start..(ledger.end - 1)} \ ledger.rows

\* As long as syncs are at most Lookback days apart: reports resumed hours later, files of
\* days that were not over, syncs over midnight and syncs cut short leave no hole.
LedgerHasNoHole == Registered /\ ~late => Holes = {}

\* "The first sync ... automatically requests earlier one-year slices while a live position
\* still has an unexplained opening balance ...; reaching the floor without a match still
\* fails loudly" (trading212-ingestion.md:38): no sync gives up before the floor.
SlicesUntilExplained == [][Reconcile /\ ~Verified => Oldest <= Floor]_brokerVars

\* Once the account is synced, the whole history is in the ledger in the end, unless
\* syncs stop for too long or a position is older than a window without transactions.
Forgotten == sync.at = "reconcile" /\ EmptyWindow /\ \E h \in Half : activity[h] = "held" /\ Day(h) < Oldest
HistoryReachesFloor == (sync.at # "rest") ~> (late \/ Forgotten \/ (Registered /\ ledger.start <= Floor))
=============================================================================
