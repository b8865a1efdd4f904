----------------------------- MODULE Ledgers_proofs -----------------------------
(***************************************************************************)
(* The two ledgers of an account: the one that broker syncs put together,  *)
(* and the one that imports of CFD exports put together.                   *)
(*                                                                         *)
(* For any lengths of windows and any activity: as long as syncs are not   *)
(* too far apart, the registered ledger has no hole.  It needs to know     *)
(* what every file and pending report is sure to hold (FilesOK), which     *)
(* windows a sync asks for (WindowOK) and what the rows it has gathered    *)
(* cover at each of its steps (RowsOK).                                    *)
(*                                                                         *)
(* A file of the rolling window may lack a part of its last day.  It is    *)
(* never taken for an older window because the two differ in length, which *)
(* is where the theorem needs Lookback = Year, as the defaults are.        *)
(*                                                                         *)
(* For any number of CFD exports: imports that are cut short leave what    *)
(* was answered.  UploadOK says what each step of an upload relies on:     *)
(* what it is about to list was found free of conflicts before.  The costs *)
(* of what is listed count once, which is a matter of sums: what a close   *)
(* is given never exceeds what it bore (ShareOfBorne), so what it bore in  *)
(* all tells whether there is more (FallbackIsMissing).                    *)
(***************************************************************************)
EXTENDS BrokerSync, CfdImports, FiniteSetTheorems, Functions, WellFoundedInduction, TLAPS

Rolling(window) == window.to - window.from = Lookback

\* What an export holds whenever it was asked for: its window, but the last day of a rolling one.
Covers(window, rows) ==
    \A h \in Half : /\ window.from <= Day(h) /\ Day(h) <= window.to
                    /\ ~(Rolling(window) /\ Day(h) = window.to)
                    => h \in rows

\* All days from start up to end, without end.
Whole(start, end, rows) == \A h \in Half : start <= Day(h) /\ Day(h) < end => h \in rows

ClockOK == now >= Installed
FilesOK ==
    /\ \A f \in exports : Covers(f.window, f.rows)
    /\ report.known => Covers(report.window, report.rows)
WindowOK ==
    /\ sync.at # "rest" =>
          Rolling(sync.request) /\ sync.request.to <= Today /\ sync.oldest <= sync.request.from
    /\ sync.at \notin {"rest", "register"} =>
          \/ sync.window = sync.request
          \/ /\ sync.window.to < Today /\ sync.window.to - sync.window.from < Lookback
             /\ sync.oldest = sync.window.to + 1 /\ sync.window.from <= sync.oldest
    /\ sync.at = "wait" => report.known /\ report.window = sync.window
RowsOK ==
    ~late =>
        /\ Registered => Whole(ledger.start, ledger.end, ledger.rows)
        /\ sync.at \in {"window", "wait"} =>
              IF sync.window = sync.request THEN Whole(sync.oldest, sync.request.from, sync.rows)
              ELSE Whole(sync.window.to + 1, sync.request.to, sync.rows)
        /\ sync.at \in {"clear", "reconcile"} => Whole(Oldest, sync.request.to, sync.rows)
        /\ sync.at = "register" => Whole(sync.oldest, sync.request.to, sync.rows)

BrokerInv == BrokerTypeOK /\ ClockOK /\ FilesOK /\ WindowOK /\ RowsOK

USE BrokerAssumption

LEMMA Halves ==
    ASSUME NEW a \in Nat, NEW b \in Nat
    PROVE  /\ Day(a) \in Nat
           /\ a <= b => Day(a) <= Day(b)
           /\ Day(a) < Day(b) => a < b
BY DEF Day

LEMMA LeastOfTwo ==
    ASSUME NEW a \in Int, NEW b \in Int
    PROVE  Min({a, b}) = IF a <= b THEN a ELSE b
<1>1. \A x \in {a, b} : (\A y \in {a, b} : x =< y) <=> x = IF a <= b THEN a ELSE b
  OBVIOUS
<1> QED  BY <1>1 DEF Min

LEMMA LeastDay == \A a, b \in Days : Min({a, b}) = (IF a <= b THEN a ELSE b) /\ Min({a, b}) \in Days
<1> SUFFICES ASSUME NEW a \in Days, NEW b \in Days
             PROVE  Min({a, b}) = (IF a <= b THEN a ELSE b)
  OBVIOUS
<1>1. a \in Int /\ b \in Int
  BY DEF Days
<1> QED  BY <1>1, LeastOfTwo

LEMMA GreatestOfTwo ==
    ASSUME NEW a \in Int, NEW b \in Int
    PROVE  Max({a, b}) = IF a >= b THEN a ELSE b
<1>1. \A x \in {a, b} : (\A y \in {a, b} : x >= y) <=> x = IF a >= b THEN a ELSE b
  OBVIOUS
<1> QED  BY <1>1 DEF Max

LEMMA DaysOfHalves ==
    /\ \A h \in Half : Day(h) \in Days
    /\ \A a, b \in Half : (a <= b => Day(a) <= Day(b)) /\ (Day(a) < Day(b) => a < b)
    /\ \A a \in Half : Installed <= a => Lookback <= Day(a)
    /\ Half \subseteq Nat /\ Days \subseteq Nat /\ 0 \in Days /\ 0 \in Half
<1>1. MaxHalf \in Nat /\ Installed \in Nat
  OBVIOUS
<1>2. \A a, b \in Nat : Day(a) \in Nat /\ (a <= b => Day(a) <= Day(b)) /\ (Day(a) < Day(b) => a < b)
  BY Halves
<1>3. Half = 0..MaxHalf /\ Days = 0..Day(MaxHalf) /\ Lookback <= Day(Installed)
  BY DEF Half, Days, Day
<1>4. \A h \in Half : h \in Nat /\ h <= MaxHalf
  BY <1>1, <1>3
<1>5. Day(MaxHalf) \in Nat /\ Day(Installed) \in Nat
  BY <1>1, <1>2
<1>6. \A h \in Half : Day(h) \in Nat /\ Day(h) <= Day(MaxHalf)
  BY <1>1, <1>2, <1>4
<1>7. \A a \in Half : Installed <= a => Lookback <= Day(a)
  <2> SUFFICES ASSUME NEW a \in Half, Installed <= a PROVE Lookback <= Day(a)
    OBVIOUS
  <2>1. Day(Installed) <= Day(a) /\ Day(a) \in Nat
    BY <1>1, <1>2, <1>4
  <2> QED  BY <2>1, <1>3, <1>5
<1>8. \A h \in Half : Day(h) \in Days
  BY <1>3, <1>5, <1>6
<1>9. \A a, b \in Half : (a <= b => Day(a) <= Day(b)) /\ (Day(a) < Day(b) => a < b)
  BY <1>2, <1>4
<1>10. Half \subseteq Nat /\ Days \subseteq Nat /\ 0 \in Days /\ 0 \in Half
  BY <1>1, <1>3, <1>4, <1>5
<1> QED  BY <1>7, <1>8, <1>9, <1>10

LEMMA RestingStates == NoReport \in ReportState /\ NoSync \in SyncState /\ NoLedger \in LedgerState
<1>1. [from |-> 0, to |-> 0] \in Window
  BY DaysOfHalves DEF Window
<1> QED  BY <1>1, DaysOfHalves DEF NoReport, ReportState, NoSync, SyncState, LedgerState

\* The parts of the records.
LEMMA Parts ==
    ASSUME BrokerTypeOK
    PROVE  /\ \A w \in Window : w.from \in Days /\ w.to \in Days
           /\ sync.at \in {"rest", "window", "wait", "clear", "reconcile", "register"} /\ sync.seen \in Half
           /\ sync.request \in Window /\ sync.window \in Window
           /\ sync.rows \subseteq Half /\ sync.oldest \in Days
           /\ report.window \in Window /\ report.rows \subseteq Half
           /\ \A f \in exports : f.window \in Window /\ f.rows \subseteq Half
           /\ ledger.rows \subseteq Half
           /\ Registered => ledger.start \in Days /\ ledger.end \in Days
<1>1. \A w \in Window : w.from \in Days /\ w.to \in Days
  BY DEF Window
<1>2. sync \in SyncState /\ report \in ReportState /\ ledger \in LedgerState
  BY DEF BrokerTypeOK
<1>3. \A f \in exports : f.window \in Window /\ f.rows \subseteq Half
  BY DEF BrokerTypeOK
<1>4. ledger.rows \subseteq Half /\ (Registered => ledger.start \in Days /\ ledger.end \in Days)
  BY <1>2 DEF LedgerState, Registered, NoLedger
<1> QED  BY <1>1, <1>2, <1>3, <1>4 DEF SyncState, ReportState

LEMMA OldestDay ==
    ASSUME BrokerTypeOK
    PROVE  /\ Oldest = IF sync.oldest <= sync.window.from THEN sync.oldest ELSE sync.window.from
           /\ Oldest \in Days /\ Oldest \in Nat /\ sync.oldest \in Nat /\ Oldest <= sync.oldest
<1>1. sync.oldest \in Days /\ sync.window.from \in Days
  BY Parts
<1>2. Oldest = (IF sync.oldest <= sync.window.from THEN sync.oldest ELSE sync.window.from) /\ Oldest \in Days
  BY <1>1, LeastDay DEF Oldest
<1>3. sync.oldest \in Nat /\ sync.window.from \in Nat /\ Oldest \in Nat
  BY <1>1, <1>2, DaysOfHalves
<1> QED  BY <1>2, <1>3

LEMMA InitialBroker == BrokerInit => BrokerInv
<1> SUFFICES ASSUME BrokerInit PROVE BrokerInv
  OBVIOUS
<1>1. activity \in [Half -> {"quiet", "closed", "held"}]
  BY DEF BrokerInit
<1>2. now \in Half
  BY DEF BrokerInit, Half
<1>3. BrokerTypeOK
  <2>1. exports = {} /\ late = FALSE /\ setbacks = 0 /\ report = NoReport /\ ledger = NoLedger /\ sync = NoSync
    BY DEF BrokerInit
  <2>2. 0 \in 0..MaxSetbacks
    OBVIOUS
  <2> QED  BY <1>1, <1>2, <2>1, <2>2, RestingStates DEF BrokerTypeOK
<1>4. ClockOK
  BY DEF BrokerInit, ClockOK
<1>5. FilesOK /\ WindowOK /\ RowsOK
  BY DEF BrokerInit, FilesOK, WindowOK, RowsOK, NoReport, NoSync, Registered
<1> QED  BY <1>3, <1>4, <1>5 DEF BrokerInv

LEMMA TypeStep == BrokerTypeOK /\ ClockOK /\ [BrokerNext]_brokerVars => BrokerTypeOK' /\ ClockOK'
<1> SUFFICES ASSUME BrokerTypeOK, ClockOK, [BrokerNext]_brokerVars PROVE BrokerTypeOK' /\ ClockOK'
  OBVIOUS
<1> USE DaysOfHalves, Parts, RestingStates DEF BrokerTypeOK, ClockOK
<1>1. now \in Half /\ Today \in Days /\ now \in Nat /\ Lookback <= Today
  BY DEF Today
<1>2. Oldest \in Days
  BY OldestDay
<1>3. CASE StartSync
  <2>1. Recent.from \in Days /\ Recent \in Window
    <3>1. Today - Lookback \in Days
      BY <1>1, Halves DEF Days
    <3> QED  BY <1>1, <3>1 DEF Recent, Window
  <2>2. Registered => Min({ledger.start, Recent.from}) \in Days
    <3>1. Registered => ledger.start \in Days /\ Recent.from \in Days
      BY <2>1, Parts
    <3> QED  BY <3>1, LeastDay
  <2> QED  BY <1>1, <1>3, <2>1, <2>2 DEF StartSync, SyncState
<1>4. CASE FindExport
  <2>1. PICK f \in exports : sync' = [sync EXCEPT !.at = "reconcile", !.rows = @ \cup f.rows]
    BY <1>4 DEF FindExport
  <2>2. sync.rows \cup f.rows \subseteq Half
    OBVIOUS
  <2> QED  BY <1>4, <2>1, <2>2 DEF FindExport, SyncState
<1>5. CASE ResumeReport  BY <1>5 DEF ResumeReport, SyncState
<1>6. CASE RequestReport
  <2>1. Exported(sync.window) \subseteq Half
    BY DEF Exported
  <2> QED  BY <1>6, <2>1 DEF RequestReport, NoReport, ReportState, SyncState
<1>7. CASE Download
  <2>1. [window |-> sync.window, rows |-> report.rows] \in [window : Window, rows : SUBSET Half]
    OBVIOUS
  <2>2. sync.rows \cup report.rows \subseteq Half
    OBVIOUS
  <2> QED  BY <1>7, <2>1, <2>2 DEF Download, ReportState, SyncState
<1>8. CASE ClearPending  BY <1>8 DEF ClearPending, SyncState
<1>9. CASE ReportFails
  <2>1. setbacks' \in 0..MaxSetbacks
    BY <1>9 DEF ReportFails
  <2>2. report' \in ReportState
    BY <1>9 DEF ReportFails, ReportState
  <2> QED  BY <1>9, <2>1, <2>2 DEF ReportFails
<1>10. CASE OlderWindow
  <2>1. ~(Oldest <= 0)
    BY <1>10 DEF OlderWindow, Done, Floor
  <2>2. Max({0, Oldest - Year}) \in Days /\ Oldest - 1 \in Days
    <3>1. Oldest \in Int /\ Year \in Int /\ Day(MaxHalf) \in Int
      BY <1>2, Halves DEF Days
    <3>2. Max({0, Oldest - Year}) = IF 0 >= Oldest - Year THEN 0 ELSE Oldest - Year
      <4>1. 0 \in Int /\ Oldest - Year \in Int
        BY <3>1
      <4> QED  BY <4>1, GreatestOfTwo
    <3> QED  BY <1>2, <2>1, <3>1, <3>2 DEF Days
  <2> QED  BY <1>2, <1>10, <2>2 DEF OlderWindow, Floor, Window, SyncState
<1>11. CASE Reconcile  BY <1>2, <1>11 DEF Reconcile, SyncState
<1>12. CASE Register  BY <1>12 DEF Register, Consolidated, LedgerState
<1>13. CASE SyncLost  BY <1>13 DEF SyncLost
<1>14. CASE HalfDayPasses  BY <1>14 DEF HalfDayPasses, Half
<1>15. CASE UNCHANGED brokerVars  BY <1>15 DEF brokerVars
<1> QED
  BY <1>3, <1>4, <1>5, <1>6, <1>7, <1>8, <1>9, <1>10, <1>11, <1>12, <1>13, <1>14, <1>15 DEF BrokerNext, SyncStep

\* Exports that are asked for now hold what they are sure to hold.
LEMMA ExportsCover ==
    ASSUME BrokerTypeOK, WindowOK, sync.at = "window"
    PROVE  Covers(sync.window, Exported(sync.window))
<1> SUFFICES ASSUME NEW h \in Half, sync.window.from <= Day(h), Day(h) <= sync.window.to,
                    ~(Rolling(sync.window) /\ Day(h) = sync.window.to)
             PROVE  h \in Exported(sync.window)
  BY DEF Covers
<1>1. now \in Half /\ Day(h) \in Nat /\ Today \in Nat /\ Today = Day(now)
  BY DaysOfHalves DEF BrokerTypeOK, Today
<1>2. sync.window.from \in Nat /\ sync.window.to \in Nat
  BY Parts, DaysOfHalves
<1>3. \/ Rolling(sync.window) /\ sync.window.to <= Today
      \/ sync.window.to < Today
  BY DEF WindowOK
<1>4. Day(h) < Day(now)
  BY <1>1, <1>2, <1>3
<1>5. h < now
  BY <1>1, <1>4, DaysOfHalves
<1> QED  BY <1>1, <1>2, <1>5 DEF Exported

LEMMA FilesStep == BrokerInv /\ [BrokerNext]_brokerVars => FilesOK'
<1> SUFFICES ASSUME BrokerInv, [BrokerNext]_brokerVars PROVE FilesOK'
  OBVIOUS
<1> USE DEF BrokerInv, FilesOK, Covers
<1>1. CASE RequestReport
  <2>1. Covers(sync.window, Exported(sync.window))
    BY <1>1, ExportsCover DEF RequestReport
  <2> QED  BY <1>1, <2>1 DEF RequestReport, NoReport
<1>2. CASE Download
  <2>1. Covers(sync.window, report.rows)
    BY <1>2 DEF Download, WindowOK
  <2> QED  BY <1>2, <2>1 DEF Download
<1>3. CASE ClearPending \/ Register  BY <1>3 DEF ClearPending, Register, NoReport
<1>4. CASE ReportFails
  <2>1. report'.known = report.known /\ report'.window = report.window /\ report'.rows = report.rows
    BY <1>4 DEF ReportFails, BrokerTypeOK, ReportState
  <2> QED  BY <1>4, <2>1 DEF ReportFails
<1>5. CASE \/ StartSync \/ FindExport \/ ResumeReport \/ OlderWindow \/ Reconcile \/ SyncLost
           \/ HalfDayPasses \/ UNCHANGED brokerVars
  BY <1>5 DEF StartSync, FindExport, ResumeReport, OlderWindow, Reconcile, SyncLost, HalfDayPasses, brokerVars
<1> QED  BY <1>1, <1>2, <1>3, <1>4, <1>5 DEF BrokerNext, SyncStep

\* An older window is shorter than a rolling one.
LEMMA OlderWindows ==
    ASSUME Lookback = Year, BrokerTypeOK, WindowOK, OlderWindow
    PROVE  /\ sync'.window.to = Oldest - 1 /\ sync'.oldest = Oldest /\ sync'.request = sync.request
           /\ sync'.at = "window" /\ sync'.rows = sync.rows
           /\ sync'.window.to - sync'.window.from < Lookback /\ sync'.window.from <= Oldest
           /\ Oldest <= sync.oldest
<1>1. Oldest \in Days /\ Oldest <= sync.oldest /\ Oldest \in Nat
  BY OldestDay
<1>2. ~(Oldest <= 0)
  BY DEF OlderWindow, Done, Floor
<1>3. Max({0, Oldest - Year}) = IF 0 >= Oldest - Year THEN 0 ELSE Oldest - Year
  <2>1. 0 \in Int /\ Oldest - Year \in Int
    BY <1>1
  <2> QED  BY <2>1, GreatestOfTwo
<1>4. sync' = [sync EXCEPT !.at = "window", !.oldest = Oldest,
                           !.window = [from |-> Max({0, Oldest - Year}), to |-> Oldest - 1]]
  BY DEF OlderWindow, Floor
<1>5. /\ sync'.window = [from |-> Max({0, Oldest - Year}), to |-> Oldest - 1] /\ sync'.oldest = Oldest
      /\ sync'.request = sync.request /\ sync'.at = "window" /\ sync'.rows = sync.rows
  BY <1>4 DEF BrokerTypeOK, SyncState
<1> QED  BY <1>1, <1>2, <1>3, <1>5

LEMMA WindowStep == Lookback = Year /\ BrokerInv /\ [BrokerNext]_brokerVars => WindowOK'
<1> SUFFICES ASSUME Lookback = Year, BrokerInv, [BrokerNext]_brokerVars PROVE WindowOK'
  OBVIOUS
<1>1. BrokerTypeOK /\ WindowOK /\ ClockOK
  BY DEF BrokerInv
<1>2. now \in Half /\ Today \in Nat /\ Lookback <= Today
  BY <1>1, DaysOfHalves DEF BrokerTypeOK, ClockOK, Today
<1>3. sync \in SyncState
  BY <1>1 DEF BrokerTypeOK
<1>4. CASE StartSync
  <2>1. sync'.window = Recent /\ sync'.request = Recent /\ sync'.at = "window"
    BY <1>4 DEF StartSync
  <2>2. Recent.from = Today - Lookback /\ Recent.to = Today /\ Today' = Today
    BY <1>4 DEF StartSync, Recent, Today
  <2>3. sync'.oldest <= Recent.from
    <3>1. Recent.from \in Days
      BY <1>1, <1>2, <2>2, DaysOfHalves, Halves DEF Days, BrokerTypeOK, Today
    <3>2. CASE Registered
      <4>1. sync'.oldest = Min({ledger.start, Recent.from})
        BY <1>4, <3>2 DEF StartSync
      <4>2. ledger.start \in Days
        BY <1>1, <3>2, Parts
      <4>3. ledger.start \in Nat /\ Recent.from \in Nat
        BY <3>1, <4>2, DaysOfHalves
      <4>4. sync'.oldest = IF ledger.start <= Recent.from THEN ledger.start ELSE Recent.from
        BY <3>1, <4>1, <4>2, LeastDay
      <4> QED  BY <4>3, <4>4
    <3>3. CASE ~Registered
      BY <1>2, <1>4, <2>2, <3>3 DEF StartSync
    <3> QED  BY <3>2, <3>3
  <2> QED  BY <1>2, <2>1, <2>2, <2>3 DEF WindowOK, Rolling
<1>5. CASE FindExport
  <2>1. PICK f \in exports : sync' = [sync EXCEPT !.at = "reconcile", !.rows = @ \cup f.rows]
    BY <1>5 DEF FindExport
  <2> QED  BY <1>1, <1>3, <1>5, <2>1 DEF FindExport, WindowOK, SyncState, Today, Rolling
<1>6. CASE ResumeReport
  BY <1>1, <1>3, <1>6 DEF ResumeReport, Matching, WindowOK, SyncState, Today, Rolling
<1>7. CASE RequestReport
  <2>1. report'.known /\ report'.window = sync.window
    BY <1>7 DEF RequestReport, NoReport
  <2> QED  BY <1>1, <1>3, <1>7, <2>1 DEF RequestReport, WindowOK, SyncState, Today, Rolling
<1>8. CASE Download
  BY <1>1, <1>3, <1>8 DEF Download, WindowOK, SyncState, Today, Rolling
<1>9. CASE ClearPending
  BY <1>1, <1>3, <1>9 DEF ClearPending, WindowOK, SyncState, Today, Rolling
<1>10. CASE ReportFails \/ Register \/ SyncLost
  BY <1>10 DEF ReportFails, Register, SyncLost, NoSync, WindowOK
<1>11. CASE OlderWindow
  <2>1. Rolling(sync.request) /\ sync.request.to <= Today /\ sync.oldest <= sync.request.from /\ Today' = Today
    BY <1>1, <1>11 DEF WindowOK, OlderWindow, Today
  <2>2. /\ sync.request.from \in Nat /\ sync.request.to \in Nat /\ sync.oldest \in Nat
        /\ Oldest \in Nat
    BY <1>1, Parts, OldestDay, DaysOfHalves
  <2>3. Oldest - 1 < Today
    BY <1>2, <1>1, <1>11, <2>1, <2>2, OlderWindows DEF Rolling
  <2> QED  BY <1>1, <1>2, <1>11, <2>1, <2>2, <2>3, OlderWindows DEF WindowOK, Rolling
<1>12. CASE Reconcile
  <2>1. Oldest <= sync.oldest /\ Oldest \in Nat /\ sync.oldest \in Nat /\ sync.request.from \in Nat
    BY <1>1, Parts, OldestDay, DaysOfHalves
  <2> QED  BY <1>1, <1>3, <1>12, <2>1 DEF Reconcile, NoSync, WindowOK, SyncState, Today, Rolling
<1>13. CASE HalfDayPasses
  <2>1. now' \in Half /\ now <= now'
    BY <1>1, <1>2, <1>13 DEF HalfDayPasses, Half
  <2>2. Today <= Today' /\ Today' \in Nat
    BY <1>2, <2>1, DaysOfHalves DEF Today
  <2>3. sync.request.to \in Nat /\ sync.window.to \in Nat
    BY <1>1, Parts, DaysOfHalves
  <2> QED  BY <1>1, <1>2, <1>13, <2>2, <2>3 DEF HalfDayPasses, WindowOK, Rolling
<1>14. CASE UNCHANGED brokerVars
  BY <1>1, <1>14 DEF brokerVars, WindowOK, Rolling, Today
<1> QED
  BY <1>4, <1>5, <1>6, <1>7, <1>8, <1>9, <1>10, <1>11, <1>12, <1>13, <1>14 DEF BrokerNext, SyncStep

\* What a download adds to the rows.
LEMMA Gather ==
    ASSUME Lookback = Year, BrokerTypeOK, WindowOK, RowsOK, ~late, sync.at \in {"window", "wait"},
           NEW rows, Covers(sync.window, rows)
    PROVE  Whole(Oldest, sync.request.to, sync.rows \cup rows)
<1> SUFFICES ASSUME NEW h \in Half, Oldest <= Day(h), Day(h) < sync.request.to
             PROVE  h \in sync.rows \cup rows
  BY DEF Whole
<1>1. Day(h) \in Nat /\ sync.request.from \in Nat /\ sync.request.to \in Nat
      /\ sync.window.from \in Nat /\ sync.window.to \in Nat
  BY Parts, DaysOfHalves
<1>2. CASE sync.window = sync.request
  <2>1. Whole(sync.oldest, sync.request.from, sync.rows)
    BY <1>2 DEF RowsOK
  <2>2. sync.oldest <= sync.request.from
    BY DEF WindowOK
  <2>3. Oldest = sync.oldest
    BY <1>1, <1>2, <2>2, OldestDay
  <2>4. CASE Day(h) < sync.request.from
    BY <2>1, <2>3, <2>4 DEF Whole
  <2>5. CASE ~(Day(h) < sync.request.from)
    BY <1>1, <1>2, <2>5 DEF Covers
  <2> QED  BY <2>4, <2>5
<1>3. CASE sync.window # sync.request
  <2>1. Whole(sync.window.to + 1, sync.request.to, sync.rows)
    BY <1>3 DEF RowsOK
  <2>2. /\ sync.window.to - sync.window.from < Lookback
        /\ sync.oldest = sync.window.to + 1 /\ sync.window.from <= sync.oldest
    BY <1>3 DEF WindowOK
  <2>3. Oldest = sync.window.from
    BY <1>1, <2>2, OldestDay
  <2>4. CASE Day(h) <= sync.window.to
    BY <1>1, <2>2, <2>3, <2>4 DEF Covers, Rolling
  <2>5. CASE ~(Day(h) <= sync.window.to)
    BY <1>1, <2>1, <2>5 DEF Whole
  <2> QED  BY <2>4, <2>5
<1> QED  BY <1>2, <1>3

LEMMA RowsStep == Lookback = Year /\ BrokerInv /\ [BrokerNext]_brokerVars => RowsOK'
<1> SUFFICES ASSUME Lookback = Year, BrokerInv, [BrokerNext]_brokerVars, ~late' PROVE RowsOK'
  BY DEF RowsOK
<1>1. BrokerTypeOK /\ WindowOK /\ RowsOK /\ FilesOK /\ sync \in SyncState
  BY DEF BrokerInv, BrokerTypeOK
<1>2. ~late
  BY DEF BrokerNext, SyncStep, StartSync, FindExport, ResumeReport, RequestReport, Download, ClearPending,
     ReportFails, OlderWindow, Reconcile, Register, SyncLost, HalfDayPasses, brokerVars
<1>3. Registered => Whole(ledger.start, ledger.end, ledger.rows)
  BY <1>1, <1>2 DEF RowsOK
<1> USE DEF Whole, Registered
<1>4. CASE StartSync
  <2>1. /\ sync'.window = Recent /\ sync'.request = Recent /\ sync'.at = "window" /\ sync'.rows = ledger.rows
        /\ ledger' = ledger /\ Recent.from = Today - Lookback
        /\ sync'.oldest = IF Registered THEN Min({ledger.start, Recent.from}) ELSE Recent.from
    BY <1>4 DEF StartSync, Recent
  <2>2. Whole(sync'.oldest, Recent.from, ledger.rows)
    <3> SUFFICES ASSUME NEW h \in Half, sync'.oldest <= Day(h), Day(h) < Recent.from PROVE h \in ledger.rows
      OBVIOUS
    <3>1. Day(h) \in Nat /\ Recent.from \in Days /\ Recent.from \in Nat
      BY <1>1, <2>1, DaysOfHalves, Halves DEF BrokerInv, ClockOK, BrokerTypeOK, Today, Days
    <3>2. Registered
      BY <2>1, <3>1
    <3>3. ledger.start \in Days /\ ledger.start \in Nat /\ ledger.end \in Nat
      BY <1>1, <3>2, Parts, DaysOfHalves
    <3>4. sync'.oldest = IF ledger.start <= Recent.from THEN ledger.start ELSE Recent.from
      BY <2>1, <3>1, <3>2, <3>3, LeastDay
    <3>5. Recent.from <= ledger.end
      <4>1. ~(Today - Lookback > ledger.end)
        BY <1>4, <3>2 DEF StartSync
      <4>2. Recent.from = Today - Lookback
        BY <2>1
      <4> QED  BY <3>1, <3>3, <4>1, <4>2
    <3> QED  BY <1>3, <3>1, <3>2, <3>3, <3>4, <3>5
  <2> QED  BY <1>3, <2>1, <2>2 DEF RowsOK
<1>5. CASE FindExport
  <2>1. PICK f \in exports : f.window = sync.window /\ sync' = [sync EXCEPT !.at = "reconcile", !.rows = @ \cup f.rows]
    BY <1>5 DEF FindExport
  <2>2. sync.at = "window" /\ Covers(sync.window, f.rows)
    BY <1>1, <1>5, <2>1 DEF FindExport, FilesOK
  <2>3. Whole(Oldest, sync.request.to, sync.rows \cup f.rows)
    BY <1>1, <1>2, <2>2, Gather
  <2>4. sync'.at = "reconcile" /\ sync'.request = sync.request /\ sync'.rows = sync.rows \cup f.rows /\ Oldest' = Oldest
    BY <1>1, <2>1 DEF SyncState, Oldest
  <2> QED  BY <1>3, <1>5, <2>3, <2>4 DEF FindExport, RowsOK
<1>6. CASE ResumeReport \/ RequestReport
  <2>1. /\ sync.at = "window" /\ sync'.at = "wait" /\ sync'.window = sync.window /\ sync'.request = sync.request
        /\ sync'.rows = sync.rows /\ sync'.oldest = sync.oldest /\ ledger' = ledger
    BY <1>1, <1>6 DEF ResumeReport, RequestReport, SyncState
  <2> QED  BY <1>1, <1>2, <1>3, <2>1 DEF RowsOK
<1>7. CASE Download
  <2>1. sync.at = "wait" /\ Covers(sync.window, report.rows)
    BY <1>1, <1>7 DEF Download, FilesOK, WindowOK
  <2>2. Whole(Oldest, sync.request.to, sync.rows \cup report.rows)
    BY <1>1, <1>2, <2>1, Gather
  <2>3. /\ sync'.at = "clear" /\ sync'.request = sync.request /\ sync'.rows = sync.rows \cup report.rows
        /\ Oldest' = Oldest /\ ledger' = ledger
    BY <1>1, <1>7 DEF Download, SyncState, Oldest
  <2> QED  BY <1>3, <2>2, <2>3 DEF RowsOK
<1>8. CASE ClearPending
  <2>1. /\ sync.at = "clear" /\ sync'.at = "reconcile" /\ sync'.request = sync.request /\ sync'.rows = sync.rows
        /\ Oldest' = Oldest /\ ledger' = ledger
    BY <1>1, <1>8 DEF ClearPending, SyncState, Oldest
  <2> QED  BY <1>1, <1>2, <1>3, <2>1 DEF RowsOK
<1>9. CASE OlderWindow
  <2>1. Whole(Oldest, sync.request.to, sync.rows)
    BY <1>1, <1>2, <1>9 DEF RowsOK, OlderWindow
  <2>2. /\ sync'.window.to = Oldest - 1 /\ sync'.request = sync.request /\ sync'.at = "window"
        /\ sync'.rows = sync.rows /\ sync'.window.to - sync'.window.from < Lookback /\ ledger' = ledger
    BY <1>1, <1>9, OlderWindows DEF OlderWindow
  <2>3. sync'.window # sync'.request
    BY <1>1, <1>9, <2>2, Parts, DaysOfHalves DEF WindowOK, Rolling, OlderWindow
  <2>4. sync'.window.to + 1 = Oldest
    BY <1>1, <2>2, OldestDay
  <2> QED  BY <1>3, <2>1, <2>2, <2>3, <2>4 DEF RowsOK
<1>10. CASE Reconcile
  <2>1. Whole(Oldest, sync.request.to, sync.rows) /\ ledger' = ledger
    BY <1>1, <1>2, <1>10 DEF RowsOK, Reconcile
  <2>2. CASE Verified
    <3>1. sync'.at = "register" /\ sync'.request = sync.request /\ sync'.rows = sync.rows /\ sync'.oldest = Oldest
      BY <1>1, <1>10, <2>2 DEF Reconcile, SyncState
    <3> QED  BY <1>3, <2>1, <3>1 DEF RowsOK
  <2>3. CASE ~Verified
    BY <1>3, <1>10, <2>1, <2>3 DEF Reconcile, NoSync, RowsOK
  <2> QED  BY <2>2, <2>3
<1>11. CASE Register
  <2>1. Whole(sync.oldest, sync.request.to, sync.rows)
    BY <1>1, <1>2, <1>11 DEF RowsOK, Register
  <2> QED  BY <1>11, <2>1 DEF Register, Consolidated, NoSync, RowsOK
<1>12. CASE ReportFails \/ SyncLost
  BY <1>3, <1>12 DEF ReportFails, SyncLost, NoSync, RowsOK
<1>13. CASE HalfDayPasses \/ UNCHANGED brokerVars
  BY <1>1, <1>2, <1>13 DEF HalfDayPasses, brokerVars, RowsOK, Oldest
<1> QED
  BY <1>4, <1>5, <1>6, <1>7, <1>8, <1>9, <1>10, <1>11, <1>12, <1>13 DEF BrokerNext, SyncStep

\* Every file, report and ledger is well formed.
THEOREM BrokerTypeCorrect == BrokerSpec => []BrokerTypeOK
<1>1. BrokerInit => BrokerTypeOK /\ ClockOK
  BY InitialBroker DEF BrokerInv
<1> QED  BY <1>1, TypeStep, PTL DEF BrokerSpec

LEMMA BrokerInvariant == Lookback = Year => (BrokerSpec => []BrokerInv)
<1> SUFFICES ASSUME Lookback = Year PROVE BrokerSpec => []BrokerInv
  OBVIOUS
<1>1. BrokerInv /\ [BrokerNext]_brokerVars => BrokerInv'
  BY TypeStep, FilesStep, WindowStep, RowsStep DEF BrokerInv
<1> QED  BY InitialBroker, <1>1, PTL DEF BrokerSpec

\* With windows of the default lengths, a ledger whose syncs were never too far apart has
\* every transaction between its first day and its last, whatever was resumed, cached or
\* cut short.
THEOREM LedgerIsWhole == Lookback = Year => (BrokerSpec => []LedgerHasNoHole)
<1> SUFFICES ASSUME Lookback = Year PROVE BrokerSpec => []LedgerHasNoHole
  OBVIOUS
<1>1. BrokerInv => LedgerHasNoHole
  <2> SUFFICES ASSUME BrokerInv, Registered, ~late, NEW h \in Half, Day(h) \in ledger.start..(ledger.end - 1)
               PROVE  h \in ledger.rows
    BY DEF LedgerHasNoHole, Holes
  <2>1. Whole(ledger.start, ledger.end, ledger.rows)
    BY DEF BrokerInv, RowsOK
  <2>2. ledger.start \in Nat /\ ledger.end \in Nat /\ Day(h) \in Nat
    BY Parts, DaysOfHalves DEF BrokerInv
  <2> QED  BY <2>1, <2>2 DEF Whole
<1> QED  BY <1>1, BrokerInvariant, PTL
-----------------------------------------------------------------------------
\* What is stored, listed and cached at each step of an upload.
UploadOK ==
    /\ upload.at # "rest" => ~Conflict(Candidate)
    /\ upload.at \in {"ledger", "analysis", "manifest"} => upload.file \in originals
    /\ upload.at \in {"analysis", "manifest"} => ledgerOf = Candidate
    /\ upload.at = "manifest" => analysisOf = Candidate
CfdInv == CfdTypeOK /\ ImportsHold /\ UploadOK

\* The account is given, and with it what an export can hold.
LEMMA SameAccount == [CfdNext]_cfdVars => UNCHANGED <<account, attribution, Closes, Export>>
<1> SUFFICES ASSUME [CfdNext]_cfdVars PROVE UNCHANGED <<account, attribution, Closes, Export>>
  OBVIOUS
<1>1. account' = account /\ attribution' = attribution
  BY DEF CfdNext, Upload, PersistOriginal, WriteLedger, WriteAnalysis, WriteEntry, CutShort, cfdVars
<1>2. Closes' = Closes
  BY <1>1 DEF Closes
<1> QED  BY <1>1, <1>2 DEF Export

LEMMA Underway ==
    ASSUME CfdTypeOK, upload.at # "rest"
    PROVE  upload \in [at : {"original", "ledger", "analysis", "manifest"}, file : Export]
BY DEF CfdTypeOK, NoUpload

LEMMA CfdTypeStep == CfdTypeOK /\ [CfdNext]_cfdVars => CfdTypeOK'
<1> SUFFICES ASSUME CfdTypeOK, [CfdNext]_cfdVars PROVE CfdTypeOK'
  OBVIOUS
<1>0. account' = account /\ attribution' = attribution /\ Export' = Export
  BY SameAccount
<1>a. Accounts' = Accounts /\ NoUpload' = NoUpload
  BY DEF Accounts, NoUpload, NoFile
<1>1. CASE Upload
  <2>1. upload' \in [at : {"original", "ledger", "analysis", "manifest"}, file : Export]
    BY <1>1 DEF Upload
  <2> QED  BY <1>0, <1>a, <1>1, <2>1 DEF Upload, CfdTypeOK
<1>2. CASE PersistOriginal
  <2>1. upload \in [at : {"original", "ledger", "analysis", "manifest"}, file : Export]
    BY <1>2, Underway DEF PersistOriginal
  <2> QED  BY <1>0, <1>a, <1>2, <2>1 DEF PersistOriginal, CfdTypeOK
<1>3. CASE WriteLedger \/ WriteAnalysis
  <2>1. upload \in [at : {"original", "ledger", "analysis", "manifest"}, file : Export]
    BY <1>3, Underway DEF WriteLedger, WriteAnalysis
  <2> QED  BY <1>0, <1>a, <1>3, <2>1 DEF WriteLedger, WriteAnalysis, CfdTypeOK, Candidate
<1>4. CASE WriteEntry \/ CutShort
  <2>1. upload \in [at : {"original", "ledger", "analysis", "manifest"}, file : Export]
    BY <1>4, Underway DEF WriteEntry, CutShort
  <2> QED  BY ZenonT(40), <1>0, <1>a, <1>4, <2>1 DEF WriteEntry, CutShort, CfdTypeOK, Candidate
<1>5. CASE UNCHANGED cfdVars
  BY <1>0, <1>a, <1>5 DEF cfdVars, CfdTypeOK
<1> QED  BY <1>1, <1>2, <1>3, <1>4, <1>5 DEF CfdNext

LEMMA CfdStep == CfdInv /\ [CfdNext]_cfdVars => CfdInv'
<1> SUFFICES ASSUME CfdInv, [CfdNext]_cfdVars PROVE ImportsHold' /\ UploadOK'
  BY CfdTypeStep DEF CfdInv
<1>0. Closes' = Closes
  BY SameAccount
<1> USE DEF CfdInv, ImportsHold, UploadOK
<1>1. CASE Upload
  BY <1>0, <1>1 DEF Upload, Accepted, Candidate, Conflict
<1>2. CASE PersistOriginal
  <2>1. upload' = [upload EXCEPT !.at = "ledger"] /\ upload'.at = "ledger" /\ upload'.file = upload.file
    BY <1>2, Underway DEF PersistOriginal
  <2> QED  BY <1>0, <1>2, <2>1 DEF PersistOriginal, Candidate, Conflict
<1>3. CASE WriteLedger
  <2>1. upload'.at = "analysis" /\ upload'.file = upload.file
    BY <1>3, Underway DEF WriteLedger
  <2> QED  BY <1>0, <1>3, <2>1 DEF WriteLedger, Candidate, Conflict
<1>4. CASE WriteAnalysis
  <2>1. upload'.at = "manifest" /\ upload'.file = upload.file
    BY <1>4, Underway DEF WriteAnalysis
  <2> QED  BY <1>0, <1>4, <2>1 DEF WriteAnalysis, Candidate, Conflict
<1>5. CASE WriteEntry
  BY <1>0, <1>5 DEF WriteEntry, Candidate, Conflict, NoUpload
<1>6. CASE CutShort
  BY <1>0, <1>6 DEF CutShort, Candidate, Conflict, NoUpload
<1>7. CASE UNCHANGED cfdVars
  BY <1>0, <1>7 DEF cfdVars, Candidate, Conflict
<1> QED  BY <1>1, <1>2, <1>3, <1>4, <1>5, <1>6, <1>7 DEF CfdNext

LEMMA InitialCfd == CfdInit => CfdInv
<1> SUFFICES ASSUME CfdInit PROVE CfdInv
  OBVIOUS
<1>1. account \in Accounts /\ attribution \in {"held", "spread"} /\ cut = FALSE /\ upload = NoUpload
  BY DEF CfdInit
<1>2. upload.at = "rest"
  BY <1>1 DEF NoUpload
<1>3. \A files \in {originals, entries, ledgerOf, analysisOf, answered} : files = {}
  BY DEF CfdInit
<1>4. CfdTypeOK
  BY <1>1, <1>3 DEF CfdTypeOK
<1>5. ~Conflict(entries)
  BY <1>3 DEF Conflict
<1>6. ImportsHold
  BY <1>3, <1>5 DEF ImportsHold
<1>7. UploadOK
  BY <1>2 DEF UploadOK
<1> QED  BY <1>4, <1>6, <1>7 DEF CfdInv

\* However many exports are uploaded of however long an account, what is stored, listed and
\* cached are exports of it.
THEOREM CfdTypeCorrect == CfdSpec => []CfdTypeOK
<1>1. CfdInit => CfdTypeOK
  BY InitialCfd DEF CfdInv
<1> QED  BY <1>1, CfdTypeStep, PTL DEF CfdSpec

\* Whatever is cut short between two files: what was answered is listed, what is listed is
\* stored, no two of them conflict, and the caches are those of the last upload that was not
\* cut short.
THEOREM ImportsAreKept == CfdSpec => []ImportsHold
<1>1. CfdInv => ImportsHold
  BY DEF CfdInv
<1> QED  BY InitialCfd, CfdStep, <1>1, PTL DEF CfdSpec
-----------------------------------------------------------------------------
\* Sums over finite sets.  They are folds, which are recursive functions on the subsets of a
\* set; that these exist, and what they give whatever member is taken first, follows from
\* an induction over the sizes of the sets, by the least size that there is no proof for.
\* A set of numbers has a least one.
LEMMA LeastElement ==
    ASSUME NEW S \in SUBSET Nat, S # {}
    PROVE  \E n \in S : \A m \in S : n <= m
<1> DEFINE R == {ss \in Nat \X Nat : ss[1] < ss[2]}
<1>1. IsWellFoundedOn(R, Nat)
  BY NatLessThanWellFounded, Zenon DEF OpToRel
<1>2. \A x, y \in Nat : x < y => <<x, y>> \in R
  OBVIOUS
<1> HIDE DEF R
<1>3. PICK n \in S : \A m \in S : <<m, n>> \notin R
  BY <1>1, WFMin
<1>4. ASSUME NEW m \in S PROVE n <= m
  <2>1. m \in Nat /\ n \in Nat /\ <<m, n>> \notin R
    BY <1>3
  <2>2. ~(m < n)
    BY <1>2, <2>1, Zenon
  <2> QED  BY <2>1, <2>2
<1> QED  BY <1>4

\* A set of numbers with 0, and with the successor of each of its members, has them all.
LEMMA AllNumbers ==
    ASSUME NEW T, 0 \in T, \A n \in Nat : n \in T => n + 1 \in T
    PROVE  Nat \subseteq T
<1> SUFFICES ASSUME Nat \ T # {} PROVE FALSE
  OBVIOUS
<1>1. PICK n \in Nat \ T : \A m \in Nat \ T : n <= m
  BY LeastElement
<1>2. n # 0 /\ n - 1 \in Nat /\ n - 1 \in T
  BY <1>1
<1> QED  BY <1>1, <1>2

-----------------------------------------------------------------------------
\* The function that SumFunctionOnSet is defined by, on the subsets of a finite set.
Pick(s) == CHOOSE x \in s : TRUE
Summed(fun, g, s) == IF s = {} THEN 0 ELSE fun[Pick(s)] + g[s \ {Pick(s)}]
SumsUp(g, fun, S) == \A s \in SUBSET S : g[s] = Summed(fun, g, s)
Sums(fun, S) == CHOOSE g : g = [s \in SUBSET S |-> Summed(fun, g, s)]

\* The fold is this function, once its operator arguments are put in.
LEMMA SumUnfolds == ASSUME NEW fun, NEW S PROVE SumFunctionOnSet(fun, S) = Sums(fun, S)[S]
BY DEF SumFunctionOnSet, FoldFunctionOnSet, MapThenFoldSet, Sums, Summed, Pick

LEMMA Picked ==
    ASSUME NEW s, s # {}
    PROVE  Pick(s) \in s
BY DEF Pick

\* Without one of its members a subset is a smaller one.
LEMMA Smaller ==
    ASSUME NEW S, IsFiniteSet(S), NEW s \in SUBSET S, NEW x \in s
    PROVE  /\ s \ {x} \in SUBSET S /\ IsFiniteSet(s) /\ Cardinality(s) \in Nat
           /\ Cardinality(s \ {x}) \in Nat /\ Cardinality(s) = Cardinality(s \ {x}) + 1
<1>1. IsFiniteSet(s)
  BY FS_Subset
<1>2. Cardinality(s) \in Nat /\ Cardinality(s \ {x}) = Cardinality(s) - 1 /\ IsFiniteSet(s \ {x})
  BY <1>1, FS_RemoveElement, FS_CardinalityType
<1>3. Cardinality(s \ {x}) \in Nat
  BY <1>2, FS_CardinalityType
<1> QED  BY <1>1, <1>2, <1>3

\* At most one function sums up, and one does.
LEMMA SumsAgree ==
    ASSUME NEW S, IsFiniteSet(S), NEW fun, NEW g, NEW h,
           SumsUp(g, fun, S), SumsUp(h, fun, S)
    PROVE  \A s \in SUBSET S : g[s] = h[s]
<1> DEFINE Upto(n) == \A s \in SUBSET S : Cardinality(s) <= n => g[s] = h[s]
           T == {n \in Nat : Upto(n)}
<1>1. Upto(0)
  <2>1. ASSUME NEW s \in SUBSET S, Cardinality(s) <= 0 PROVE g[s] = h[s]
    <3>1. IsFiniteSet(s) /\ Cardinality(s) \in Nat
      BY FS_Subset, FS_CardinalityType
    <3>2. s = {}
      BY <2>1, <3>1, FS_EmptySet
    <3> QED  BY <3>2 DEF Summed, SumsUp
  <2> QED  BY <2>1
<1>2. ASSUME NEW n \in Nat, Upto(n) PROVE Upto(n + 1)
  <2>1. ASSUME NEW s \in SUBSET S, Cardinality(s) <= n + 1, s # {} PROVE g[s] = h[s]
    <3>1. Pick(s) \in s
      BY <2>1, Picked
    <3>2. s \ {Pick(s)} \in SUBSET S /\ Cardinality(s \ {Pick(s)}) <= n
      BY <2>1, <3>1, Smaller
    <3>3. g[s \ {Pick(s)}] = h[s \ {Pick(s)}]
      BY <1>2, <3>2
    <3> QED  BY <3>3 DEF Summed, SumsUp
  <2>2. g[{}] = h[{}]
    BY DEF Summed, SumsUp
  <2> QED  BY <2>1, <2>2
<1>3. 0 \in T /\ \A n \in Nat : n \in T => n + 1 \in T
  <2> HIDE DEF Upto
  <2> QED  BY <1>1, <1>2
<1>4. Nat \subseteq T
  <2> HIDE DEF T
  <2> QED  BY <1>3, AllNumbers
<1>5. Upto(Cardinality(S))
  BY <1>4, FS_CardinalityType
<1> QED  BY <1>5, FS_Subset

LEMMA SumsExist ==
    ASSUME NEW S, IsFiniteSet(S), NEW fun, \A x \in S : fun[x] \in Int
    PROVE  /\ \A s \in SUBSET S : Sums(fun, S)[s] \in Int
           /\ \A s \in SUBSET S : Sums(fun, S)[s] = Summed(fun, Sums(fun, S), s)
<1> DEFINE Upto(n) == \E h \in [SUBSET S -> Int] : \A s \in SUBSET S : Cardinality(s) <= n => h[s] = Summed(fun, h, s)
           T == {n \in Nat : Upto(n)}
<1>1. Upto(0)
  <2> DEFINE h == [s \in SUBSET S |-> 0]
  <2>1. ASSUME NEW s \in SUBSET S, Cardinality(s) <= 0 PROVE s = {}
    <3>1. IsFiniteSet(s) /\ Cardinality(s) \in Nat
      BY FS_Subset, FS_CardinalityType
    <3> QED  BY <2>1, <3>1, FS_EmptySet
  <2>2. h \in [SUBSET S -> Int] /\ \A s \in SUBSET S : s = {} => h[s] = Summed(fun, h, s)
    BY DEF Summed
  <2> QED  BY <2>1, <2>2
<1>2. ASSUME NEW n \in Nat, Upto(n) PROVE Upto(n + 1)
  <2>1. PICK h \in [SUBSET S -> Int] : \A s \in SUBSET S : Cardinality(s) <= n => h[s] = Summed(fun, h, s)
    BY <1>2
  <2> DEFINE f == [s \in SUBSET S |-> Summed(fun, h, s)]
  <2>2. \A s \in SUBSET S : s # {} => Pick(s) \in S /\ s \ {Pick(s)} \in SUBSET S
    BY Picked
  <2>3. \A s \in SUBSET S : Summed(fun, h, s) \in Int
    BY <2>2 DEF Summed
  <2>4. f \in [SUBSET S -> Int]
    BY <2>3
  <2>5. ASSUME NEW s \in SUBSET S, Cardinality(s) <= n + 1 PROVE f[s] = Summed(fun, f, s)
    <3>1. CASE s = {}
      BY <3>1 DEF Summed
    <3>2. CASE s # {}
      <4>1. Pick(s) \in s
        BY <3>2, Picked
      <4>2. s \ {Pick(s)} \in SUBSET S /\ Cardinality(s \ {Pick(s)}) <= n
        BY <2>5, <4>1, Smaller
      <4>3. f[s \ {Pick(s)}] = h[s \ {Pick(s)}]
        BY <2>1, <4>2
      <4>4. Summed(fun, f, s) = Summed(fun, h, s)
        BY <4>3 DEF Summed
      <4> QED  BY <4>4
    <3> QED  BY <3>1, <3>2
  <2> HIDE DEF f
  <2> QED  BY <2>4, <2>5
<1>a. 0 \in T /\ \A n \in Nat : n \in T => n + 1 \in T
  <2> HIDE DEF Upto
  <2> QED  BY <1>1, <1>2
<1>b. Nat \subseteq T
  <2> HIDE DEF T
  <2> QED  BY <1>a, AllNumbers
<1>3. Upto(Cardinality(S))
  BY <1>b, FS_CardinalityType
<1>4. PICK h \in [SUBSET S -> Int] : \A s \in SUBSET S : Cardinality(s) <= Cardinality(S) => h[s] = Summed(fun, h, s)
  BY <1>3
<1>5. \A s \in SUBSET S : h[s] = Summed(fun, h, s)
  BY <1>4, FS_Subset
<1>6. h = [s \in SUBSET S |-> Summed(fun, h, s)]
  BY <1>5
<1>7. Sums(fun, S) = [s \in SUBSET S |-> Summed(fun, Sums(fun, S), s)]
  BY <1>6, Zenon DEF Sums
<1>8. \A s \in SUBSET S : Sums(fun, S)[s] = Summed(fun, Sums(fun, S), s)
  BY <1>7
<1>9. \A s \in SUBSET S : Sums(fun, S)[s] = h[s]
  <2> DEFINE G == Sums(fun, S)
  <2>1. SumsUp(G, fun, S) /\ SumsUp(h, fun, S)
    BY <1>5, <1>8 DEF SumsUp
  <2> HIDE DEF G
  <2>2. \A s \in SUBSET S : G[s] = h[s]
    BY <2>1, SumsAgree
  <2> QED  BY <2>2 DEF G
<1>10. \A s \in SUBSET S : Sums(fun, S)[s] \in Int
  BY <1>9
<1> QED  BY <1>8, <1>10

\* The laws of a sum: of nothing, and of one more.
LEMMA SumLaws ==
    ASSUME NEW S, IsFiniteSet(S), NEW fun, \A x \in S : fun[x] \in Int
    PROVE  /\ SumFunctionOnSet(fun, {}) = 0
           /\ \A s \in SUBSET S : SumFunctionOnSet(fun, s) \in Int
           /\ \A s \in SUBSET S : \A x \in s :
                 SumFunctionOnSet(fun, s) = fun[x] + SumFunctionOnSet(fun, s \ {x})
<1> DEFINE G == Sums(fun, S)
<1>1. /\ \A s \in SUBSET S : G[s] \in Int
      /\ \A s \in SUBSET S : G[s] = Summed(fun, G, s)
  BY SumsExist
<1>2. ASSUME NEW s \in SUBSET S PROVE SumFunctionOnSet(fun, s) = G[s]
  <2> DEFINE H == Sums(fun, s)
  <2>1. IsFiniteSet(s) /\ \A x \in s : fun[x] \in Int
    BY FS_Subset
  <2>2. \A t \in SUBSET s : H[t] = Summed(fun, H, t)
    BY <2>1, SumsExist
  <2>3. SumsUp(H, fun, s) /\ SumsUp(G, fun, s)
    BY <1>1, <2>2 DEF SumsUp
  <2> HIDE DEF G, H
  <2>4. H[s] = G[s]
    BY <2>1, <2>3, SumsAgree
  <2> QED  BY <2>4, SumUnfolds DEF H
<1> HIDE DEF G
<1> DEFINE Upto(n) == \A s \in SUBSET S : Cardinality(s) <= n => \A x \in s : G[s] = fun[x] + G[s \ {x}]
           T == {n \in Nat : Upto(n)}
<1>3. Upto(0)
  <2>1. ASSUME NEW s \in SUBSET S, Cardinality(s) <= 0 PROVE s = {}
    <3>1. IsFiniteSet(s) /\ Cardinality(s) \in Nat
      BY FS_Subset, FS_CardinalityType
    <3> QED  BY <2>1, <3>1, FS_EmptySet
  <2> QED  BY <2>1
<1>4. ASSUME NEW n \in Nat, Upto(n) PROVE Upto(n + 1)
  <2>1. ASSUME NEW s \in SUBSET S, Cardinality(s) <= n + 1, NEW x \in s PROVE G[s] = fun[x] + G[s \ {x}]
    <3> DEFINE p == Pick(s)
    <3>1. p \in s /\ G[s] = fun[p] + G[s \ {p}]
      BY <1>1, Picked DEF Summed
    <3> HIDE DEF p
    <3>2. CASE p = x
      BY <3>1, <3>2
    <3>3. CASE p # x
      <4>1. /\ s \ {p} \in SUBSET S /\ Cardinality(s \ {p}) <= n /\ x \in s \ {p}
            /\ s \ {x} \in SUBSET S /\ Cardinality(s \ {x}) <= n /\ p \in s \ {x}
        BY <2>1, <3>1, <3>3, Smaller
      <4>2. G[s \ {p}] = fun[x] + G[(s \ {p}) \ {x}] /\ G[s \ {x}] = fun[p] + G[(s \ {x}) \ {p}]
        BY <1>4, <4>1
      <4>3. (s \ {p}) \ {x} = (s \ {x}) \ {p} /\ (s \ {p}) \ {x} \in SUBSET S
        OBVIOUS
      <4>4. fun[x] \in Int /\ fun[p] \in Int /\ G[(s \ {p}) \ {x}] \in Int
        BY <1>1, <3>1, <4>3
      <4> DEFINE r == (s \ {p}) \ {x}
      <4>5. G[s \ {p}] = fun[x] + G[r] /\ G[s \ {x}] = fun[p] + G[r] /\ G[s] = fun[p] + G[s \ {p}]
        BY <3>1, <4>2, <4>3, Zenon
      <4>6. G[r] \in Int
        BY <4>4
      <4> HIDE DEF r
      <4> QED  BY <4>4, <4>5, <4>6
    <3> QED  BY <3>2, <3>3
  <2> QED  BY <2>1
<1>5. 0 \in T /\ \A n \in Nat : n \in T => n + 1 \in T
  <2> HIDE DEF Upto
  <2> QED  BY <1>3, <1>4
<1>6. Nat \subseteq T
  <2> HIDE DEF T
  <2> QED  BY <1>5, AllNumbers
<1>7. Upto(Cardinality(S))
  BY <1>6, FS_CardinalityType
<1>8. \A s \in SUBSET S : \A x \in s : G[s] = fun[x] + G[s \ {x}]
  BY <1>7, FS_Subset
<1>9. G[{}] = 0
  BY <1>1 DEF Summed
<1> QED
  BY <1>1, <1>2, <1>8, <1>9

\* Every finite set is reached by adding its members one by one.
LEMMA OneByOne ==
    ASSUME NEW S, IsFiniteSet(S), NEW T, {} \in T,
           \A s \in SUBSET S : \A x \in s : s \ {x} \in T => s \in T
    PROVE  SUBSET S \subseteq T
<1> DEFINE Upto(n) == \A s \in SUBSET S : Cardinality(s) <= n => s \in T
           N == {n \in Nat : Upto(n)}
<1>1. Upto(0)
  <2>1. ASSUME NEW s \in SUBSET S, Cardinality(s) <= 0 PROVE s = {}
    <3>1. IsFiniteSet(s) /\ Cardinality(s) \in Nat
      BY FS_Subset, FS_CardinalityType
    <3> QED  BY <2>1, <3>1, FS_EmptySet
  <2> QED  BY <2>1
<1>2. ASSUME NEW n \in Nat, Upto(n) PROVE Upto(n + 1)
  <2>1. ASSUME NEW s \in SUBSET S, Cardinality(s) <= n + 1, NEW x \in s PROVE s \in T
    <3>1. s \ {x} \in SUBSET S /\ Cardinality(s \ {x}) <= n
      BY <2>1, Smaller
    <3> QED  BY <1>2, <3>1
  <2> QED  BY <2>1
<1>3. 0 \in N /\ \A n \in Nat : n \in N => n + 1 \in N
  <2> HIDE DEF Upto
  <2> QED  BY <1>1, <1>2
<1>4. Nat \subseteq N
  <2> HIDE DEF N
  <2> QED  BY <1>3, AllNumbers
<1>5. ASSUME NEW s \in SUBSET S PROVE s \in T
  <2>1. Cardinality(s) \in Nat
    BY FS_Subset, FS_CardinalityType
  <2> QED  BY <1>4, <2>1
<1> QED  BY <1>5

\* The sum over two sets without a common member is that of the two sums.
LEMMA SumSplit ==
    ASSUME NEW S, IsFiniteSet(S), NEW fun, \A x \in S : fun[x] \in Int,
           NEW A \in SUBSET S, NEW B \in SUBSET S, A \cap B = {}
    PROVE  SumFunctionOnSet(fun, A \cup B) = SumFunctionOnSet(fun, A) + SumFunctionOnSet(fun, B)
<1> DEFINE T == {s \in SUBSET A : SumFunctionOnSet(fun, s \cup B) = SumFunctionOnSet(fun, s) + SumFunctionOnSet(fun, B)}
<1>1. {} \in T
  <2>1. {} \cup B = B /\ SumFunctionOnSet(fun, {}) = 0 /\ SumFunctionOnSet(fun, B) \in Int
    BY SumLaws
  <2> QED  BY <2>1
<1>2. ASSUME NEW s \in SUBSET A, NEW x \in s, s \ {x} \in T PROVE s \in T
  <2>1. (s \cup B) \ {x} = (s \ {x}) \cup B /\ s \cup B \in SUBSET S /\ s \in SUBSET S /\ x \in s \cup B /\ s \ {x} \in SUBSET S
    OBVIOUS
  <2>2. /\ SumFunctionOnSet(fun, s \cup B) = fun[x] + SumFunctionOnSet(fun, (s \cup B) \ {x})
        /\ SumFunctionOnSet(fun, s) = fun[x] + SumFunctionOnSet(fun, s \ {x})
        /\ fun[x] \in Int /\ SumFunctionOnSet(fun, s \ {x}) \in Int /\ SumFunctionOnSet(fun, B) \in Int
    BY <2>1, SumLaws
  <2>3. SumFunctionOnSet(fun, (s \cup B) \ {x}) = SumFunctionOnSet(fun, s \ {x}) + SumFunctionOnSet(fun, B)
    BY <1>2, <2>1
  <2> QED  BY <2>2, <2>3
<1>3. IsFiniteSet(A)
  BY FS_Subset
<1>4. SUBSET A \subseteq T
  <2> HIDE DEF T
  <2> QED  BY <1>1, <1>2, <1>3, OneByOne
<1> QED  BY <1>4

\* Greater summands, a greater sum; the same, the same; natural numbers, a natural number.
LEMMA SumBound ==
    ASSUME NEW S, IsFiniteSet(S), NEW f, NEW g, \A x \in S : f[x] \in Int /\ g[x] \in Int /\ f[x] <= g[x]
    PROVE  SumFunctionOnSet(f, S) <= SumFunctionOnSet(g, S)
<1> DEFINE T == {s \in SUBSET S : SumFunctionOnSet(f, s) <= SumFunctionOnSet(g, s)}
<1>1. {} \in T
  BY SumLaws
<1>2. ASSUME NEW s \in SUBSET S, NEW x \in s, s \ {x} \in T PROVE s \in T
  <2>1. /\ SumFunctionOnSet(f, s) = f[x] + SumFunctionOnSet(f, s \ {x})
        /\ f[x] \in Int /\ SumFunctionOnSet(f, s \ {x}) \in Int
    BY SumLaws
  <2>2. /\ SumFunctionOnSet(g, s) = g[x] + SumFunctionOnSet(g, s \ {x})
        /\ g[x] \in Int /\ SumFunctionOnSet(g, s \ {x}) \in Int /\ f[x] <= g[x]
    BY SumLaws
  <2> QED  BY <1>2, <2>1, <2>2
<1>4. SUBSET S \subseteq T
  <2> HIDE DEF T
  <2> QED  BY <1>1, <1>2, OneByOne
<1> QED  BY <1>4

LEMMA SumSame ==
    ASSUME NEW S, IsFiniteSet(S), NEW f, NEW g, \A x \in S : f[x] \in Int /\ g[x] = f[x]
    PROVE  SumFunctionOnSet(f, S) = SumFunctionOnSet(g, S)
<1>1. /\ SumFunctionOnSet(f, S) <= SumFunctionOnSet(g, S)
      /\ SumFunctionOnSet(g, S) <= SumFunctionOnSet(f, S)
  BY SumBound
<1>2. SumFunctionOnSet(f, S) \in Int /\ SumFunctionOnSet(g, S) \in Int
  BY SumLaws
<1> QED  BY <1>1, <1>2

LEMMA SumNat ==
    ASSUME NEW S, IsFiniteSet(S), NEW fun, \A x \in S : fun[x] \in Nat
    PROVE  /\ SumFunctionOnSet(fun, S) \in Nat
           /\ (\A x \in S : fun[x] = 0) => SumFunctionOnSet(fun, S) = 0
<1> DEFINE T == {s \in SUBSET S : /\ SumFunctionOnSet(fun, s) \in Nat
                                  /\ (\A x \in S : fun[x] = 0) => SumFunctionOnSet(fun, s) = 0}
<1>1. {} \in T
  BY SumLaws
<1>2. ASSUME NEW s \in SUBSET S, NEW x \in s, s \ {x} \in T PROVE s \in T
  <2>1. SumFunctionOnSet(fun, s) = fun[x] + SumFunctionOnSet(fun, s \ {x}) /\ fun[x] \in Nat
    BY SumLaws
  <2> QED  BY <1>2, <2>1
<1>3. SUBSET S \subseteq T
  <2> HIDE DEF T
  <2> QED  BY <1>1, <1>2, OneByOne
<1> QED  BY <1>3
-----------------------------------------------------------------------------
\* A quotient by a greater number is not greater.
LEMMA Divided ==
    ASSUME NEW a \in Nat, NEW n \in Nat \ {0}, NEW m \in Nat, n <= m
    PROVE  a \div m \in Nat /\ a \div n \in Nat /\ a \div m <= a \div n
<1> DEFINE q == a \div m
           p == a \div n
<1>1. q \in Int /\ p \in Int /\ m * q <= a /\ a < n * (p + 1) /\ a < m * (q + 1) /\ n * p <= a
  BY SMTT(30)
<1> HIDE DEF q, p
<1>2. q >= 0
  <2> SUFFICES ASSUME q + 1 <= 0 PROVE FALSE
    BY <1>1
  <2>1. m * (q + 1) <= 0
    BY <1>1
  <2> QED  BY <1>1, <2>1
<1>3. n * q <= m * q
  BY <1>1, <1>2
<1>4. q <= p
  <2> SUFFICES ASSUME p + 1 <= q PROVE FALSE
    BY <1>1
  <2>1. n * (p + 1) <= n * q
    BY <1>1
  <2>2. n * (p + 1) \in Int /\ n * q \in Int /\ m * q \in Int
    BY <1>1
  <2> QED  BY <1>1, <1>3, <2>1, <2>2
<1> QED  BY <1>1, <1>2, <1>4 DEF q, p

\* The rows of the account.
LEMMA AccountRows ==
    ASSUME CfdTypeOK
    PROVE  /\ Row \in SUBSET Nat /\ IsFiniteSet(Row) /\ DOMAIN account = Row /\ account \in [Row -> Entry]
           /\ \A i \in Row : account[i].units \in Nat
           /\ Opens \in SUBSET Row /\ Closes \in SUBSET Row /\ Nights \in SUBSET Row /\ Costs \in SUBSET Row
           /\ \A i \in Nights, c \in Closes : c # i
<1>1. Row \in SUBSET Nat /\ IsFiniteSet(Row)
  BY CfdAssumption, FS_Interval DEF Row
<1>2. account \in [Row -> Entry]
  BY DEF CfdTypeOK, Accounts
<1>3. \A i \in Row : account[i].units \in Nat
  BY <1>2 DEF Entry
<1>4. Opens \in SUBSET Row /\ Closes \in SUBSET Row /\ Nights \in SUBSET Row /\ Costs \in SUBSET Row
  BY <1>2 DEF Opens, Closes, Nights, Costs, Kind
<1>5. \A i \in Nights, c \in Closes : c # i
  BY DEF Nights, Closes, Kind
<1> QED  BY <1>1, <1>2, <1>3, <1>4, <1>5

\* More rows have no fewer units.
LEMMA UnitsGrow ==
    ASSUME CfdTypeOK, NEW more \in SUBSET Row, NEW rows \in SUBSET more
    PROVE  Units(rows, account) \in Nat /\ Units(more, account) \in Nat /\ Units(rows, account) <= Units(more, account)
<1> DEFINE f == [i \in DOMAIN account |-> account[i].units]
<1>1. IsFiniteSet(Row) /\ \A i \in Row : f[i] \in Nat
  BY AccountRows
<1> HIDE DEF f
<1>2. SumFunctionOnSet(f, rows \cup (more \ rows)) = SumFunctionOnSet(f, rows) + SumFunctionOnSet(f, more \ rows)
  <2>1. rows \in SUBSET Row /\ more \ rows \in SUBSET Row /\ rows \cap (more \ rows) = {} /\ \A x \in Row : f[x] \in Int
    BY <1>1
  <2> QED  BY <1>1, <2>1, SumSplit
<1>3. \A s \in SUBSET Row : SumFunctionOnSet(f, s) \in Nat
  <2> TAKE s \in SUBSET Row
  <2>1. IsFiniteSet(s) /\ \A x \in s : f[x] \in Nat
    BY <1>1, FS_Subset
  <2> QED  BY <2>1, SumNat
<1>4. rows \cup (more \ rows) = more
  OBVIOUS
<1>5. /\ SumFunctionOnSet(f, more) = SumFunctionOnSet(f, rows) + SumFunctionOnSet(f, more \ rows)
      /\ SumFunctionOnSet(f, more \ rows) \in Nat /\ SumFunctionOnSet(f, rows) \in Nat
      /\ SumFunctionOnSet(f, more) \in Nat
  <2>1. rows \in SUBSET Row
    OBVIOUS
  <2> QED  BY <1>2, <1>3, <1>4, <2>1
<1> QED  BY <1>5 DEF Units, f

\* Some units are held when a charge is made, and so what a close bears of it is a number.
LEMMA SomeHeld ==
    ASSUME CfdTypeOK, NEW cost \in Nights
    PROVE  /\ HeldAt(cost) \in Nat \ {0}
           /\ Units(Opens, account) - Units(Before(Closes, cost), account) \in Nat \ {0}
           /\ HeldAt(cost) = Units(Before(Opens, cost), account) - Units(Before(Closes, cost), account)
<1>1. HeldAt(cost) = Units(Before(Opens, cost), account) - Units(Before(Closes, cost), account)
  BY DEF HeldAt, StillOpen, Opens, Closes
<1>2. HeldAt(cost) >= 1
  <2>1. account \in Accounts /\ cost \in Row /\ account[cost].kind = "night"
    BY AccountRows DEF CfdTypeOK, Nights, Kind
  <2>2. cost # 1
    BY <2>1 DEF Accounts
  <2> QED  BY <2>1, <2>2 DEF Accounts, HeldAt
<1>3. Before(Closes, cost) \in SUBSET Row /\ Opens \in SUBSET Row /\ Before(Opens, cost) \in SUBSET Opens
  BY AccountRows DEF Before
<1>4. /\ Units(Opens, account) \in Nat /\ Units(Before(Opens, cost), account) \in Nat
      /\ Units(Before(Opens, cost), account) <= Units(Opens, account)
      /\ Units(Before(Closes, cost), account) \in Nat
  BY <1>3, UnitsGrow
<1> QED  BY <1>1, <1>2, <1>4

LEMMA BorneNat ==
    ASSUME CfdTypeOK, NEW close \in Closes, NEW cost \in Costs
    PROVE  Borne(close, cost) \in Nat
<1>1. account[close].units \in Nat /\ Charge \in Nat
  BY AccountRows, CfdAssumption
<1>2. Charge * account[close].units \in Nat
  BY <1>1
<1>3. CASE cost \in Nights
  <2>1. HeldAt(cost) \in Nat \ {0}
    BY <1>3, SomeHeld
  <2> DEFINE between == Units({c \in Closes : cost < c /\ c < close}, account)
             all == Units(Opens, account) - Units(Before(Closes, cost), account)
  <2>2. between \in Nat
    <3>1. {c \in Closes : cost < c /\ c < close} \in SUBSET Row
      BY AccountRows
    <3> QED  BY <3>1, UnitsGrow
  <2>3. all \in Nat \ {0}
    BY <1>3, SomeHeld
  <2> HIDE DEF between, all
  <2>4. OfHeld(close, cost) \in Nat
    <3>1. OfHeld(close, cost) = Max({0, Min({account[close].units, HeldAt(cost) - between})})
      BY DEF OfHeld, between
    <3> DEFINE least == Min({account[close].units, HeldAt(cost) - between})
    <3>2. least \in Int
      BY <1>1, <2>1, <2>2, LeastOfTwo
    <3> HIDE DEF least
    <3>3. Max({0, least}) = IF 0 >= least THEN 0 ELSE least
      BY <3>2, GreatestOfTwo
    <3> QED  BY <3>1, <3>2, <3>3 DEF least
  <2>5. Charge * OfHeld(close, cost) \in Nat
    BY <1>1, <2>4
  <2>6. (Charge * OfHeld(close, cost)) \div HeldAt(cost) \in Nat
    BY <2>1, <2>5, Divided
  <2>7. (Charge * account[close].units) \div all \in Nat
    BY <1>2, <2>3, Divided
  <2> QED  BY <1>3, <2>6, <2>7 DEF Borne, all
<1> QED  BY <1>1, <1>3 DEF Borne

\* What a close is given of a cost is never more than it bore, if the orders are known and it
\* bore what the units held then bear; it is given nothing of a cost that has no row of
\* this position.
LEMMA ShareOfBorne ==
    ASSUME CfdTypeOK, NEW R \in SUBSET Row, Opens \subseteq R, NEW close \in Closes \cap R, NEW cost \in Costs \cap R,
           cost \in Nights /\ cost < close => Borne(close, cost) = (Charge * account[close].units) \div HeldAt(cost)
    PROVE  /\ Share(close, cost, R) \in Nat /\ Share(close, cost, R) <= Borne(close, cost)
           /\ close \notin Candidates(cost, R) => Borne(close, cost) = 0
<1>1. account[close].units \in Nat /\ Charge \in Nat /\ close \in Nat /\ cost \in Nat
  BY AccountRows, CfdAssumption
<1>2. Charge * account[close].units \in Nat
  BY <1>1
<1>3. Borne(close, cost) \in Nat
  BY BorneNat
<1>4. CASE cost \in Nights
  <2>1. HeldAt(cost) \in Nat \ {0}
    BY <1>4, SomeHeld
  <2>2. close \in Candidates(cost, R) <=> cost < close
    BY <1>4 DEF Candidates
  <2>3. close \notin Candidates(cost, R) => Borne(close, cost) = 0
    <3>1. close # cost
      BY <1>4, AccountRows
    <3> QED  BY <1>1, <1>4, <2>2, <3>1 DEF Borne
  <2>4. /\ Before(Closes, cost) \in SUBSET Row /\ Before(Closes \cap R, cost) \in SUBSET Before(Closes, cost)
        /\ Candidates(cost, R) \in SUBSET Row /\ Before(Opens, cost) \in SUBSET Row
        /\ Before(Opens \cap R, cost) = Before(Opens, cost)
    BY AccountRows DEF Before, Candidates
  <2> DEFINE a == Units(Candidates(cost, R), account)
             b == Units(Before(Opens, cost), account) - Units(Before(Closes \cap R, cost), account)
  <2>5. a \in Nat /\ b \in Int /\ HeldAt(cost) <= b
    <3>1. a \in Nat /\ Units(Before(Opens, cost), account) \in Nat
      BY <2>4, UnitsGrow
    <3>2. /\ Units(Before(Closes \cap R, cost), account) \in Nat /\ Units(Before(Closes, cost), account) \in Nat
          /\ Units(Before(Closes \cap R, cost), account) <= Units(Before(Closes, cost), account)
      BY <2>4, UnitsGrow
    <3>3. HeldAt(cost) = Units(Before(Opens, cost), account) - Units(Before(Closes, cost), account)
      BY <1>4, SomeHeld
    <3> QED  BY <3>1, <3>2, <3>3
  <2>6. Holding(cost, R) = Max({a, b})
    BY <2>4 DEF Holding
  <2> HIDE DEF a, b
  <2>7. Holding(cost, R) \in Nat /\ HeldAt(cost) <= Holding(cost, R)
    BY <2>1, <2>5, <2>6, GreatestOfTwo
  <2>8. /\ (Charge * account[close].units) \div Holding(cost, R) \in Nat
        /\ (Charge * account[close].units) \div Holding(cost, R) <= (Charge * account[close].units) \div HeldAt(cost)
    BY <1>2, <2>1, <2>7, Divided
  <2> QED  BY <1>3, <1>4, <2>2, <2>3, <2>8 DEF Share
<1>5. CASE cost \notin Nights
  BY <1>1, <1>5 DEF Share, Borne, Candidates
<1> QED  BY <1>4, <1>5

\* The costs without a row that a close bore are what the analysis adds for it.
LEMMA FallbackIsMissing ==
    ASSUME CfdTypeOK, NEW files, Rows(files) \in SUBSET Row, Opens \subseteq Rows(files),
           BorneByHeld(files), Reconciled(files), NEW close \in Closes \cap Rows(files)
    PROVE  /\ Fallback(close, files) \in Int
           /\ (IF Stated(close, files) = 0 THEN 0
               ELSE SumFunction([cost \in Costs \ Rows(files) |-> Borne(close, cost)])) = Fallback(close, files)
<1> DEFINE R == Rows(files)
           f == [cost \in Costs |-> Borne(close, cost)]
           g == [cost \in Costs \cap R |-> Share(close, cost, R)]
           h == [cost \in Costs \ R |-> Borne(close, cost)]
<1>0. ASSUME NEW x \in Costs \cap R
      PROVE  /\ Share(close, x, R) \in Nat /\ Share(close, x, R) <= Borne(close, x)
             /\ close \notin Candidates(x, R) => Borne(close, x) = 0
  <2>1. x \in Nights /\ x < close => Borne(close, x) = (Charge * account[close].units) \div HeldAt(x)
    BY DEF BorneByHeld
  <2> QED  BY <2>1, ShareOfBorne
<1>1. IsFiniteSet(Costs) /\ IsFiniteSet(Costs \cap R) /\ IsFiniteSet(Costs \ R)
  BY AccountRows, FS_Subset
<1>2. /\ \A x \in Costs : f[x] \in Nat
      /\ \A x \in Costs \cap R : g[x] \in Nat /\ g[x] <= f[x]
      /\ \A x \in Costs \ R : h[x] = f[x]
  BY <1>0, BorneNat
<1>3. BorneInAll(close) = SumFunctionOnSet(f, Costs)
  BY DEF BorneInAll, SumFunction
<1>4. Allocated(close, R) = SumFunctionOnSet(g, Costs \cap R)
  BY DEF Allocated, SumFunction
<1>5. SumFunction([cost \in Costs \ R |-> Borne(close, cost)]) = SumFunctionOnSet(h, Costs \ R)
  BY DEF SumFunction
<1>6. Linked(close, R) = {} => \A x \in Costs \cap R : f[x] = 0
  BY <1>0 DEF Linked
<1> HIDE DEF f, g, h
<1>7. SumFunctionOnSet(f, Costs) = SumFunctionOnSet(f, Costs \cap R) + SumFunctionOnSet(f, Costs \ R)
  <2>1. /\ Costs \cap R \in SUBSET Costs /\ Costs \ R \in SUBSET Costs /\ (Costs \cap R) \cap (Costs \ R) = {}
        /\ (Costs \cap R) \cup (Costs \ R) = Costs /\ \A x \in Costs : f[x] \in Int
    BY <1>2
  <2> HIDE DEF R
  <2>2. SumFunctionOnSet(f, (Costs \cap R) \cup (Costs \ R)) = SumFunctionOnSet(f, Costs \cap R) + SumFunctionOnSet(f, Costs \ R)
    BY <1>1, <2>1, SumSplit
  <2> QED  BY <2>1, <2>2
<1>8. /\ SumFunctionOnSet(f, Costs \cap R) \in Nat /\ SumFunctionOnSet(f, Costs \ R) \in Nat
      /\ Linked(close, R) = {} => SumFunctionOnSet(f, Costs \cap R) = 0
  <2>1. (\A x \in Costs \cap R : f[x] \in Nat) /\ (\A x \in Costs \ R : f[x] \in Nat)
    BY <1>2
  <2> HIDE DEF R
  <2> QED  BY <1>1, <1>6, <2>1, SumNat
<1>9. SumFunctionOnSet(h, Costs \ R) = SumFunctionOnSet(f, Costs \ R)
  <2>1. \A x \in Costs \ R : f[x] \in Int /\ h[x] = f[x]
    BY <1>2
  <2> HIDE DEF R
  <2> QED  BY <1>1, <2>1, SumSame
<1>10. SumFunctionOnSet(g, Costs \cap R) <= SumFunctionOnSet(f, Costs \cap R) /\ SumFunctionOnSet(g, Costs \cap R) \in Nat
  <2>1. \A x \in Costs \cap R : g[x] \in Int /\ f[x] \in Int /\ g[x] <= f[x] /\ g[x] \in Nat
    BY <1>2
  <2> HIDE DEF R
  <2> QED  BY <1>1, <2>1, SumBound, SumNat
<1>11. Stated(close, files) = 0 \/ Stated(close, files) = BorneInAll(close)
  BY DEF Stated
<1>12. Linked(close, R) # {} /\ Stated(close, files) # 0 => Allocated(close, R) = Stated(close, files)
  BY DEF Reconciled, Unresolved
<1>13. Fallback(close, files) = IF Linked(close, R) = {} THEN Stated(close, files) ELSE 0
  BY DEF Fallback
<1> DEFINE sum == SumFunctionOnSet(h, Costs \ R)
<1>14. /\ sum \in Nat /\ Fallback(close, files) \in Int
       /\ (IF Stated(close, files) = 0 THEN 0 ELSE sum) = Fallback(close, files)
  <2> HIDE DEF R
  <2> QED  BY <1>3, <1>4, <1>7, <1>8, <1>9, <1>10, <1>11, <1>12, <1>13
<1> QED  BY <1>5, <1>14

\* Whatever files are listed.
LEMMA CostsOnce == CfdTypeOK => EachCostOnce
<1> SUFFICES ASSUME CfdTypeOK, Opens \subseteq Rows(entries), BorneByHeld(entries), Reconciled(entries)
             PROVE  TotalCost(entries) = Proved(entries)
  BY DEF EachCostOnce
<1> DEFINE C == Closes \cap Rows(entries)
           f == [close \in C |-> Fallback(close, entries)]
           g == [close \in C |-> IF Stated(close, entries) = 0 THEN 0
                                 ELSE SumFunction([cost \in Costs \ Rows(entries) |-> Borne(close, cost)])]
<1>1. Rows(entries) \in SUBSET Row
  <2>1. entries \subseteq Export
    BY DEF CfdTypeOK
  <2>2. ASSUME NEW first \in Row, NEW last \in Row PROVE first..last \subseteq Row
    BY CfdAssumption DEF Row
  <2>3. ASSUME NEW file \in entries PROVE file.rows \subseteq Row
    <3>1. file.rows \in {first..last : first \in Row, last \in Row}
      BY <2>1 DEF Export, Exports
    <3>2. PICK first \in Row, last \in Row : file.rows = first..last
      BY <3>1
    <3> QED  BY <2>2, <3>2
  <2> QED  BY <2>3 DEF Rows
<1>2. IsFiniteSet(C)
  BY AccountRows, FS_Subset
<1>3. \A x \in C : f[x] \in Int /\ g[x] = f[x]
  BY <1>1, FallbackIsMissing
<1>4. TotalCost(entries) = Charge * Cardinality(Costs \cap Rows(entries)) + SumFunctionOnSet(f, C)
  BY DEF TotalCost, SumFunction
<1>5. Proved(entries) = Charge * Cardinality(Costs \cap Rows(entries)) + SumFunctionOnSet(g, C)
  BY DEF Proved, SumFunction
<1> HIDE DEF C, f, g
<1>6. SumFunctionOnSet(f, C) = SumFunctionOnSet(g, C)
  BY <1>2, <1>3, SumSame
<1> QED  BY <1>4, <1>5, <1>6

\* However long the account, whichever orders enlarge its position and whenever, and whichever
\* exports of it are uploaded in whichever order: if its orders are in the exports that are
\* listed, the closes state of the charges listed what the units held then bear, and the result
\* is not unknown, its costs are those that the exports prove, each counted once.
THEOREM CostsCountOnce == CfdSpec => []EachCostOnce
BY CfdTypeCorrect, CostsOnce, PTL
=================================================================================
