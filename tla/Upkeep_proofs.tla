---------------------------- MODULE Upkeep_proofs ----------------------------
(*****************************************************************************)
(* What runs by the clock, the alert monitor and the background backup: for  *)
(* any instruments, snapshots and watchers, and for any checkpoints and      *)
(* days.                                                                     *)
(*****************************************************************************)
EXTENDS AlertMonitor, BackgroundBackup, WellFoundedInduction, TLAPS

------------------------------------------------------------------------------
(*****************************************************************************)
(* The monitor.  A state is of one snapshot because of what a run has        *)
(* cleared before it asks for prices, and copies before it scores (CopyOK).  *)
(*****************************************************************************)
USE MonitorAssumption

\* Whatever a state or copy shows was obtained for the snapshot it names.
SeenFor(state) == \A o \in state.quotes \cup state.alerts : o[2] = state.run

\* What a run works on, and what it has cleared before it asks for prices.
CopyOK(v) ==
    /\ SeenFor(v.copy)
    /\ v.at \in {"download", "score"} => v.snap \in 1..MonitorSnapshots
    /\ v.at = "download" => v.copy.run = v.snap \/ v.copy.quotes \cup v.copy.alerts = {}
    /\ v.at = "score" => v.copy.run = v.snap
MonitorInv == MonitorTypeOK /\ SeenFor(monitor) /\ \A w \in Watcher : CopyOK(visit[w])

VisitState == [at : {"rest", "check", "download", "score", "ended"}, open : BOOLEAN, copy : MonitorState,
               snap : 0..MonitorSnapshots, items : SUBSET Instrument, asked : SUBSET Instrument]

LEMMA NewStateTypes == NewState \in MonitorState
BY DEF NewState, MonitorState

LEMMA SavedAndRested ==
    ASSUME MonitorInv, NEW w \in Watcher, NEW copy \in MonitorState, SeenFor(copy),
           SaveAndRest(w, copy), UNCHANGED <<newest, watching>>, outages' \in 0..MaxOutages
    PROVE  MonitorInv'
<1>1. SeenFor(NewState)
  BY DEF SeenFor, NewState
<1>2. CopyOK(NoVisit)
  BY <1>1 DEF CopyOK, NoVisit
<1>3. \A v \in Watcher : visit'[v] = IF v = w THEN NoVisit ELSE visit[v]
  BY DEF SaveAndRest, MonitorInv, MonitorTypeOK
<1>4. MonitorTypeOK'
  BY NewStateTypes DEF SaveAndRest, MonitorInv, MonitorTypeOK, NoVisit
<1> QED  BY <1>2, <1>3, <1>4 DEF SaveAndRest, MonitorInv, CopyOK, SeenFor

LEMMA ObservedOK ==
    ASSUME MonitorInv, NEW w \in Watcher, visit[w].at = "download", NEW got \in SUBSET visit[w].asked
    PROVE  /\ Observed(w, got) \in MonitorState
           /\ SeenFor(Observed(w, got))
           /\ Observed(w, got).run = visit[w].snap
<1>1. /\ visit[w].copy \in MonitorState /\ visit[w].snap \in 1..MonitorSnapshots
      /\ visit[w].asked \subseteq Instrument /\ visit[w].items \subseteq Instrument
      /\ CopyOK(visit[w])
  BY DEF MonitorInv, MonitorTypeOK, CopyOK
<1>2. got \X {visit[w].snap} \subseteq Observation
  BY <1>1 DEF Observation
<1>3. {q \in visit[w].copy.quotes : q[1] \notin got} \cup (got \X {visit[w].snap}) \subseteq Observation
  BY <1>1, <1>2 DEF MonitorState
<1>5. Observed(w, got) \in MonitorState
  <2> DEFINE held == HeldIn[visit[w].snap] \cap visit[w].items
             quotes == {q \in visit[w].copy.quotes : q[1] \notin got} \cup (got \X {visit[w].snap})
             heldFresh == visit[w].copy.heldFresh \/ visit[w].asked \cap held # {}
             othersFresh == visit[w].copy.othersFresh \/ visit[w].asked \ held # {} \/ visit[w].asked = visit[w].items
  <2>1. Observed(w, got) = [visit[w].copy EXCEPT !.quotes = quotes, !.heldFresh = heldFresh,
                                              !.othersFresh = othersFresh, !.run = visit[w].snap]
    BY <1>1 DEF Observed, MonitorState
  <2>2. heldFresh \in BOOLEAN /\ othersFresh \in BOOLEAN
    BY <1>1 DEF MonitorState
  <2> HIDE DEF heldFresh, othersFresh, quotes
  <2>3. quotes \subseteq Observation
    BY <1>3 DEF quotes
  <2>4. Observed(w, got) = [run |-> visit[w].snap, quotes |-> quotes, alerts |-> visit[w].copy.alerts,
                            heldFresh |-> heldFresh, othersFresh |-> othersFresh]
    BY <1>1, <2>1 DEF MonitorState
  <2> QED  BY <1>1, <2>2, <2>3, <2>4 DEF MonitorState
<1>4. /\ Observed(w, got).run = visit[w].snap
      /\ Observed(w, got).quotes = {q \in visit[w].copy.quotes : q[1] \notin got} \cup (got \X {visit[w].snap})
      /\ Observed(w, got).alerts = visit[w].copy.alerts
  BY <1>1 DEF Observed, MonitorState
<1> QED  BY <1>1, <1>5, <1>4 DEF SeenFor, CopyOK

LEMMA MonitorStep == MonitorInv /\ [MonitorNext]_monitorVars => MonitorInv'
<1> SUFFICES ASSUME MonitorInv, [MonitorNext]_monitorVars PROVE MonitorInv'
  OBVIOUS
<1>0. \A w \in Watcher : visit[w].copy \in MonitorState /\ CopyOK(visit[w]) /\ SeenFor(visit[w].copy)
  BY DEF MonitorInv, MonitorTypeOK, CopyOK
<1>9. Outage => outages' \in 0..MaxOutages
  BY DEF Outage, MonitorInv, MonitorTypeOK
<1>11. SeenFor(NewState)
  BY DEF SeenFor, NewState
<1>1. ASSUME NEW w \in Watcher, NEW inHours \in BOOLEAN, NEW copy \in {monitor, NewState},
             Loaded(w, inHours, copy), outages' \in 0..MaxOutages
      PROVE  MonitorInv'
  <2>0. copy \in MonitorState /\ SeenFor(copy)
    <3>1. monitor \in MonitorState /\ SeenFor(monitor)
      BY DEF MonitorInv, MonitorTypeOK
    <3>2. CASE copy = monitor
      BY <3>1, <3>2
    <3>3. CASE copy = NewState
      BY <1>11, <3>3, NewStateTypes
    <3> QED  BY <3>2, <3>3
  <2>1. \A v \in Watcher : visit'[v] = IF v = w THEN [NoVisit EXCEPT !.at = "check",
                                              !.open = inHours \/ w = "request", !.copy = copy] ELSE visit[v]
    BY <1>1 DEF Loaded, MonitorInv, MonitorTypeOK
  <2> DEFINE open == inHours \/ w = "request"
             seen == [NoVisit EXCEPT !.at = "check", !.open = open, !.copy = copy]
  <2>5. visit' = [visit EXCEPT ![w] = seen]
    BY <1>1 DEF Loaded
  <2>6. open \in BOOLEAN
    OBVIOUS
  <2> HIDE DEF open
  <2>7. seen \in VisitState
    <3>1. NoVisit \in VisitState
      BY NewStateTypes DEF NoVisit, VisitState
    <3> QED  BY <2>0, <2>6, <3>1 DEF VisitState
  <2> HIDE DEF seen
  <2>2. MonitorTypeOK'
    BY <1>1, <2>5, <2>7 DEF Loaded, MonitorInv, MonitorTypeOK, VisitState
  <2>3. CopyOK(visit'[w])
    BY <2>0, <2>1 DEF CopyOK, NoVisit
  <2> QED  BY <1>1, <2>1, <2>2, <2>3 DEF Loaded, MonitorInv, CopyOK, SeenFor
<1>2. ASSUME NEW w \in Watcher, NothingToDo(w)
      PROVE  MonitorInv'
  BY <1>0, <1>2, SavedAndRested DEF NothingToDo, MonitorInv, MonitorTypeOK
<1>3. ASSUME NEW w \in Watcher, BeginDownload(w)
      PROVE  MonitorInv'
  <2> DEFINE cleared == Cleared(visit[w].copy, newest)
  <2>1. cleared \in MonitorState /\ SeenFor(cleared)
        /\ (cleared.run = newest \/ cleared.quotes \cup cleared.alerts = {})
    BY <1>0 DEF Cleared, SeenFor, MonitorState
  <2>2. newest \in 1..MonitorSnapshots
    BY <1>3 DEF BeginDownload, MonitorInv, MonitorTypeOK
  <2>3. \A v \in Watcher : visit'[v] = IF v = w THEN
            [at |-> "download", open |-> TRUE, copy |-> cleared, snap |-> newest, items |-> watching,
             asked |-> IF visit[w].copy.run = newest THEN DueTickers(visit[w].copy) ELSE watching] ELSE visit[v]
    BY <1>3 DEF BeginDownload, MonitorInv, MonitorTypeOK
  <2>4. DueTickers(visit[w].copy) \subseteq watching
    BY DEF DueTickers
  <2>5. MonitorTypeOK'
    BY <1>3, <2>1, <2>4 DEF BeginDownload, MonitorInv, MonitorTypeOK
  <2>6. CopyOK(visit'[w])
    BY <2>1, <2>2, <2>3 DEF CopyOK
  <2> QED  BY <1>3, <2>3, <2>5, <2>6 DEF BeginDownload, MonitorInv, CopyOK, SeenFor
<1>4. ASSUME NEW w \in Watcher, Download(w)
      PROVE  MonitorInv'
  <2>1. PICK got \in SUBSET visit[w].asked :
            /\ monitor' = Observed(w, got)
            /\ visit' = [visit EXCEPT ![w].at = "score", ![w].copy = Observed(w, got)]
    BY <1>4 DEF Download
  <2>2. Observed(w, got) \in MonitorState /\ SeenFor(Observed(w, got)) /\ Observed(w, got).run = visit[w].snap
    BY <1>4, ObservedOK DEF Download
  <2>3. MonitorTypeOK'
    <3>1. visit' = [visit EXCEPT ![w] = [@ EXCEPT !.at = "score", !.copy = Observed(w, got)]]
      BY <2>1 DEF MonitorInv, MonitorTypeOK
    <3>2. [visit[w] EXCEPT !.at = "score", !.copy = Observed(w, got)] \in VisitState
      BY <2>2 DEF MonitorInv, MonitorTypeOK, VisitState
    <3> QED  BY <1>4, <2>1, <2>2, <3>1, <3>2 DEF Download, MonitorInv, MonitorTypeOK, VisitState
  <2>4. \A v \in Watcher : v # w => visit'[v] = visit[v]
    BY <2>1 DEF MonitorInv, MonitorTypeOK
  <2>5. visit'[w].at = "score" /\ visit'[w].copy = Observed(w, got) /\ visit'[w].snap = visit[w].snap
    BY <2>1 DEF MonitorInv, MonitorTypeOK
  <2>6. CopyOK(visit'[w])
    BY <1>0, <1>4, <2>2, <2>5 DEF CopyOK, Download
  <2>7. \A v \in Watcher : CopyOK(visit'[v])
    BY <1>0, <2>4, <2>6
  <2>8. SeenFor(monitor')
    BY <2>1, <2>2
  <2> QED  BY <2>3, <2>7, <2>8 DEF MonitorInv, CopyOK, SeenFor
<1>5. ASSUME NEW w \in Watcher, Score(w)
      PROVE  MonitorInv'
  <2> DEFINE scored == [visit[w].copy EXCEPT !.alerts = visit[w].items \X {visit[w].snap}]
  <2>1. visit[w].copy.run = visit[w].snap /\ visit[w].snap \in 1..MonitorSnapshots /\ visit[w].items \subseteq Instrument
    BY <1>0, <1>5 DEF Score, CopyOK, MonitorInv, MonitorTypeOK
  <2>2. scored \in MonitorState
    BY <1>0, <2>1 DEF MonitorState, Observation
  <2>3. SeenFor(scored)
    BY <1>0, <2>1 DEF SeenFor, MonitorState
  <2> QED  BY <1>5, <2>2, <2>3, SavedAndRested DEF Score, MonitorInv, MonitorTypeOK
<1>6. ASSUME NEW w \in Watcher, RunRaises(w)
      PROVE  MonitorInv'
  <2>1. outages' \in 0..MaxOutages
    BY <1>6, <1>9 DEF RunRaises
  <2> QED  BY <1>0, <1>6, <2>1, SavedAndRested DEF RunRaises
<1>10. ASSUME NEW w \in Watcher, RunDies(w)
       PROVE  MonitorInv'
  <2> DEFINE place == IF w = "thread" THEN "ended" ELSE "rest"
  <2>1. visit' = [visit EXCEPT ![w] = [NoVisit EXCEPT !.at = place]]
    BY <1>10 DEF RunDies
  <2>2. place \in {"rest", "ended"}
    OBVIOUS
  <2> HIDE DEF place
  <2>3. [NoVisit EXCEPT !.at = place] \in VisitState /\ CopyOK([NoVisit EXCEPT !.at = place])
    <3> DEFINE over == [NoVisit EXCEPT !.at = place]
    <3>1. NoVisit \in VisitState
      BY NewStateTypes DEF NoVisit, VisitState
    <3>2. over \in VisitState
      BY <2>2, <3>1 DEF VisitState
    <3>3. over.at = place /\ over.copy = NewState
      BY DEF NoVisit
    <3> HIDE DEF over
    <3>4. CopyOK(over)
      BY <1>11, <2>2, <3>3 DEF CopyOK
    <3> QED  BY <3>2, <3>4 DEF over
  <2>4. \A v \in Watcher : visit'[v] = IF v = w THEN [NoVisit EXCEPT !.at = place] ELSE visit[v]
    BY <2>1 DEF MonitorInv, MonitorTypeOK
  <2>5. MonitorTypeOK'
    BY <1>9, <1>10, <2>1, <2>3 DEF RunDies, MonitorInv, MonitorTypeOK, VisitState
  <2> QED  BY <1>0, <1>10, <2>3, <2>4, <2>5 DEF RunDies, MonitorInv, SeenFor
<1>12. CASE ApiStarts
  <2>1. outages' \in 0..MaxOutages
    BY <1>9, <1>12 DEF ApiStarts, MonitorInv, MonitorTypeOK
  <2>2. NoVisit \in VisitState /\ CopyOK(NoVisit)
    BY NewStateTypes, <1>11 DEF NoVisit, VisitState, CopyOK
  <2>3. MonitorTypeOK'
    BY <1>12, <2>1, <2>2 DEF ApiStarts, MonitorInv, MonitorTypeOK, VisitState
  <2>4. \A v \in Watcher : CopyOK(visit'[v])
    BY <1>12, <2>2 DEF ApiStarts
  <2> QED  BY <1>12, <2>3, <2>4 DEF ApiStarts, MonitorInv, SeenFor
<1>7. CASE IntervalPasses
  <2>1. /\ monitor' \in MonitorState
        /\ monitor'.run = monitor.run /\ monitor'.quotes = monitor.quotes /\ monitor'.alerts = monitor.alerts
        /\ monitor'.heldFresh \in BOOLEAN /\ monitor'.othersFresh \in BOOLEAN
    BY <1>7 DEF IntervalPasses, MonitorInv, MonitorTypeOK, MonitorState
  <2>2. \A w \in Watcher :
            /\ visit'[w] \in VisitState
            /\ visit'[w].copy.run = visit[w].copy.run /\ visit'[w].copy.quotes = visit[w].copy.quotes
            /\ visit'[w].copy.alerts = visit[w].copy.alerts
            /\ visit'[w].at = visit[w].at /\ visit'[w].snap = visit[w].snap
    <3> SUFFICES ASSUME NEW w \in Watcher PROVE
            /\ visit'[w] \in VisitState
            /\ visit'[w].copy.run = visit[w].copy.run /\ visit'[w].copy.quotes = visit[w].copy.quotes
            /\ visit'[w].copy.alerts = visit[w].copy.alerts
            /\ visit'[w].at = visit[w].at /\ visit'[w].snap = visit[w].snap
      OBVIOUS
    <3> DEFINE held == visit[w].copy.heldFresh /\ monitor'.heldFresh
               others == visit[w].copy.othersFresh /\ monitor'.othersFresh
               copy == [visit[w].copy EXCEPT !.heldFresh = held, !.othersFresh = others]
    <3>1. visit'[w] = [visit[w] EXCEPT
              !.copy.heldFresh = @ /\ monitor'.heldFresh, !.copy.othersFresh = @ /\ monitor'.othersFresh]
      BY <1>7, Zenon DEF IntervalPasses
    <3>2. held \in BOOLEAN /\ others \in BOOLEAN
      OBVIOUS
    <3>3. visit'[w] = [visit[w] EXCEPT !.copy = copy]
      BY <3>1
    <3>4. visit[w] \in VisitState /\ visit[w].copy \in MonitorState
      BY DEF MonitorInv, MonitorTypeOK, VisitState
    <3> HIDE DEF held, others
    <3>5. /\ copy \in MonitorState
          /\ copy.run = visit[w].copy.run /\ copy.quotes = visit[w].copy.quotes /\ copy.alerts = visit[w].copy.alerts
      BY <3>2, <3>4 DEF MonitorState
    <3> HIDE DEF copy
    <3> QED  BY <3>3, <3>4, <3>5 DEF VisitState
  <2>3. MonitorTypeOK'
    <3>1. visit' \in [Watcher -> VisitState]
      BY <1>7, <2>2 DEF IntervalPasses
    <3> QED  BY <1>7, <2>1, <3>1 DEF IntervalPasses, MonitorInv, MonitorTypeOK, VisitState
  <2> QED  BY <2>1, <2>2, <2>3 DEF MonitorInv, CopyOK, SeenFor
<1>8. CASE NewSnapshot \/ EditWatchlist \/ UNCHANGED monitorVars
  <2>1. UNCHANGED <<monitor, visit, outages>>
    BY <1>8 DEF NewSnapshot, EditWatchlist, monitorVars
  <2>2. newest' \in 0..MonitorSnapshots /\ watching' \subseteq Instrument
    BY <1>8 DEF NewSnapshot, EditWatchlist, monitorVars, MonitorInv, MonitorTypeOK
  <2> QED  BY <2>1, <2>2 DEF MonitorInv, MonitorTypeOK, CopyOK, SeenFor
<1>13. ASSUME NEW w \in Watcher, NEW inHours \in BOOLEAN, LoadState(w, inHours) \/ LoadRefused(w, inHours)
       PROVE  MonitorInv'
  <2>1. outages' \in 0..MaxOutages
    BY <1>9, <1>13 DEF LoadState, LoadRefused, MonitorInv, MonitorTypeOK
  <2> QED  BY <1>1, <1>13, <2>1 DEF LoadState, LoadRefused
<1> QED  BY <1>2, <1>3, <1>4, <1>5, <1>6, <1>7, <1>8, <1>10, <1>12, <1>13 DEF MonitorNext, Visit

LEMMA InitialMonitor == MonitorInit => MonitorInv
<1> SUFFICES ASSUME MonitorInit PROVE MonitorInv
  OBVIOUS
<1>1. MonitorTypeOK
  BY NewStateTypes DEF MonitorInit, MonitorTypeOK, NoVisit
<1>2. SeenFor(NewState) /\ CopyOK(NoVisit)
  BY DEF SeenFor, CopyOK, NewState, NoVisit
<1> QED  BY <1>1, <1>2 DEF MonitorInit, MonitorInv

\* Whoever runs beside whom, the state and the copies of the alert monitor keep their types.
THEOREM MonitorTypeCorrect == MonitorSpec => []MonitorTypeOK
<1>1. MonitorInv => MonitorTypeOK
  BY DEF MonitorInv
<1> QED  BY InitialMonitor, MonitorStep, <1>1, PTL DEF MonitorSpec

\* For any instruments, snapshots and failures: runs that overwrite each other's state
\* never leave a quote or alert of another snapshot than the one it names.
THEOREM StateIsOfOneSnapshot == MonitorSpec => []OneSnapshotShown
<1>1. MonitorInv => OneSnapshotShown
  BY DEF MonitorInv, OneSnapshotShown, SeenFor
<1> QED  BY InitialMonitor, MonitorStep, <1>1, PTL DEF MonitorSpec

------------------------------------------------------------------------------
(*****************************************************************************)
(* The backup.  A capture is whole because what it has found in the live     *)
(* state is still there, loose or in a pack it knows of, when it copies it   *)
(* (CaptureOK).  A queued point survives because the job removes a tree only *)
(* after it has verified and marked its archive (JobOK), and because points  *)
(* are taken from the first on, so that no capture writes into one that is   *)
(* queued (PointsOK).                                                        *)
(*****************************************************************************)
HIDE MonitorAssumption

USE BackupAssumption

\* A set of numbers that is not empty has a least one.
LEMMA LeastElement ==
    ASSUME NEW S \in SUBSET Nat, S # {}
    PROVE  \E n \in S : \A m \in S : n <= m
<1> DEFINE R == {ss \in Nat \X Nat : ss[1] < ss[2]}
<1>1. IsWellFoundedOn(R, Nat)
  BY NatLessThanWellFounded, Zenon DEF OpToRel
<1>2. \A x, y \in Nat : x < y => <<x, y>> \in R
  OBVIOUS
<1> HIDE DEF R
<1>3. PICK n \in S : \A m \in S : <<m, n>> \notin R
  BY <1>1, WFMin
<1>4. ASSUME NEW m \in S PROVE n <= m
  <2>1. m \in Nat /\ n \in Nat /\ <<m, n>> \notin R
    BY <1>3
  <2>2. ~(m < n)
    BY <1>2, <2>1, Zenon
  <2> QED  BY <2>1, <2>2
<1> QED  BY <1>4

PointState == [phase : {"absent", "queued", "archived"}, tree : BOOLEAN, manifest : BOOLEAN,
               made : 0..MaxDay, holds : SUBSET Snap, latest : 0..MaxSnapshot]
CaptureState == [at : {"none", "pointer", "index", "files", "incomplete"}, by : {"job", "deployment"},
                 made : 0..MaxDay, latest : 0..MaxSnapshot, index : SUBSET Snap]
JobState == [at : {"none", "capture", "next", "archive", "mark", "clean", "save", "maintain", "finish"},
             queue : SUBSET Points, force : BOOLEAN, made : BOOLEAN, result : 0..MaxPoint]
StatusState == [says : {"none", "running", "deferred", "failed", "succeeded"}, last : 0..MaxPoint,
                pending : BOOLEAN, error : BOOLEAN]

BackupTypes ==
    /\ pointer \in 0..MaxSnapshot /\ storedLive \subseteq Snap /\ packedLive \subseteq storedLive
    /\ point \in [Points -> PointState] /\ captures \in 0..MaxPoint
    /\ capture \in CaptureState /\ job \in JobState /\ status \in StatusState
    /\ today \in 0..MaxDay /\ deploys \in 0..MaxDeploys /\ kills \in 0..MaxKills
    /\ deploy \in {"none", "requested", "holds", "captured"}
    /\ job.at = "capture" <=> capture.at # "none" /\ capture.by = "job"

\* What a capture has found is there to be copied, and its place in the queue is free.
LiveOK == pointer # 0 => pointer \in storedLive
CaptureOK ==
    /\ capture.at # "incomplete"
    /\ capture.at \in {"index", "files"} => capture.latest = 0 \/ capture.latest \in storedLive
    /\ capture.at = "files" => packedLive \subseteq capture.index
    /\ capture.at # "none" => captures \in Points /\ point[captures].phase = "absent"

\* Points are taken from the first on; what is marked as archived, and the last backup of
\* the status file, were verified.
PointsOK ==
    /\ \A i \in Points : point[i].phase = "queued" => point[i].tree \/ point[i].manifest
    /\ \A i \in Points : point[i].phase = "archived" => point[i].manifest
    /\ \A i \in Points : i > captures => point[i].phase = "absent"
    /\ status.last # 0 => point[status.last].phase # "absent" /\ point[status.last].manifest

\* What the job works on is queued, and how far it is with it.
JobOK ==
    /\ \A i \in job.queue : point[i].phase # "absent"
    /\ job.at \in {"archive", "mark", "clean", "save"} =>
          job.result \in Points /\ point[job.result].phase # "absent"
    /\ job.at \in {"mark", "clean", "save"} => point[job.result].manifest
    /\ job.at \in {"clean", "save"} => point[job.result].phase = "archived"

BackupInv == BackupTypes /\ LiveOK /\ CaptureOK /\ PointsOK /\ JobOK

LEMMA RestTypes ==
    /\ NoPoint \in PointState /\ NoCapture \in CaptureState /\ JobAtRest \in JobState
    /\ NoCapture.at = "none" /\ JobAtRest.at = "none" /\ JobAtRest.queue = {} /\ NoPoint.phase = "absent"
BY DEF NoPoint, NoCapture, JobAtRest, PointState, CaptureState, JobState

LEMMA WithoutTypes ==
    ASSUME BackupTypes, NEW who \in {"job", "deployment"}
    PROVE  /\ Without(who) \in CaptureState
           /\ Without(who) = capture \/ Without(who).at = "none"
           /\ Without(who).at # "none" => Without(who) = capture /\ capture.by # who
BY RestTypes DEF Without, BackupTypes

LEMMA BegunTypes ==
    ASSUME BackupTypes, NEW by \in {"job", "deployment"}, BeginCapture(by)
    PROVE  /\ captures' = captures + 1 /\ captures' \in Points
           /\ capture.at = "none" /\ capture' \in CaptureState /\ capture'.at = "pointer" /\ capture'.by = by
<1>1. today \in 0..MaxDay /\ captures \in 0..MaxPoint
  BY DEF BackupTypes
<1>2. capture' \in CaptureState /\ capture'.at = "pointer" /\ capture'.by = by
  BY <1>1, RestTypes DEF BeginCapture, CaptureState
<1> QED  BY <1>1, <1>2 DEF BeginCapture, Points

LEMMA LeastQueued ==
    ASSUME NEW queue \in SUBSET Points, queue # {}
    PROVE  (CHOOSE i \in queue : \A k \in queue : i <= k) \in queue
<1>1. \E i \in queue : \A k \in queue : i <= k
  BY LeastElement DEF Points
<1> QED  BY <1>1

LEMMA BackupTypesOK == BackupTypes <=> BackupTypeOK
BY DEF BackupTypes, BackupTypeOK, PointState, CaptureState, JobState, StatusState

LEMMA BackupTypeStep == BackupTypes /\ CaptureOK /\ JobOK /\ [BackupNext]_backupVars => BackupTypes'
<1> SUFFICES ASSUME BackupTypes, CaptureOK, JobOK, [BackupNext]_backupVars PROVE BackupTypes'
  OBVIOUS
<1>1. CASE StoreArtifact
  BY <1>1 DEF StoreArtifact, BackupTypes, Snap
<1>2. CASE PublishSnapshot
  BY <1>2 DEF PublishSnapshot, BackupTypes, Snap
<1>3. CASE PackStore \/ DayPasses
  BY <1>3 DEF PackStore, DayPasses, BackupTypes, liveVars
<1>4. CASE PinPointer \/ CopyIndex
  BY <1>4 DEF PinPointer, CopyIndex, BackupTypes, liveVars, CaptureState
<1>5. CASE CopyFiles
  <2>1. Copied \subseteq Snap
    BY DEF Copied, BackupTypes
  <2>2. CASE capture.latest = 0 \/ capture.latest \in Copied
    <3> DEFINE new == [phase |-> "queued", tree |-> TRUE, manifest |-> FALSE,
                       made |-> capture.made, holds |-> Copied, latest |-> capture.latest]
    <3>1. new \in PointState
      BY <2>1 DEF PointState, CaptureState, BackupTypes
    <3>2. point' = [point EXCEPT ![captures] = new] /\ capture' = NoCapture
      BY <1>5, <2>2 DEF CopyFiles
    <3> HIDE DEF new
    <3>3. point' \in [Points -> PointState]
      BY <3>1, <3>2 DEF BackupTypes
    <3>4. CASE capture.by = "job"
      <4>1. job' = [job EXCEPT !.at = "next", !.queue = {captures}, !.made = TRUE] /\ deploy' = deploy
        BY <1>5, <2>2, <3>4 DEF CopyFiles
      <4>2. captures \in Points
        BY <1>5 DEF CopyFiles, CaptureOK
      <4> QED  BY <1>5, <3>2, <3>3, <4>1, <4>2, RestTypes DEF CopyFiles, BackupTypes, liveVars, JobState
    <3>5. CASE capture.by # "job"
      <4>1. job' = job /\ deploy' = "captured"
        BY <1>5, <2>2, <3>5 DEF CopyFiles
      <4> QED  BY <1>5, <3>2, <3>3, <3>5, <4>1, RestTypes DEF CopyFiles, BackupTypes, liveVars, JobState
    <3> QED  BY <3>4, <3>5
  <2>3. CASE ~(capture.latest = 0 \/ capture.latest \in Copied)
    BY <1>5, <2>3 DEF CopyFiles, BackupTypes, liveVars, CaptureState
  <2> QED  BY <2>2, <2>3
<1>6. CASE NextQueued
  <2> DEFINE first == CHOOSE i \in job.queue : \A k \in job.queue : i <= k
  <2>1. job.queue # {} => first \in 0..MaxPoint
    <3>1. job.queue \in SUBSET Points
      BY DEF BackupTypes, JobState
    <3>2. job.queue # {} => first \in Points
      BY <3>1, LeastQueued
    <3> HIDE DEF first
    <3> QED  BY <3>2 DEF Points
  <2>2. /\ job.queue # {} => job' = [job EXCEPT !.at = "archive", !.result = first] /\ status' = status
        /\ job.queue = {} => job' = [job EXCEPT !.at = "maintain"] /\ status' = [status EXCEPT !.pending = TRUE]
    BY <1>6 DEF NextQueued
  <2> HIDE DEF first
  <2> QED  BY <1>6, <2>1, <2>2 DEF NextQueued, BackupTypes, liveVars, JobState, StatusState
<1>7. CASE Archive \/ MarkArchived \/ CleanUp
  <2>1. /\ job' \in JobState /\ job.at # "capture" /\ job'.at # "capture"
    BY <1>7 DEF Archive, MarkArchived, CleanUp, BackupTypes, JobState
  <2>2. point' \in [Points -> PointState]
    <3>4. job.result \in Points /\ point[job.result] \in PointState
      BY <1>7 DEF Archive, MarkArchived, CleanUp, JobOK, BackupTypes
    <3>1. CASE Archive
      <4>1. point' = point \/ point' = [point EXCEPT ![job.result].manifest = TRUE]
        BY <3>1 DEF Archive
      <4>2. [point[job.result] EXCEPT !.manifest = TRUE] \in PointState
        BY <3>4 DEF PointState
      <4> QED  BY <3>4, <4>1, <4>2 DEF BackupTypes
    <3>2. CASE MarkArchived
      BY <3>2, <3>4 DEF MarkArchived, BackupTypes, PointState
    <3>3. CASE CleanUp
      BY <3>3, <3>4 DEF CleanUp, BackupTypes, PointState
    <3> QED  BY <1>7, <3>1, <3>2, <3>3
  <2> QED  BY <1>7, <2>1, <2>2 DEF Archive, MarkArchived, CleanUp, BackupTypes, liveVars
<1>8. CASE NoteSuccess
  BY <1>8 DEF NoteSuccess, BackupTypes, liveVars, JobState, StatusState
<1>9. CASE FinishRun
  BY <1>9, RestTypes DEF FinishRun, BackupTypes, liveVars, StatusState
<1>10. CASE Maintain
  BY <1>10 DEF Maintain, BackupTypes, liveVars, JobState, StatusState
<1>11. CASE YieldToDeployment \/ RunFails \/ JobKilled
  BY <1>11, RestTypes, WithoutTypes
     DEF YieldToDeployment, RunFails, JobKilled, BackupTypes, liveVars, StatusState
<1>12. ASSUME NEW force \in BOOLEAN, StartJob(force) PROVE BackupTypes'
  <2>1. job.at = "none" /\ status' \in StatusState /\ UNCHANGED <<liveVars, point, today, deploy, deploys, kills>>
    BY <1>12 DEF StartJob, BackupTypes, StatusState
  <2>2. CASE UNCHANGED <<job, captures, capture>>
    BY <2>1, <2>2 DEF BackupTypes, liveVars
  <2>3. CASE /\ Pending # {} /\ UNCHANGED <<captures, capture>>
             /\ job' = [JobAtRest EXCEPT !.at = "next", !.queue = Pending, !.force = force]
    <3>1. Pending \subseteq Points
      BY DEF Pending
    <3>2. job' \in JobState /\ job'.at = "next"
      BY <2>3, <3>1, RestTypes DEF JobState
    <3> QED  BY <2>1, <2>3, <3>2 DEF BackupTypes, liveVars
  <2>4. CASE job' = [JobAtRest EXCEPT !.at = "capture", !.force = force] /\ BeginCapture("job")
    <3>1. job' \in JobState /\ job'.at = "capture"
      BY <2>4, RestTypes DEF JobState
    <3>2. captures' \in 0..MaxPoint /\ capture' \in CaptureState /\ capture'.at # "none" /\ capture'.by = "job"
      BY <2>4, BegunTypes DEF Points
    <3> QED  BY <2>1, <3>1, <3>2 DEF BackupTypes, liveVars
  <2>5. CASE job' = [JobAtRest EXCEPT !.at = "next", !.result = status.last] /\ UNCHANGED <<captures, capture>>
    <3>1. job' \in JobState /\ job'.at = "next"
      BY <2>5, RestTypes DEF JobState, BackupTypes, StatusState
    <3> QED  BY <2>1, <2>5, <3>1 DEF BackupTypes, liveVars
  <2> QED  BY <1>12, <2>2, <2>3, <2>4, <2>5 DEF StartJob
<1>13. CASE RequestDeployment \/ LockDeployment
  BY <1>13 DEF RequestDeployment, LockDeployment, BackupTypes, liveVars
<1>14. CASE EndDeployment
  BY <1>14, WithoutTypes, RestTypes DEF EndDeployment, BackupTypes, liveVars, Without
<1>15. CASE DeploymentCaptures
  <2>1. captures' \in 0..MaxPoint /\ capture' \in CaptureState /\ capture'.by # "job" /\ capture.at = "none"
    BY <1>15, BegunTypes DEF DeploymentCaptures, Points
  <2> QED  BY <1>15, <2>1 DEF DeploymentCaptures, BackupTypes, liveVars
<1>16. CASE UNCHANGED backupVars
  BY <1>16 DEF backupVars, BackupTypes, liveVars
<1> QED  BY <1>1, <1>2, <1>3, <1>4, <1>5, <1>6, <1>7, <1>8, <1>9, <1>10, <1>11, <1>12, <1>13, <1>14, <1>15, <1>16
            DEF BackupNext, Capturing, JobStep

\* The live state is published artifact first, whatever else happens.
LEMMA LiveStep == BackupTypes /\ LiveOK /\ [BackupNext]_backupVars => LiveOK' /\ storedLive \subseteq storedLive'
<1> SUFFICES ASSUME BackupTypes, LiveOK, [BackupNext]_backupVars PROVE LiveOK' /\ storedLive \subseteq storedLive'
  OBVIOUS
<1>1. CASE StoreArtifact
  BY <1>1 DEF StoreArtifact, LiveOK
<1>2. CASE PublishSnapshot
  BY <1>2 DEF PublishSnapshot, LiveOK
<1>3. CASE UNCHANGED <<pointer, storedLive>>
  BY <1>3 DEF LiveOK
<1>4. StoreArtifact \/ PublishSnapshot \/ UNCHANGED <<pointer, storedLive>>
  BY DEF BackupNext, PackStore, Capturing, PinPointer, CopyIndex, CopyFiles, JobStep, NextQueued, Archive,
         MarkArchived, CleanUp, NoteSuccess, Maintain, FinishRun, YieldToDeployment, RunFails, JobKilled,
         StartJob, RequestDeployment, LockDeployment, DeploymentCaptures, EndDeployment, DayPasses,
         backupVars, liveVars
<1> QED  BY <1>1, <1>2, <1>3, <1>4

\* A step that leaves the points and the store alone, and starts or ends captures.
LEMMA CaptureKept ==
    ASSUME BackupInv, storedLive \subseteq storedLive',
           UNCHANGED <<point, captures>>,
           \/ capture'.at = "none"
           \/ UNCHANGED <<capture, packedLive>>
    PROVE  CaptureOK'
BY DEF BackupInv, CaptureOK

LEMMA CaptureStep == BackupInv /\ [BackupNext]_backupVars => CaptureOK'
<1> SUFFICES ASSUME BackupInv, [BackupNext]_backupVars PROVE CaptureOK'
  OBVIOUS
<1>0. storedLive \subseteq storedLive' /\ BackupTypes /\ CaptureOK
  BY LiveStep DEF BackupInv
<1>1. CASE StoreArtifact \/ PublishSnapshot \/ DayPasses \/ RequestDeployment \/ LockDeployment
              \/ NextQueued \/ NoteSuccess \/ FinishRun \/ UNCHANGED backupVars
  BY <1>0, <1>1, CaptureKept DEF StoreArtifact, PublishSnapshot, DayPasses, RequestDeployment, LockDeployment,
              NextQueued, NoteSuccess, FinishRun, backupVars, liveVars
<1>2. CASE PackStore
  BY <1>0, <1>2, CaptureKept DEF PackStore, RepositoryFree
<1>3. CASE PinPointer
  BY <1>0, <1>3 DEF PinPointer, BackupInv, LiveOK, CaptureOK, BackupTypes, CaptureState, liveVars
<1>4. CASE CopyIndex
  BY <1>0, <1>4 DEF CopyIndex, CaptureOK, BackupTypes, CaptureState, liveVars
<1>5. CASE CopyFiles
  <2>1. storedLive = Copied
    BY <1>0, <1>5 DEF CopyFiles, CaptureOK, Copied, BackupTypes
  <2>2. capture' = NoCapture
    BY <1>0, <1>5, <2>1 DEF CopyFiles, CaptureOK
  <2> QED  BY <2>2, RestTypes DEF CaptureOK
<1>6. CASE Archive \/ MarkArchived \/ CleanUp
  <2>1. \A i \in Points : point[i].phase = "absent" => point'[i] = point[i] \/ i = job.result
    BY <1>6 DEF Archive, MarkArchived, CleanUp, BackupInv, BackupTypes
  <2>2. point[job.result].phase # "absent"
    BY <1>6 DEF Archive, MarkArchived, CleanUp, BackupInv, JobOK
  <2> QED  BY <1>0, <1>6, <2>1, <2>2 DEF Archive, MarkArchived, CleanUp, CaptureOK, liveVars
<1>7. CASE Maintain
  BY <1>0, <1>7, CaptureKept DEF Maintain
<1>8. CASE YieldToDeployment \/ RunFails \/ JobKilled
  <2>1. capture' = capture \/ capture'.at = "none"
    BY <1>0, <1>8, WithoutTypes DEF YieldToDeployment, RunFails, JobKilled
  <2> QED  BY <1>0, <1>8, <2>1, CaptureKept DEF YieldToDeployment, RunFails, JobKilled, liveVars
<1>9. CASE EndDeployment
  <2>1. capture' = capture \/ capture'.at = "none"
    BY <1>0, <1>9, WithoutTypes DEF EndDeployment
  <2> QED  BY <1>0, <1>9, <2>1, CaptureKept DEF EndDeployment, liveVars
<1>10. ASSUME NEW by \in {"job", "deployment"}, BeginCapture(by), UNCHANGED <<liveVars, point>>
       PROVE  CaptureOK'
  <2>1. captures' = captures + 1 /\ captures' \in Points /\ capture'.at = "pointer"
    BY <1>0, <1>10, BegunTypes
  <2>2. point[captures'].phase = "absent"
    BY <1>0, <2>1 DEF BackupInv, PointsOK, BackupTypes
  <2> QED  BY <1>10, <2>1, <2>2 DEF CaptureOK
<1>11. ASSUME NEW force \in BOOLEAN, StartJob(force) PROVE CaptureOK'
  BY <1>0, <1>10, <1>11, CaptureKept DEF StartJob, liveVars
<1>12. CASE DeploymentCaptures
  BY <1>10, <1>12 DEF DeploymentCaptures
<1> QED  BY <1>1, <1>2, <1>3, <1>4, <1>5, <1>6, <1>7, <1>8, <1>9, <1>11, <1>12
            DEF BackupNext, Capturing, JobStep

LEMMA PointsKept ==
    ASSUME BackupInv, UNCHANGED <<point, captures>>, UNCHANGED status.last
    PROVE  PointsOK'
BY DEF BackupInv, PointsOK

LEMMA PointsStep == BackupInv /\ [BackupNext]_backupVars => PointsOK'
<1> SUFFICES ASSUME BackupInv, [BackupNext]_backupVars PROVE PointsOK'
  OBVIOUS
<1>0. BackupTypes /\ PointsOK /\ JobOK /\ CaptureOK
  BY DEF BackupInv
<1>1. CASE CopyFiles
  <2> DEFINE new == [phase |-> "queued", tree |-> TRUE, manifest |-> FALSE,
                     made |-> capture.made, holds |-> Copied, latest |-> capture.latest]
  <2>1. captures \in Points /\ point[captures].phase = "absent"
    BY <1>0, <1>1 DEF CopyFiles, CaptureOK
  <2>2. UNCHANGED point \/ point' = [point EXCEPT ![captures] = new]
    BY <1>1 DEF CopyFiles
  <2>3. new.phase = "queued" /\ new.tree
    OBVIOUS
  <2> HIDE DEF new
  <2>4. \A i \in Points : point'[i] = point[i] \/ (i = captures /\ point'[i] = new)
    BY <1>0, <2>1, <2>2 DEF BackupTypes
  <2>5. UNCHANGED <<captures, status>>
    BY <1>1 DEF CopyFiles
  <2>6. status.last # 0 => status.last \in Points /\ status.last # captures
    BY <1>0, <2>1 DEF PointsOK, BackupTypes, StatusState, Points
  <2>7. captures \in Nat /\ captures' = captures
    BY <1>0, <2>5 DEF BackupTypes
  <2> QED  BY <1>0, <2>1, <2>3, <2>4, <2>5, <2>6, <2>7 DEF PointsOK, Points
<1>2. CASE Archive \/ MarkArchived \/ CleanUp
  <2>1. job.result \in Points /\ point[job.result] \in PointState
    BY <1>0, <1>2 DEF Archive, MarkArchived, CleanUp, JobOK, BackupTypes
  <2>2. UNCHANGED <<captures, status>>
    BY <1>2 DEF Archive, MarkArchived, CleanUp
  <2>3. /\ \A i \in Points : i # job.result => point'[i] = point[i]
        /\ point'[job.result].phase # "absent"
        /\ point[job.result].manifest => point'[job.result].manifest
        /\ point'[job.result].phase = "queued" => point'[job.result].tree \/ point'[job.result].manifest
        /\ point'[job.result].phase = "archived" => point'[job.result].manifest
    <3>1. CASE Archive
      BY <1>0, <2>1, <3>1 DEF Archive, JobOK, PointsOK, BackupTypes, PointState
    <3>2. CASE MarkArchived
      BY <1>0, <2>1, <3>2 DEF MarkArchived, JobOK, PointsOK, BackupTypes, PointState
    <3>3. CASE CleanUp
      BY <1>0, <2>1, <3>3 DEF CleanUp, JobOK, PointsOK, BackupTypes, PointState
    <3> QED  BY <1>2, <3>1, <3>2, <3>3
  <2>4. status.last \in 0..MaxPoint
    BY <1>0 DEF BackupTypes, StatusState
  <2>5. \A i \in Points : /\ point[i].phase # "absent" => point'[i].phase # "absent"
                          /\ point[i].manifest => point'[i].manifest
                          /\ point[i].phase = "absent" => point'[i].phase = "absent"
    BY <1>0, <1>2, <2>1, <2>3 DEF JobOK, Archive, MarkArchived, CleanUp
  <2> QED  BY <1>0, <2>1, <2>2, <2>3, <2>4, <2>5 DEF PointsOK, Points
<1>3. CASE NoteSuccess
  BY <1>0, <1>3 DEF NoteSuccess, PointsOK, JobOK, BackupTypes, StatusState
<1>4. ASSUME UNCHANGED <<point, status.last>>, captures' = captures + 1
      PROVE  PointsOK'
  BY <1>0, <1>4 DEF PointsOK, BackupTypes, Points
<1>5. ASSUME NEW force \in BOOLEAN, StartJob(force) PROVE PointsOK'
  <2>1. status'.last = status.last /\ point' = point
    BY <1>0, <1>5 DEF StartJob, BackupTypes, StatusState
  <2>2. captures' = captures \/ captures' = captures + 1
    BY <1>5 DEF StartJob, BeginCapture
  <2> QED  BY <1>4, <2>1, <2>2, PointsKept
<1>6. CASE DeploymentCaptures
  BY <1>4, <1>6 DEF DeploymentCaptures, BeginCapture
<1>7. CASE NextQueued \/ Maintain \/ FinishRun \/ YieldToDeployment \/ RunFails \/ JobKilled
  <2>1. status'.last = status.last
    BY <1>0, <1>7 DEF NextQueued, Maintain, FinishRun, YieldToDeployment, RunFails, JobKilled, BackupTypes, StatusState
  <2> QED  BY <1>7, <2>1, PointsKept DEF NextQueued, Maintain, FinishRun, YieldToDeployment, RunFails, JobKilled
<1>8. CASE StoreArtifact \/ PublishSnapshot \/ PackStore \/ DayPasses \/ PinPointer \/ CopyIndex
              \/ RequestDeployment \/ LockDeployment \/ EndDeployment \/ UNCHANGED backupVars
  BY <1>8, PointsKept DEF StoreArtifact, PublishSnapshot, PackStore, DayPasses, PinPointer, CopyIndex,
              RequestDeployment, LockDeployment, EndDeployment, backupVars
<1> QED  BY <1>1, <1>2, <1>3, <1>5, <1>6, <1>7, <1>8 DEF BackupNext, Capturing, JobStep

LEMMA JobStepOK == BackupInv /\ [BackupNext]_backupVars => JobOK'
<1> SUFFICES ASSUME BackupInv, [BackupNext]_backupVars PROVE JobOK'
  OBVIOUS
<1>0. BackupTypes /\ PointsOK /\ JobOK /\ CaptureOK
  BY DEF BackupInv
<1>1. CASE CopyFiles
  <2> DEFINE new == [phase |-> "queued", tree |-> TRUE, manifest |-> FALSE,
                     made |-> capture.made, holds |-> Copied, latest |-> capture.latest]
  <2>1. captures \in Points /\ point[captures].phase = "absent"
    BY <1>0, <1>1 DEF CopyFiles, CaptureOK
  <2>2. UNCHANGED <<point, job>> \/ point' = [point EXCEPT ![captures] = new]
    BY <1>1 DEF CopyFiles
  <2>3. new.phase = "queued"
    OBVIOUS
  <2>4. job' = job \/ (job'.at = "next" /\ job'.queue = {captures} /\ point' = [point EXCEPT ![captures] = new])
    BY <1>0, <1>1 DEF CopyFiles, BackupTypes, JobState
  <2> HIDE DEF new
  <2>5. \A i \in Points : point'[i] = point[i] \/ (i = captures /\ point'[i] = new)
    BY <1>0, <2>1, <2>2 DEF BackupTypes
  <2>6. CASE job' = job
    BY <1>0, <2>1, <2>3, <2>5, <2>6 DEF JobOK, BackupTypes, JobState
  <2>7. CASE job'.at = "next" /\ job'.queue = {captures} /\ point' = [point EXCEPT ![captures] = new]
    BY <1>0, <2>1, <2>3, <2>7 DEF JobOK, BackupTypes
  <2> QED  BY <2>4, <2>6, <2>7
<1>2. CASE NextQueued
  <2> DEFINE first == CHOOSE i \in job.queue : \A k \in job.queue : i <= k
  <2>1. job.queue # {} => first \in job.queue
    BY <1>0, LeastQueued DEF BackupTypes, JobState
  <2>2. /\ job.queue # {} => job' = [job EXCEPT !.at = "archive", !.result = first]
        /\ job.queue = {} => job' = [job EXCEPT !.at = "maintain"]
        /\ UNCHANGED point
    BY <1>2 DEF NextQueued
  <2> HIDE DEF first
  <2> QED  BY <1>0, <2>1, <2>2 DEF JobOK, BackupTypes, JobState
<1>3. CASE Archive \/ MarkArchived \/ CleanUp
  <2>1. job.result \in Points /\ point[job.result] \in PointState
    BY <1>0, <1>3 DEF Archive, MarkArchived, CleanUp, JobOK, BackupTypes
  <2>2. job'.queue = job.queue /\ job'.result = job.result
    BY <1>0, <1>3 DEF Archive, MarkArchived, CleanUp, BackupTypes, JobState
  <2>3. /\ \A i \in Points : i # job.result => point'[i] = point[i]
        /\ point'[job.result].phase # "absent"
        /\ job'.at \in {"mark", "clean", "save"} /\ point'[job.result].manifest
        /\ job'.at \in {"clean", "save"} => point'[job.result].phase = "archived"
    <3>1. CASE Archive
      BY <1>0, <2>1, <3>1 DEF Archive, JobOK, PointsOK, BackupTypes, PointState, JobState
    <3>2. CASE MarkArchived
      BY <1>0, <2>1, <3>2 DEF MarkArchived, JobOK, PointsOK, BackupTypes, PointState, JobState
    <3>3. CASE CleanUp
      BY <1>0, <2>1, <3>3 DEF CleanUp, JobOK, PointsOK, BackupTypes, PointState, JobState
    <3> QED  BY <1>3, <3>1, <3>2, <3>3
  <2> QED  BY <1>0, <2>1, <2>2, <2>3 DEF JobOK, BackupTypes, JobState
<1>4. CASE NoteSuccess
  BY <1>0, <1>4 DEF NoteSuccess, JobOK, BackupTypes, JobState
<1>5. CASE Maintain
  BY <1>0, <1>5 DEF Maintain, JobOK, BackupTypes, JobState
<1>6. CASE FinishRun \/ YieldToDeployment \/ RunFails \/ JobKilled
  BY <1>0, <1>6, RestTypes DEF FinishRun, YieldToDeployment, RunFails, JobKilled, JobOK
<1>7. ASSUME NEW force \in BOOLEAN, StartJob(force) PROVE JobOK'
  <2>1. point' = point
    BY <1>7 DEF StartJob
  <2>2. CASE job' = job
    BY <1>0, <2>1, <2>2 DEF JobOK
  <2>3. CASE job' = [JobAtRest EXCEPT !.at = "next", !.queue = Pending, !.force = force]
    <3>1. job'.at = "next" /\ job'.queue = Pending
      BY <2>3 DEF JobAtRest
    <3> QED  BY <2>1, <3>1 DEF JobOK, Pending
  <2>4. CASE job' = [JobAtRest EXCEPT !.at = "capture", !.force = force]
    BY <2>1, <2>4 DEF JobOK, JobAtRest
  <2>5. CASE job' = [JobAtRest EXCEPT !.at = "next", !.result = status.last]
    BY <2>1, <2>5 DEF JobOK, JobAtRest
  <2> QED  BY <1>7, <2>2, <2>3, <2>4, <2>5 DEF StartJob
<1>8. CASE StoreArtifact \/ PublishSnapshot \/ PackStore \/ DayPasses \/ PinPointer \/ CopyIndex
              \/ RequestDeployment \/ LockDeployment \/ DeploymentCaptures \/ EndDeployment \/ UNCHANGED backupVars
  <2>1. UNCHANGED <<job, point>>
    BY <1>8 DEF StoreArtifact, PublishSnapshot, PackStore, DayPasses, PinPointer, CopyIndex,
              RequestDeployment, LockDeployment, DeploymentCaptures, EndDeployment, backupVars
  <2> QED  BY <1>0, <2>1 DEF JobOK
<1> QED  BY <1>1, <1>2, <1>3, <1>4, <1>5, <1>6, <1>7, <1>8 DEF BackupNext, Capturing, JobStep

LEMMA BackupStep == BackupInv /\ [BackupNext]_backupVars => BackupInv'
BY BackupTypeStep, LiveStep, CaptureStep, PointsStep, JobStepOK DEF BackupInv

LEMMA InitialBackup == BackupInit => BackupInv
<1> SUFFICES ASSUME BackupInit PROVE BackupInv
  OBVIOUS
<1>1. BackupTypes
  BY RestTypes DEF BackupInit, BackupTypes, StatusState
<1>2. \A i \in Points : point[i].phase = "absent"
  BY RestTypes DEF BackupInit
<1> QED  BY <1>1, <1>2, RestTypes DEF BackupInit, BackupInv, LiveOK, CaptureOK, PointsOK, JobOK

\* Captures, jobs, deployments and the queue keep their types; in particular the job and
\* its capture stay together.
THEOREM BackupTypeCorrect == BackupSpec => []BackupTypeOK
<1>1. BackupInv => BackupTypeOK
  BY BackupTypesOK DEF BackupInv
<1> QED  BY InitialBackup, BackupStep, <1>1, PTL DEF BackupSpec

\* For any number of snapshots, publishers and packers beside it: a capture finds the
\* artifact of the pointer it pinned.
THEOREM CapturesFindTheirSnapshot == BackupSpec => []CapturesAreWhole
<1>1. BackupInv => CapturesAreWhole
  BY DEF BackupInv, CaptureOK, CapturesAreWhole
<1> QED  BY InitialBackup, BackupStep, <1>1, PTL DEF BackupSpec

\* Whatever yields, fails or is killed: a queued point has its tree or its manifest, and
\* the one that the status calls the last backup was verified.
THEOREM QueuedPointsSurvive == BackupSpec => []PointsSurvive
<1>1. BackupInv => PointsSurvive
  <2> SUFFICES ASSUME BackupInv, NEW i \in Points
               PROVE  /\ point[i].phase # "absent" => point[i].tree \/ point[i].manifest
                      /\ status.last = i => point[i].manifest
    BY DEF PointsSurvive
  <2>1. point[i].phase \in {"absent", "queued", "archived"} /\ i # 0
    BY DEF BackupInv, BackupTypes, PointState, Points
  <2> QED  BY <2>1 DEF BackupInv, PointsOK
<1> QED  BY InitialBackup, BackupStep, <1>1, PTL DEF BackupSpec
==============================================================================
