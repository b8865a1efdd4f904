---------------------------- MODULE AlertMonitor ----------------------------
(***************************************************************************)
(* The alert monitor.  A thread wakes up every half minute, a request can  *)
(* force the same run beside it.  Each run loads the state file, works on  *)
(* its own copy across a download and saves the copy, twice, over whatever *)
(* the other has saved meanwhile; no lock spans a run.  What a run raises  *)
(* outside its try ends the thread: the loop has no handler, and nothing   *)
(* but a restart of the API process starts it again.                       *)
(*                                                                         *)
(* A quote or alert is a ticker with the snapshot it was obtained for.     *)
(* Every instrument scored has an alert.  The two refresh intervals are    *)
(* the flags heldFresh and othersFresh of the state, which age.  The phase *)
(* and the last error, which a run only reports, are left out.             *)
(***************************************************************************)
EXTENDS Naturals

CONSTANTS
    Instrument,
    MonitorSnapshots, \* bound: snapshots published
    HeldIn,           \* HeldIn[n]: the tickers that snapshot n has a position in
    MaxOutages        \* bound: reads, saves, downloads and scorings that fail, and restarts

ASSUME MonitorAssumption ==
    /\ MonitorSnapshots \in Nat \ {0} /\ MaxOutages \in Nat
    /\ HeldIn \in [1..MonitorSnapshots -> SUBSET Instrument]

VARIABLES
    newest,    \* the run id of latest.json, 0 when there is none
    watching,  \* the instruments: the watchlist
    monitor,   \* state/alert-monitor.json
    visit,     \* visit[w]: the run of w, with the copy it works on
    outages

monitorVars == <<newest, watching, monitor, visit, outages>>

Watcher == {"thread", "request"}
Observation == Instrument \X (1..MonitorSnapshots)
MonitorState == [run : 0..MonitorSnapshots, quotes : SUBSET Observation, alerts : SUBSET Observation,
                 heldFresh : BOOLEAN, othersFresh : BOOLEAN]
NewState == [run |-> 0, quotes |-> {}, alerts |-> {}, heldFresh |-> FALSE, othersFresh |-> FALSE]
NoVisit == [at |-> "rest", open |-> FALSE, copy |-> NewState, snap |-> 0, items |-> {}, asked |-> {}]

MonitorTypeOK ==
    /\ newest \in 0..MonitorSnapshots /\ watching \subseteq Instrument
    /\ monitor \in MonitorState
    /\ visit \in [Watcher -> [at : {"rest", "check", "download", "score", "ended"}, open : BOOLEAN,
                              copy : MonitorState, snap : 0..MonitorSnapshots, items : SUBSET Instrument, asked : SUBSET Instrument]]
    /\ outages \in 0..MaxOutages

MonitorInit ==
    /\ newest = 0 /\ watching = Instrument
    /\ monitor = NewState /\ visit = [w \in Watcher |-> NoVisit] /\ outages = 0
-----------------------------------------------------------------------------
\* A run looks at the time, which can be inside the monitoring window, and loads the
\* file, or begins with an empty state when the file cannot be read ...
Loaded(w, inHours, copy) ==
    /\ visit[w].at = "rest"
    /\ visit' = [visit EXCEPT ![w] = [NoVisit EXCEPT !.at = "check", !.open = inHours \/ w = "request",
                                                    !.copy = copy]]
    /\ UNCHANGED <<newest, watching, monitor>>
LoadState(w, inHours) == Loaded(w, inHours, monitor) /\ UNCHANGED outages

Outage == outages < MaxOutages /\ outages' = outages + 1
LoadRefused(w, inHours) == Loaded(w, inHours, NewState) /\ Outage

\* save() of the copy, which ends the run unless it says otherwise.
SaveAndRest(w, copy) ==
    /\ monitor' = copy
    /\ visit' = [visit EXCEPT ![w] = NoVisit]

\* ... and has nothing to do out of hours, without a snapshot, or when nothing is due and
\* the state is that of the newest snapshot.
DueTickers(copy) ==
    {t \in watching : ~copy.othersFresh \/ (~copy.heldFresh /\ t \in HeldIn[newest])}
FaultyIdle(copy) == DueTickers(copy) = {}  \* the new snapshot waits until something is due
Idle(copy) == DueTickers(copy) = {} /\ copy.run = newest

NothingToDo(w) ==
    /\ visit[w].at = "check"
    /\ ~visit[w].open \/ newest = 0 \/ Idle(visit[w].copy)
    /\ SaveAndRest(w, visit[w].copy)
    /\ UNCHANGED <<newest, watching, outages>>

FaultyCleared(copy, snap) == copy  \* what was seen with another snapshot is kept
Cleared(copy, snap) ==
    IF copy.run = snap THEN copy ELSE [copy EXCEPT !.quotes = {}, !.alerts = {}]

\* Otherwise it asks for what is due, or for everything after a new snapshot.
BeginDownload(w) ==
    LET copy == visit[w].copy IN
    /\ visit[w].at = "check"
    /\ visit[w].open
    /\ newest # 0
    /\ ~Idle(copy)
    /\ visit' = [visit EXCEPT ![w] =
          [at |-> "download", open |-> TRUE, copy |-> Cleared(copy, newest), snap |-> newest, items |-> watching,
           asked |-> IF copy.run = newest THEN DueTickers(copy) ELSE watching]]
    /\ UNCHANGED <<newest, watching, monitor, outages>>

\* The copy once the prices `got` have come.
Observed(w, got) ==
    LET v == visit[w]
        held == HeldIn[v.snap] \cap v.items
    IN  [v.copy EXCEPT
            !.quotes = {q \in @ : q[1] \notin got} \cup (got \X {v.snap}),
            !.heldFresh = @ \/ v.asked \cap held # {},
            !.othersFresh = @ \/ v.asked \ held # {} \/ v.asked = v.items,
            !.run = v.snap]

\* The prices that come, perhaps not all, are saved before the alerts are made.
Download(w) ==
    /\ visit[w].at = "download"
    /\ \E got \in SUBSET visit[w].asked :
          /\ monitor' = Observed(w, got)
          /\ visit' = [visit EXCEPT ![w].at = "score", ![w].copy = Observed(w, got)]
    /\ UNCHANGED <<newest, watching, outages>>

Score(w) ==
    /\ visit[w].at = "score"
    /\ SaveAndRest(w, [visit[w].copy EXCEPT !.alerts = visit[w].items \X {visit[w].snap}])
    /\ UNCHANGED <<newest, watching, outages>>

\* What raises inside the try, from the list of instruments to the scoring, ends the run
\* with what the copy holds by then (and the phase "error", which nothing here reads).
RunRaises(w) ==
    /\ \/ visit[w].at \in {"download", "score"}
       \/ visit[w].at = "check" /\ visit[w].open /\ newest # 0 /\ ~Idle(visit[w].copy)
    /\ Outage
    /\ SaveAndRest(w, visit[w].copy)
    /\ UNCHANGED <<newest, watching>>

\* What raises outside it, the read of the manifest or of the watchlist and every save
\* that ends a run, leaves the file as it is.  A request is answered with the error; the
\* thread is over.
RunDies(w) ==
    /\ visit[w].at \in {"check", "download", "score"}
    /\ Outage
    /\ visit' = [visit EXCEPT ![w] = [NoVisit EXCEPT !.at = IF w = "thread" THEN "ended" ELSE "rest"]]
    /\ UNCHANGED <<newest, watching, monitor>>

\* The API process is restarted with a new thread, in the middle of runs (as an outage) or
\* because the thread has ended.
ApiStarts ==
    /\ Outage \/ (visit["thread"].at = "ended" /\ UNCHANGED outages)
    /\ visit' = [w \in Watcher |-> NoVisit]
    /\ UNCHANGED <<newest, watching, monitor>>
-----------------------------------------------------------------------------
\* Time: an interval passes for the file and for the copies made of it.
IntervalPasses ==
    /\ \/ monitor.heldFresh /\ monitor' = [monitor EXCEPT !.heldFresh = FALSE]
       \/ monitor.othersFresh /\ monitor' = [monitor EXCEPT !.heldFresh = FALSE, !.othersFresh = FALSE]
    /\ visit' = [w \in Watcher |-> [visit[w] EXCEPT !.copy.heldFresh = @ /\ monitor'.heldFresh,
                                                    !.copy.othersFresh = @ /\ monitor'.othersFresh]]
    /\ UNCHANGED <<newest, watching, outages>>

\* A worker publishes a snapshot, the user edits the watchlist.
NewSnapshot ==
    /\ newest < MonitorSnapshots /\ newest' = newest + 1
    /\ UNCHANGED <<watching, monitor, visit, outages>>

EditWatchlist ==
    /\ \E t \in Instrument : watching' = IF t \in watching THEN watching \ {t} ELSE watching \cup {t}
    /\ UNCHANGED <<newest, monitor, visit, outages>>

Visit(w) ==
    \/ \E inHours \in BOOLEAN : LoadState(w, inHours)
    \/ NothingToDo(w) \/ BeginDownload(w) \/ Download(w) \/ Score(w)
MonitorNext ==
    \/ \E w \in Watcher :
          \/ Visit(w) \/ RunRaises(w) \/ RunDies(w)
          \/ \E inHours \in BOOLEAN : LoadRefused(w, inHours)
    \/ ApiStarts \/ IntervalPasses \/ NewSnapshot \/ EditWatchlist

\* The thread goes round while it lives, inside the window again and again, a request that
\* was begun is finished, and intervals pass.  Nothing promises that an ended thread starts
\* again.
MonitorFairness ==
    /\ WF_monitorVars(Visit("thread"))
    /\ SF_monitorVars(LoadState("thread", TRUE))
    /\ WF_monitorVars(visit["request"].at # "rest" /\ Visit("request"))
    /\ WF_monitorVars(IntervalPasses)
MonitorSpec == MonitorInit /\ [][MonitorNext]_monitorVars /\ MonitorFairness
-----------------------------------------------------------------------------
\* Whoever overwrites whom, and whatever raises: the quotes and alerts of the state were
\* obtained for the snapshot it names, never for an earlier one.
OneSnapshotShown == \A o \in monitor.quotes \cup monitor.alerts : o[2] = monitor.run

\* A late run can put the state of an older snapshot back, but not for good: unless the
\* thread has ended for good, the state comes to the newest snapshot and stays there.
MonitorSettles == <>[](monitor.run = newest) \/ <>[](visit["thread"].at = "ended")
=============================================================================
