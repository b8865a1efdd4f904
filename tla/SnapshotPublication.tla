------------------------- MODULE SnapshotPublication -------------------------
(***************************************************************************)
(* The snapshot.publish stage and the files it writes.  A publisher reads  *)
(* the latest snapshot, merges its refresh into it, stores the merged      *)
(* artifacts, writes a manifest, and replaces the pointer latest.json.     *)
(* Every file is written to a temporary name and renamed, so each write is *)
(* one step; between any two of them the process can die or raise.  No     *)
(* step looks at the lease: publishers are kept apart before they begin    *)
(* only, by the one refresh loop of the worker process and by the lease of *)
(* the job it claimed.  Both are seen here as one lease, whose holder a    *)
(* publisher must become to begin.                                         *)
(*                                                                         *)
(* The nine mergeable research artifacts are merged alike and stand as one *)
(* (rows and their clocks), and those of a broker sync as another, known   *)
(* by the number of the refresh that produced them; 0 is an absent one.    *)
(***************************************************************************)
EXTENDS Naturals

CONSTANTS
    Publisher,     \* workers that may execute refresh jobs
    NoPublisher,   \* the lease is free
    Ticker,        \* securities on the watchlist
    MaxRefreshes,  \* bound: refreshes that reach their publication stage
    MaxLosses      \* bound: leases lost by a publisher that goes on

ASSUME PublicationAssumption ==
    /\ NoPublisher \notin Publisher
    /\ MaxRefreshes \in Nat
    /\ MaxLosses \in Nat

VARIABLES
    begun,     \* refreshes begun; numbers them, their rows and their manifests
    holder,    \* the publisher that holds the lease
    losses,    \* leases lost so far
    pc,        \* pc[p]: the next step of TypedPublishSnapshotStage.run
    refresh,   \* refresh[p]: what the earlier stages of p's job hand to it
    previous,  \* previous[p]: the snapshot p merges into
    stored,    \* artifacts in the content addressed store
    runs,      \* refreshes whose manifest is written
    manifest,  \* manifest[n]: the snapshot in the manifest of refresh n
    pointer    \* the refresh latest.json names, 0 before the first

files == <<stored, runs, manifest, pointer>>
lease == <<holder, losses>>
vars == <<begun, lease, pc, refresh, previous, files>>

Refreshes == 1..MaxRefreshes
Number == 0..MaxRefreshes
Clock == {"none", "available", "stale"}
\* Until a refresh researches, there is no artifact; its artifact may have no rows.
NoResearch ==
    [present |-> FALSE, rows |-> [t \in Ticker |-> 0], clock |-> [t \in Ticker |-> "none"]]
\* A ticker asked for in vain that never had a row is "missing".
Research == {NoResearch} \cup
    {r \in [present : {TRUE}, rows : [Ticker -> Number], clock : [Ticker -> Clock \cup {"missing"}]] :
        \A t \in Ticker : r.clock[t] = "missing" => r.rows[t] = 0}
Coverage == [Ticker -> Clock]
Snapshot == [research : Research, coverage : Coverage, accounts : Number]

NoCoverage == NoResearch.clock
Empty == [research |-> NoResearch, coverage |-> NoCoverage, accounts |-> 0]

Refresh == [scope : {"accounts", "research", "all"}, number : Number,
            asked : SUBSET Ticker, got : SUBSET Ticker]
NoRefresh == [scope |-> "all", number |-> 0, asked |-> {}, got |-> {}]

Researches(u) == u.scope \in {"research", "all"}
Syncs(u) == u.scope \in {"accounts", "all"}

\* The stored artifacts a snapshot refers to.
ResearchArtifact(r) == {[key |-> "research", value |-> r]}
CoverageArtifact(c) == {[key |-> "coverage", value |-> c]}
AccountsArtifact(n) == IF n = 0 THEN {} ELSE {[key |-> "accounts", value |-> n]}
Artifacts(s) ==
    (IF s.research = NoResearch THEN {}
     ELSE ResearchArtifact(s.research) \cup CoverageArtifact(s.coverage))
    \cup AccountsArtifact(s.accounts)

PublicationTypeOK ==
    /\ begun \in Number
    /\ holder \in Publisher \cup {NoPublisher}
    /\ losses \in 0..MaxLosses
    /\ pc \in [Publisher -> {"idle", "read", "merge", "manifest", "pointer"}]
    /\ refresh \in [Publisher -> Refresh]
    /\ previous \in [Publisher -> Snapshot]
    /\ stored \subseteq [key : {"research"}, value : Research]
                   \cup [key : {"coverage"}, value : Coverage]
                   \cup [key : {"accounts"}, value : Number]
    /\ runs \subseteq Refreshes
    /\ manifest \in [Refreshes -> Snapshot]
    /\ pointer \in Number

Init ==
    /\ begun = 0
    /\ holder = NoPublisher
    /\ losses = 0
    /\ pc = [p \in Publisher |-> "idle"]
    /\ refresh = [p \in Publisher |-> NoRefresh]
    /\ previous = [p \in Publisher |-> Empty]
    /\ stored = {}
    /\ runs = {}
    /\ manifest = [n \in Refreshes |-> Empty]
    /\ pointer = 0
-----------------------------------------------------------------------------
\* What SnapshotStore.latest() returns; nothing before the first publication.
Latest == IF pointer = 0 THEN Empty ELSE manifest[pointer]

\* The research artifact of this refresh alone.
Payload(u) ==
    [present |-> TRUE,
     rows |-> [t \in Ticker |-> IF t \in u.got THEN u.number ELSE 0],
     clock |-> [t \in Ticker |-> IF t \in u.got THEN "available" ELSE "none"]]

FaultyMergeRows(old, u) ==  \* asked for but not found: dropped
    [present |-> TRUE,
     rows |-> [t \in Ticker |-> IF t \in u.asked THEN Payload(u).rows[t] ELSE old.rows[t]],
     clock |-> [t \in Ticker |-> IF t \in u.asked THEN Payload(u).clock[t] ELSE old.clock[t]]]

\* row_clocks(): the clocks of the rows there are.
RowClocks(r) == [t \in Ticker |-> IF r.rows[t] = 0 THEN "none" ELSE r.clock[t]]

\* merge_rows(): old rows without a new one stay; those asked for turn stale.
MergeRows(old, u) ==
    [present |-> TRUE,
     rows |-> [t \in Ticker |-> IF t \in u.got THEN u.number ELSE old.rows[t]],
     clock |-> [t \in Ticker |->
                   IF t \in u.got THEN "available"
                   ELSE IF t \in u.asked /\ old.rows[t] # 0 THEN "stale"
                   ELSE IF t \in u.asked THEN "missing"
                   ELSE RowClocks(old)[t]]]

\* _merge_partial_research() and the update of refs_by_key.
MergedResearch(s, u) ==
    IF ~Researches(u) THEN s.research
    ELSE IF s.research = NoResearch THEN Payload(u)
    ELSE MergeRows(s.research, u)
MergedAccounts(s, u) == IF Syncs(u) THEN u.number ELSE s.accounts

FaultyMergedCoverage(s, u) ==  \* derived from the new rows, not the merged ones
    IF Researches(u) THEN RowClocks(Payload(u)) ELSE s.coverage

\* The coverage artifact: the clocks of the rows that will be published.
MergedCoverage(s, u) ==
    IF Researches(u) THEN RowClocks(MergedResearch(s, u)) ELSE s.coverage

\* The snapshot p is about to publish.
Draft(p) ==
    [research |-> MergedResearch(previous[p], refresh[p]),
     coverage |-> MergedCoverage(previous[p], refresh[p]),
     accounts |-> MergedAccounts(previous[p], refresh[p])]

Goto(p, label) == pc' = [pc EXCEPT ![p] = label]

\* The stage is over and its locals are gone.
Leave(p) ==
    /\ Goto(p, "idle")
    /\ refresh' = [refresh EXCEPT ![p] = NoRefresh]
    /\ previous' = [previous EXCEPT ![p] = Empty]
-----------------------------------------------------------------------------
\* A worker holds a refresh job whose stages before the last have stored their
\* artifacts: an account sync, research on some tickers with results for some.
\* Without a ticker to ask for, the research stages fail ("empty_universe").
Begin(p) ==
    /\ pc[p] = "idle"
    /\ holder = NoPublisher
    /\ begun < MaxRefreshes
    /\ begun' = begun + 1
    /\ holder' = p
    /\ \E scope \in {"accounts", "research", "all"} :
       \E asked \in {a \in SUBSET Ticker : a = {} <=> scope = "accounts"} :
        \E got \in SUBSET asked :
            LET u == [scope |-> scope, number |-> begun + 1, asked |-> asked, got |-> got]
            IN  /\ refresh' = [refresh EXCEPT ![p] = u]
                /\ stored' = stored
                     \cup (IF Researches(u) THEN ResearchArtifact(Payload(u)) ELSE {})
                     \cup (IF Syncs(u) THEN AccountsArtifact(u.number) ELSE {})
    /\ Goto(p, "read")
    /\ UNCHANGED <<losses, previous, runs, manifest, pointer>>

ReadLatest(p) ==
    /\ pc[p] = "read"
    /\ previous' = [previous EXCEPT ![p] = Latest]
    /\ Goto(p, "merge")
    /\ UNCHANGED <<begun, lease, refresh, files>>

FaultyMerge(p) ==  \* the coverage artifact is not stored
    /\ pc[p] = "merge"
    /\ stored' = stored \cup
         (IF Researches(refresh[p]) THEN ResearchArtifact(Draft(p).research) ELSE {})
    /\ Goto(p, "manifest")
    /\ UNCHANGED <<begun, lease, refresh, previous, runs, manifest, pointer>>

\* The merged artifacts and the coverage are stored.
Merge(p) ==
    /\ pc[p] = "merge"
    /\ stored' = stored \cup
         (IF Researches(refresh[p])
          THEN ResearchArtifact(Draft(p).research) \cup CoverageArtifact(Draft(p).coverage)
          ELSE {})
    /\ Goto(p, "manifest")
    /\ UNCHANGED <<begun, lease, refresh, previous, runs, manifest, pointer>>

\* publish(): the manifest goes to a directory of its own ...
WriteManifest(p) ==
    /\ pc[p] = "manifest"
    /\ runs' = runs \cup {refresh[p].number}
    /\ manifest' = [manifest EXCEPT ![refresh[p].number] = Draft(p)]
    /\ Goto(p, "pointer")
    /\ UNCHANGED <<begun, lease, refresh, previous, stored, pointer>>

\* ... and latest.json is replaced; the job is then completed and its lease free.
WritePointer(p) ==
    /\ pc[p] = "pointer"
    /\ pointer' = refresh[p].number
    /\ Leave(p)
    /\ holder' = IF holder = p THEN NoPublisher ELSE holder
    /\ UNCHANGED <<begun, losses, stored, runs, manifest>>

\* The process dies, or the stage raises, between any two writes.
Abandon(p) ==
    /\ pc[p] # "idle"
    /\ Leave(p)
    /\ UNCHANGED <<begun, lease, files>>

\* The lease of a dead publisher runs out, or that of a slow one is lost.
LeaseEnds ==
    /\ holder # NoPublisher
    /\ \/ pc[holder] = "idle" /\ UNCHANGED losses
       \/ pc[holder] # "idle" /\ losses < MaxLosses /\ losses' = losses + 1
    /\ holder' = NoPublisher
    /\ UNCHANGED <<begun, pc, refresh, previous, files>>

Publish(p) ==
    \/ Begin(p) \/ ReadLatest(p) \/ Merge(p) \/ WriteManifest(p) \/ WritePointer(p)
    \/ Abandon(p)

Next == LeaseEnds \/ \E p \in Publisher : Publish(p)

Spec == Init /\ [][Next]_vars
-----------------------------------------------------------------------------
\* "They can never observe a half-published run" (snapshots.py:5-8): whatever
\* dies when, the pointer names a written manifest, and every manifest in the
\* store refers to stored artifacts only.
SnapshotsComplete ==
    /\ pointer \in runs \cup {0}
    /\ \A n \in runs : Artifacts(manifest[n]) \subseteq stored

\* The artifacts of one snapshot belong together: its coverage lists exactly the
\* rows of its research artifact, with their clocks, whichever refreshes the two
\* artifacts come from.
CoverageDescribesRows ==
    \A n \in runs, t \in Ticker :
        manifest[n].coverage[t] = IF manifest[n].research.rows[t] = 0 THEN "none"
                                  ELSE manifest[n].research.clock[t]

\* "Preserve rows for tickers a partial research refresh did not touch"
\* (research_stages.py:750): a publication changes a row only to its own.
UntouchedRowsSurvive ==
    [][\A t \in Ticker :
          Latest'.research.rows[t] \in {Latest.research.rows[t], pointer'}]_vars

\* As long as no publisher has outlived its lease, a reader of the latest snapshot
\* sees a register that refreshes update at once.
Register == INSTANCE SnapshotRegister WITH
    Number <- Refreshes, rows <- Latest.research.rows, clock <- Latest.coverage,
    accounts <- Latest.accounts
ImplementsRegister ==
    Register!Init /\ [][losses = 0 => Register!Next]_(Register!latest)
=============================================================================
