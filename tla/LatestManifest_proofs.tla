------------------------ MODULE LatestManifest_proofs ------------------------
(*****************************************************************************)
(* Theorems about SnapshotPublication, for any publishers and tickers and    *)
(* any number of refreshes.  Completeness and consistency of snapshots do    *)
(* not depend on the lease; that publication is a register does, and is      *)
(* proved for as long as no publisher has outlived its lease.                *)
(*****************************************************************************)
EXTENDS LatestManifest, TLAPS

USE PublicationAssumption DEF PublicationAssumption

\* A snapshot whose coverage is that of its own rows.
Consistent(s) == s.coverage = RowClocks(s.research)

\* Numbers identify the refreshes under way, and none of them is published yet.
NumbersOK ==
    /\ pointer \in 0..begun /\ runs \subseteq 1..begun
    /\ \A p \in Publisher : pc[p] # "idle" =>
          /\ refresh[p].number \in 1..begun
          /\ refresh[p].got \subseteq refresh[p].asked
          /\ refresh[p].number # pointer
          /\ pc[p] = "pointer" => refresh[p].number \in runs
    /\ \A p, q \in Publisher :
          pc[p] # "idle" /\ pc[q] # "idle" /\ refresh[p].number = refresh[q].number => p = q

\* What a publisher has read and what it is about to write is in the store.
Supplied(p) ==
    /\ Artifacts(previous[p]) \subseteq stored
    /\ pc[p] # "idle" /\ Researches(refresh[p]) =>
          ResearchArtifact(Payload(refresh[p])) \subseteq stored
    /\ pc[p] # "idle" /\ Syncs(refresh[p]) =>
          AccountsArtifact(refresh[p].number) \subseteq stored
    /\ pc[p] = "manifest" => Artifacts(Draft(p)) \subseteq stored

StoreOK == SnapshotsComplete /\ \A p \in Publisher : Supplied(p)

ConsistentOK ==
    /\ \A n \in runs : Consistent(manifest[n])
    /\ \A p \in Publisher : Consistent(previous[p])

PublicationInv == PublicationTypeOK /\ NumbersOK /\ StoreOK /\ ConsistentOK

LEMMA EmptyIsSnapshot == Empty \in Snapshot /\ Consistent(Empty) /\ Artifacts(Empty) = {}
<1>1. NoResearch \in Research /\ NoCoverage \in Coverage
  BY DEF NoResearch, NoCoverage, Research, Coverage, Clock, Number
<1>2. RowClocks(NoResearch) = NoCoverage
  BY DEF RowClocks, NoResearch, NoCoverage
<1>3. Empty \in Snapshot
  BY <1>1 DEF Empty, Snapshot, Number
<1>4. Consistent(Empty)
  BY <1>2 DEF Empty, Consistent
<1>5. Artifacts(Empty) = {}
  BY DEF Empty, Artifacts, ResearchArtifact, CoverageArtifact, AccountsArtifact
<1> QED
  BY <1>3, <1>4, <1>5

\* An absent artifact has the fields of one without rows.
LEMMA ResearchFields ==
    ASSUME NEW r \in Research, NEW t \in Ticker
    PROVE  /\ r.rows[t] \in Number
           /\ r.clock[t] \in Clock \cup {"missing"}
           /\ r.clock[t] = "missing" => r.rows[t] = 0
<1>1. CASE r = NoResearch
  BY <1>1 DEF NoResearch, Number, Clock
<1>2. CASE r # NoResearch
  BY <1>2 DEF Research
<1> QED BY <1>1, <1>2

LEMMA RowClocksType == ASSUME NEW r \in Research PROVE RowClocks(r) \in Coverage
BY ResearchFields DEF Coverage, Clock, RowClocks

LEMMA PayloadType == ASSUME NEW u \in Refresh PROVE Payload(u) \in Research
BY DEF Refresh, Payload, Research, Number, Clock

LEMMA MergeRowsType ==
    ASSUME NEW old \in Research, NEW u \in Refresh PROVE MergeRows(old, u) \in Research
<1> DEFINE new == MergeRows(old, u)
<1>1. ASSUME NEW t \in Ticker
      PROVE  /\ new.rows[t] \in Number /\ new.clock[t] \in Clock \cup {"missing"}
             /\ new.clock[t] = "missing" => new.rows[t] = 0
  BY ResearchFields DEF Refresh, MergeRows, RowClocks, Clock
<1>2. new.rows = [t \in Ticker |-> new.rows[t]] /\ new.clock = [t \in Ticker |-> new.clock[t]]
  BY DEF MergeRows
<1> HIDE DEF new
<1>3. new.rows \in [Ticker -> Number] /\ new.clock \in [Ticker -> Clock \cup {"missing"}]
  BY <1>1, <1>2
<1>4. new \in [present : {TRUE}, rows : [Ticker -> Number], clock : [Ticker -> Clock \cup {"missing"}]]
  BY <1>3 DEF new, MergeRows
<1>5. new \in Research
  BY <1>1, <1>4 DEF Research
<1> QED BY <1>5 DEF new

\* Merging yields a snapshot, and one consistent if the previous was.
LEMMA DraftType ==
    ASSUME PublicationTypeOK, NEW p \in Publisher
    PROVE  /\ Draft(p) \in Snapshot
           /\ Consistent(previous[p]) => Consistent(Draft(p))
<1>1. previous[p] \in Snapshot /\ refresh[p] \in Refresh
  BY DEF PublicationTypeOK
<1>2. MergedResearch(previous[p], refresh[p]) \in Research
  BY <1>1, PayloadType, MergeRowsType DEF MergedResearch, Snapshot
<1>3. MergedCoverage(previous[p], refresh[p]) \in Coverage
  BY <1>1, <1>2, RowClocksType DEF MergedCoverage, Snapshot
<1>4. MergedAccounts(previous[p], refresh[p]) \in Number
  BY <1>1 DEF MergedAccounts, Snapshot, Refresh
<1>5. Draft(p) \in Snapshot
  BY <1>2, <1>3, <1>4 DEF Draft, Snapshot
<1>6. Consistent(previous[p]) => Consistent(Draft(p))
  BY DEF Consistent, Draft, MergedCoverage, MergedResearch
<1> QED BY <1>5, <1>6

LEMMA LatestType ==
    ASSUME PublicationTypeOK, SnapshotsComplete, ConsistentOK
    PROVE  Latest \in Snapshot /\ Consistent(Latest) /\ Artifacts(Latest) \subseteq stored
<1>1. CASE pointer = 0
  BY <1>1, EmptyIsSnapshot DEF Latest
<1>2. CASE pointer # 0
  <2>1. pointer \in runs
    BY <1>2 DEF SnapshotsComplete
  <2>2. manifest[pointer] \in Snapshot
    BY <2>1 DEF PublicationTypeOK
  <2> QED BY <1>2, <2>1, <2>2 DEF Latest, SnapshotsComplete, ConsistentOK
<1> QED BY <1>1, <1>2
-----------------------------------------------------------------------------
LEMMA InitInv == Init => PublicationInv
<1> SUFFICES ASSUME Init PROVE PublicationInv
  OBVIOUS
<1>1. PublicationTypeOK
  BY EmptyIsSnapshot DEF Init, PublicationTypeOK, Number, Refresh, NoRefresh
<1>2. NumbersOK
  BY DEF Init, NumbersOK
<1>3. StoreOK
  <2>1. SnapshotsComplete
    BY DEF Init, SnapshotsComplete
  <2>2. ASSUME NEW p \in Publisher PROVE Supplied(p)
    BY EmptyIsSnapshot DEF Init, Supplied
  <2> QED BY <2>1, <2>2 DEF StoreOK
<1>4. ConsistentOK
  BY EmptyIsSnapshot DEF Init, ConsistentOK
<1> QED BY <1>1, <1>2, <1>3, <1>4 DEF PublicationInv

\* The refresh u that p begins with, and the artifacts its stages have stored.
BeginsWith(p, u) ==
    /\ u.number = begun + 1
    /\ u.got \subseteq u.asked
    /\ refresh' = [refresh EXCEPT ![p] = u]
    /\ stored' = stored \cup (IF Researches(u) THEN ResearchArtifact(Payload(u)) ELSE {})
                        \cup (IF Syncs(u) THEN AccountsArtifact(u.number) ELSE {})

LEMMA BeginRefresh ==
    ASSUME PublicationTypeOK, NEW p \in Publisher, Begin(p)
    PROVE  \E u \in Refresh : BeginsWith(p, u)
<1>1. PICK scope \in {"accounts", "research", "all"}, asked \in SUBSET Ticker :
        \E got \in SUBSET asked :
          LET u == [scope |-> scope, number |-> begun + 1, asked |-> asked, got |-> got]
          IN  /\ refresh' = [refresh EXCEPT ![p] = u]
              /\ stored' = stored
                   \cup (IF Researches(u) THEN ResearchArtifact(Payload(u)) ELSE {})
                   \cup (IF Syncs(u) THEN AccountsArtifact(u.number) ELSE {})
  BY ZenonT(40) DEF Begin
<1>2. PICK got \in SUBSET asked :
          LET u == [scope |-> scope, number |-> begun + 1, asked |-> asked, got |-> got]
          IN  /\ refresh' = [refresh EXCEPT ![p] = u]
              /\ stored' = stored
                   \cup (IF Researches(u) THEN ResearchArtifact(Payload(u)) ELSE {})
                   \cup (IF Syncs(u) THEN AccountsArtifact(u.number) ELSE {})
  BY <1>1
<1> DEFINE u == [scope |-> scope, number |-> begun + 1, asked |-> asked, got |-> got]
<1>3. u \in Refresh
  BY DEF Begin, PublicationTypeOK, Refresh, Number
<1>4. u.number = begun + 1 /\ u.got \subseteq u.asked
  OBVIOUS
<1> HIDE DEF u
<1>5. BeginsWith(p, u)
  BY <1>2, <1>4 DEF u, BeginsWith
<1> QED
  BY <1>3, <1>5

LEMMA TypeStep == PublicationInv /\ [Next]_vars => PublicationTypeOK'
<1> SUFFICES ASSUME PublicationInv, [Next]_vars PROVE PublicationTypeOK'
  OBVIOUS
<1>0. PublicationTypeOK /\ NumbersOK
  BY DEF PublicationInv
<1>1. ASSUME NEW p \in Publisher, Begin(p) PROVE PublicationTypeOK'
  <2>1. PICK u \in Refresh : BeginsWith(p, u)
    BY <1>0, <1>1, BeginRefresh
  <2>2. u.number \in Number /\ begun + 1 \in Number
    BY <1>0, <1>1 DEF Begin, PublicationTypeOK, Refresh, Number
  <2>3. Payload(u) \in Research
    BY PayloadType
  <2>5. stored' \subseteq stored \cup {[key |-> "research", value |-> Payload(u)]}
                                \cup {[key |-> "accounts", value |-> u.number]}
    BY <2>1 DEF BeginsWith, ResearchArtifact, AccountsArtifact
  <2> QED
    BY <1>0, <1>1, <2>1, <2>2, <2>3, <2>5 DEF BeginsWith, Begin, Goto, PublicationTypeOK
<1>2. ASSUME NEW p \in Publisher, ReadLatest(p) PROVE PublicationTypeOK'
  <2>1. Latest \in Snapshot
    BY LatestType DEF PublicationInv, StoreOK
  <2> QED
    BY <1>0, <1>2, <2>1 DEF ReadLatest, Goto, lease, files, PublicationTypeOK
<1>3. ASSUME NEW p \in Publisher, Merge(p) PROVE PublicationTypeOK'
  <2>1. Draft(p).research \in Research /\ Draft(p).coverage \in Coverage
    BY <1>0, DraftType DEF Snapshot
  <2>2. stored' \subseteq stored \cup {[key |-> "research", value |-> Draft(p).research]}
                                \cup {[key |-> "coverage", value |-> Draft(p).coverage]}
    BY <1>3 DEF Merge, ResearchArtifact, CoverageArtifact
  <2> QED
    BY <1>0, <1>3, <2>1, <2>2 DEF Merge, Goto, lease, PublicationTypeOK
<1>4. ASSUME NEW p \in Publisher, WriteManifest(p) PROVE PublicationTypeOK'
  <2>1. Draft(p) \in Snapshot /\ refresh[p].number \in Refreshes
    BY <1>0, <1>4, DraftType DEF WriteManifest, NumbersOK, PublicationTypeOK, Number, Refreshes
  <2> QED
    BY <1>0, <1>4, <2>1 DEF WriteManifest, Goto, lease, PublicationTypeOK
<1>5. ASSUME NEW p \in Publisher, WritePointer(p) PROVE PublicationTypeOK'
  <2>1. refresh[p].number \in Number /\ NoRefresh \in Refresh
    BY <1>0 DEF PublicationTypeOK, Refresh, NoRefresh, Number
  <2> QED
    BY <1>0, <1>5, <2>1, EmptyIsSnapshot DEF WritePointer, Leave, Goto, PublicationTypeOK
<1>6. ASSUME NEW p \in Publisher, Abandon(p) PROVE PublicationTypeOK'
  <2>1. NoRefresh \in Refresh
    BY DEF Refresh, NoRefresh, Number
  <2> QED
    BY <1>0, <1>6, <2>1, EmptyIsSnapshot DEF Abandon, Leave, Goto, lease, files, PublicationTypeOK
<1>7. CASE LeaseEnds
  BY <1>0, <1>7 DEF LeaseEnds, files, PublicationTypeOK
<1>8. CASE UNCHANGED vars
  BY <1>0, <1>8 DEF vars, lease, files, PublicationTypeOK
<1> QED
  BY <1>1, <1>2, <1>3, <1>4, <1>5, <1>6, <1>7, <1>8 DEF Next, Publish

LEMMA NumbersStep == PublicationInv /\ [Next]_vars => NumbersOK'
<1> SUFFICES ASSUME PublicationInv, [Next]_vars PROVE NumbersOK'
  OBVIOUS
<1>0. PublicationTypeOK /\ NumbersOK
  BY DEF PublicationInv
<1> USE <1>0 DEF NumbersOK
<1>1. ASSUME NEW p \in Publisher, Begin(p) PROVE NumbersOK'
  <2>1. PICK u \in Refresh : BeginsWith(p, u)
    BY <1>1, BeginRefresh
  <2>2. begun \in Nat /\ begun' = begun + 1 /\ pointer' = pointer /\ runs' = runs
    BY <1>1 DEF Begin, PublicationTypeOK, Number
  <2>3. refresh' = [refresh EXCEPT ![p] = u] /\ u.number = begun + 1 /\ u.got \subseteq u.asked
    BY <2>1 DEF BeginsWith
  <2>4. pc[p] = "idle" /\ pc' = [pc EXCEPT ![p] = "read"]
    BY <1>1 DEF Begin, Goto
  <2>5. pointer' \in 0..begun' /\ runs' \subseteq 1..begun'
    BY <2>2
  <2>6. ASSUME NEW q \in Publisher, pc'[q] # "idle"
        PROVE  /\ refresh'[q].number \in 1..begun'
               /\ refresh'[q].got \subseteq refresh'[q].asked
               /\ refresh'[q].number # pointer'
               /\ pc'[q] = "pointer" => refresh'[q].number \in runs'
               /\ q # p => refresh'[q] = refresh[q] /\ refresh[q].number \in 1..begun
                           /\ pc[q] # "idle"
    <3>1. CASE q = p
      BY <3>1, <2>2, <2>3, <2>4 DEF PublicationTypeOK
    <3>2. CASE q # p
      BY <3>2, <2>2, <2>3, <2>4, <2>6 DEF PublicationTypeOK
    <3> QED BY <3>1, <3>2
  <2>7. ASSUME NEW q \in Publisher, NEW r \in Publisher, pc'[q] # "idle", pc'[r] # "idle",
               refresh'[q].number = refresh'[r].number
        PROVE  q = r
    BY <2>2, <2>3, <2>6, <2>7 DEF PublicationTypeOK
  <2> QED
    BY <2>5, <2>6, <2>7
<1>2. ASSUME NEW p \in Publisher, ReadLatest(p) \/ Merge(p) PROVE NumbersOK'
  BY <1>2 DEF ReadLatest, Merge, Goto, lease, files, PublicationTypeOK
<1>3. ASSUME NEW p \in Publisher, WriteManifest(p) PROVE NumbersOK'
  BY <1>3 DEF WriteManifest, Goto, lease, PublicationTypeOK
<1>4. ASSUME NEW p \in Publisher, WritePointer(p) PROVE NumbersOK'
  <2>1. pc[p] = "pointer" /\ pointer' = refresh[p].number /\ begun' = begun /\ runs' = runs
    BY <1>4 DEF WritePointer
  <2>2. ASSUME NEW q \in Publisher, pc'[q] # "idle"
        PROVE  q # p /\ pc'[q] = pc[q] /\ refresh'[q] = refresh[q]
    BY <1>4, <2>2 DEF WritePointer, Leave, Goto, PublicationTypeOK
  <2>3. pointer' \in 0..begun'
    BY <2>1 DEF PublicationTypeOK, Number
  <2>4. ASSUME NEW q \in Publisher, pc'[q] # "idle" PROVE refresh'[q].number # pointer'
    BY <2>1, <2>2, <2>4
  <2> QED
    BY <2>1, <2>2, <2>3, <2>4
<1>5. ASSUME NEW p \in Publisher, Abandon(p) PROVE NumbersOK'
  <2>1. ASSUME NEW q \in Publisher, pc'[q] # "idle"
        PROVE  q # p /\ pc'[q] = pc[q] /\ refresh'[q] = refresh[q]
    BY <1>5, <2>1 DEF Abandon, Leave, Goto, PublicationTypeOK
  <2>2. begun' = begun /\ pointer' = pointer /\ runs' = runs
    BY <1>5 DEF Abandon, files
  <2> QED
    BY <2>1, <2>2
<1>6. CASE LeaseEnds
  BY <1>6 DEF LeaseEnds, files
<1>7. CASE UNCHANGED vars
  BY <1>7 DEF vars, files
<1> QED
  BY <1>1, <1>2, <1>3, <1>4, <1>5, <1>6, <1>7 DEF Next, Publish

LEMMA NumberIsRefresh ==
    ASSUME PublicationTypeOK, NumbersOK, NEW p \in Publisher, pc[p] # "idle"
    PROVE  refresh[p].number \in Refreshes /\ refresh[p].number # 0
BY DEF PublicationTypeOK, NumbersOK, Number, Refreshes

\* What WriteManifest leaves of the manifests.
LEMMA Manifests ==
    ASSUME PublicationTypeOK, NumbersOK, NEW p \in Publisher, WriteManifest(p)
    PROVE  /\ manifest'[refresh[p].number] = Draft(p)
           /\ \A n \in runs' : n # refresh[p].number => n \in runs /\ manifest'[n] = manifest[n]
<1>1. refresh[p].number \in Refreshes
  BY NumberIsRefresh DEF WriteManifest
<1> QED
  BY <1>1 DEF WriteManifest, PublicationTypeOK

LEMMA ConsistentStep == PublicationInv /\ [Next]_vars => ConsistentOK'
<1> SUFFICES ASSUME PublicationInv, [Next]_vars PROVE ConsistentOK'
  OBVIOUS
<1>0. PublicationTypeOK /\ NumbersOK /\ StoreOK /\ ConsistentOK
  BY DEF PublicationInv
<1> DEFINE Kept == UNCHANGED <<previous, runs, manifest>>
<1>1. Kept => ConsistentOK'
  BY <1>0 DEF ConsistentOK, Consistent, RowClocks
<1>2. ASSUME NEW p \in Publisher, ReadLatest(p) PROVE ConsistentOK'
  <2>1. Consistent(Latest)
    BY <1>0, LatestType DEF StoreOK
  <2> QED
    BY <1>0, <1>2, <2>1 DEF ReadLatest, files, ConsistentOK, PublicationTypeOK, Consistent, RowClocks
<1>3. ASSUME NEW p \in Publisher, WriteManifest(p) PROVE ConsistentOK'
  <2>1. Consistent(Draft(p))
    BY <1>0, DraftType DEF ConsistentOK
  <2>2. \A n \in runs' : (manifest'[n] = manifest[n] /\ n \in runs) \/ manifest'[n] = Draft(p)
    BY <1>0, <1>3, Manifests
  <2> QED
    BY <1>0, <1>3, <2>1, <2>2 DEF WriteManifest, ConsistentOK, Consistent, RowClocks
<1>4. ASSUME NEW p \in Publisher, WritePointer(p) \/ Abandon(p) PROVE ConsistentOK'
  <2>1. runs' = runs /\ manifest' = manifest /\ previous' = [previous EXCEPT ![p] = Empty]
    BY <1>4 DEF WritePointer, Abandon, Leave, files
  <2> QED
    BY <1>0, <2>1, EmptyIsSnapshot DEF ConsistentOK, PublicationTypeOK, Consistent, RowClocks
<1>5. ASSUME NEW p \in Publisher, Begin(p) \/ Merge(p) PROVE Kept
  BY <1>5 DEF Begin, Merge
<1>6. ASSUME LeaseEnds \/ UNCHANGED vars PROVE Kept
  BY <1>6 DEF LeaseEnds, files, vars
<1> QED
  BY <1>1, <1>2, <1>3, <1>4, <1>5, <1>6 DEF Next, Publish

LEMMA SuppliedStays ==
    ASSUME NEW q \in Publisher, Supplied(q), stored \subseteq stored',
           pc'[q] = pc[q], refresh'[q] = refresh[q], previous'[q] = previous[q]
    PROVE  Supplied(q)'
<1>1. Draft(q)' = Draft(q)
  BY DEF Draft
<1> QED
  BY <1>1 DEF Supplied

LEMMA CompleteStays ==
    ASSUME SnapshotsComplete, stored \subseteq stored',
           UNCHANGED <<runs, manifest, pointer>>
    PROVE  SnapshotsComplete'
BY DEF SnapshotsComplete

\* The account artifact of a draft was stored by an earlier stage or by whoever
\* published the previous snapshot.
LEMMA DraftSupplied ==
    ASSUME PublicationTypeOK, NEW p \in Publisher, Supplied(p), pc[p] # "idle"
    PROVE  Artifacts(Draft(p)) \subseteq stored \cup
             (IF Researches(refresh[p])
              THEN ResearchArtifact(Draft(p).research) \cup CoverageArtifact(Draft(p).coverage)
              ELSE {})
<1>1. AccountsArtifact(Draft(p).accounts) \subseteq stored
  BY DEF Draft, MergedAccounts, Supplied, Artifacts
<1>2. CASE Researches(refresh[p])
  BY <1>1, <1>2 DEF Artifacts
<1>3. CASE ~Researches(refresh[p])
  <2>1. Draft(p).research = previous[p].research /\ Draft(p).coverage = previous[p].coverage
    BY <1>3 DEF Draft, MergedResearch, MergedCoverage
  <2> QED
    BY <1>1, <1>3, <2>1 DEF Artifacts, Supplied
<1> QED
  BY <1>2, <1>3

LEMMA StoreStep == PublicationInv /\ [Next]_vars => StoreOK'
<1> SUFFICES ASSUME PublicationInv, [Next]_vars PROVE StoreOK'
  OBVIOUS
<1>0. PublicationTypeOK /\ NumbersOK /\ StoreOK /\ ConsistentOK
  BY DEF PublicationInv
\* Nothing is ever deleted from the store.
<1>1. stored \subseteq stored'
  BY <1>0 DEF Next, Publish, Begin, ReadLatest, Merge, WriteManifest, WritePointer, Abandon,
              LeaseEnds, files, vars
<1>2. ASSUME NEW p \in Publisher, Begin(p) PROVE StoreOK'
  <2>1. PICK u \in Refresh : BeginsWith(p, u)
    BY <1>0, <1>2, BeginRefresh
  <2>2. SnapshotsComplete'
    BY <1>0, <1>1, <1>2, CompleteStays DEF Begin, StoreOK
  <2>3. refresh'[p] = u /\ pc'[p] = "read" /\ previous' = previous
    BY <1>0, <1>2, <2>1 DEF BeginsWith, Begin, Goto, PublicationTypeOK
  <2>4. /\ Researches(u) => ResearchArtifact(Payload(u)) \subseteq stored'
        /\ Syncs(u) => AccountsArtifact(u.number) \subseteq stored'
    BY <2>1 DEF BeginsWith
  <2>5. Supplied(p)'
    BY <1>0, <1>1, <2>3, <2>4 DEF StoreOK, Supplied
  <2>6. ASSUME NEW q \in Publisher, q # p PROVE Supplied(q)'
    <3>1. refresh'[q] = refresh[q] /\ pc'[q] = pc[q] /\ previous'[q] = previous[q]
      BY <1>0, <1>2, <2>1, <2>6 DEF BeginsWith, Begin, Goto, PublicationTypeOK
    <3> QED
      BY <1>0, <1>1, <3>1, SuppliedStays DEF StoreOK
  <2> QED
    BY <2>2, <2>5, <2>6 DEF StoreOK
<1>3. ASSUME NEW p \in Publisher, ReadLatest(p) PROVE StoreOK'
  <2>1. Artifacts(Latest) \subseteq stored
    BY <1>0, LatestType DEF StoreOK
  <2>2. SnapshotsComplete'
    BY <1>0, <1>1, <1>3, CompleteStays DEF ReadLatest, files, StoreOK
  <2>3. pc'[p] = "merge" /\ refresh' = refresh /\ stored' = stored /\ previous'[p] = Latest
    BY <1>0, <1>3 DEF ReadLatest, Goto, files, PublicationTypeOK
  <2>4. Supplied(p)'
    BY <1>0, <1>3, <2>1, <2>3 DEF ReadLatest, StoreOK, Supplied
  <2>5. ASSUME NEW q \in Publisher, q # p PROVE Supplied(q)'
    <3>1. refresh'[q] = refresh[q] /\ pc'[q] = pc[q] /\ previous'[q] = previous[q]
      BY <1>0, <1>3, <2>5 DEF ReadLatest, Goto, PublicationTypeOK
    <3> QED
      BY <1>0, <1>1, <3>1, SuppliedStays DEF StoreOK
  <2> QED
    BY <2>2, <2>4, <2>5 DEF StoreOK
<1>4. ASSUME NEW p \in Publisher, Merge(p) PROVE StoreOK'
  <2>1. SnapshotsComplete'
    BY <1>0, <1>1, <1>4, CompleteStays DEF Merge, StoreOK
  <2>2. pc'[p] = "manifest" /\ refresh' = refresh /\ previous' = previous
    BY <1>0, <1>4 DEF Merge, Goto, PublicationTypeOK
  <2>3. Draft(p)' = Draft(p)
    BY <2>2 DEF Draft
  <2>4. Artifacts(Draft(p)) \subseteq stored'
    BY <1>0, <1>4, DraftSupplied DEF Merge, StoreOK
  <2>5. Supplied(p)'
    BY <1>0, <1>1, <1>4, <2>2, <2>3, <2>4 DEF Merge, StoreOK, Supplied
  <2>6. ASSUME NEW q \in Publisher, q # p PROVE Supplied(q)'
    <3>1. refresh'[q] = refresh[q] /\ pc'[q] = pc[q] /\ previous'[q] = previous[q]
      BY <1>0, <1>4, <2>6 DEF Merge, Goto, PublicationTypeOK
    <3> QED
      BY <1>0, <1>1, <3>1, SuppliedStays DEF StoreOK
  <2> QED
    BY <2>1, <2>5, <2>6 DEF StoreOK
<1>5. ASSUME NEW p \in Publisher, WriteManifest(p) PROVE StoreOK'
  <2>1. pc[p] = "manifest" /\ pc'[p] = "pointer" /\ stored' = stored /\ pointer' = pointer
    BY <1>0, <1>5 DEF WriteManifest, Goto, PublicationTypeOK
  <2>2. Artifacts(Draft(p)) \subseteq stored
    BY <1>0, <2>1 DEF StoreOK, Supplied
  <2>3. ASSUME NEW n \in runs' PROVE Artifacts(manifest'[n]) \subseteq stored'
    BY <1>0, <1>5, <2>1, <2>2, Manifests DEF StoreOK, SnapshotsComplete
  <2>4. pointer' \in runs' \cup {0}
    BY <1>0, <1>5 DEF WriteManifest, StoreOK, SnapshotsComplete
  <2>5. SnapshotsComplete'
    BY <2>3, <2>4 DEF SnapshotsComplete
  <2>6. Supplied(p)'
    BY <1>0, <1>5, <2>1 DEF WriteManifest, StoreOK, Supplied
  <2>7. ASSUME NEW q \in Publisher, q # p PROVE Supplied(q)'
    <3>1. refresh'[q] = refresh[q] /\ pc'[q] = pc[q] /\ previous'[q] = previous[q]
      BY <1>0, <1>5, <2>7 DEF WriteManifest, Goto, PublicationTypeOK
    <3> QED
      BY <1>0, <1>1, <3>1, SuppliedStays DEF StoreOK
  <2> QED
    BY <2>5, <2>6, <2>7 DEF StoreOK
<1>6. ASSUME NEW p \in Publisher, WritePointer(p) \/ Abandon(p) PROVE StoreOK'
  <2>1. SnapshotsComplete'
    BY <1>0, <1>6 DEF WritePointer, Abandon, files, NumbersOK, StoreOK, SnapshotsComplete
  <2>2. pc'[p] = "idle" /\ previous'[p] = Empty
    BY <1>0, <1>6 DEF WritePointer, Abandon, Leave, Goto, PublicationTypeOK
  <2>3. Supplied(p)'
    BY <2>2, EmptyIsSnapshot DEF Supplied, Artifacts
  <2>4. ASSUME NEW q \in Publisher, q # p PROVE Supplied(q)'
    <3>1. refresh'[q] = refresh[q] /\ pc'[q] = pc[q] /\ previous'[q] = previous[q]
      BY <1>0, <1>6, <2>4 DEF WritePointer, Abandon, Leave, Goto, PublicationTypeOK
    <3> QED
      BY <1>0, <1>1, <3>1, SuppliedStays DEF StoreOK
  <2> QED
    BY <2>1, <2>3, <2>4 DEF StoreOK
<1>7. CASE LeaseEnds \/ UNCHANGED vars
  <2>1. UNCHANGED <<pc, refresh, previous, runs, manifest, pointer>>
    BY <1>7 DEF LeaseEnds, files, vars
  <2> QED
    BY <1>0, <1>1, <2>1, SuppliedStays, CompleteStays DEF StoreOK
<1> QED
  BY <1>2, <1>3, <1>4, <1>5, <1>6, <1>7 DEF Next, Publish

LEMMA Invariance == Spec => []PublicationInv
<1>1. PublicationInv /\ [Next]_vars => PublicationInv'
  BY TypeStep, NumbersStep, StoreStep, ConsistentStep DEF PublicationInv
<1> QED
  BY <1>1, InitInv, PTL DEF Spec

\* Types, for any publishers, tickers and leases.
THEOREM PublicationTypeCorrect == Spec => []PublicationTypeOK
<1>1. PublicationInv => PublicationTypeOK
  BY DEF PublicationInv
<1> QED BY <1>1, Invariance, PTL

\* No crash and no superseded publisher leaves a reader with half a snapshot.
THEOREM SnapshotsAreComplete == Spec => []SnapshotsComplete
<1>1. PublicationInv => SnapshotsComplete
  BY DEF PublicationInv, StoreOK
<1> QED BY <1>1, Invariance, PTL

\* The coverage of every manifest is that of its own rows.
THEOREM CoverageIsConsistent == Spec => []CoverageDescribesRows
<1>1. PublicationInv => CoverageDescribesRows
  <2> SUFFICES ASSUME PublicationInv, NEW n \in runs, NEW t \in Ticker
               PROVE  manifest[n].coverage[t] = IF manifest[n].research.rows[t] = 0 THEN "none"
                                                ELSE manifest[n].research.clock[t]
    BY DEF CoverageDescribesRows
  <2>1. manifest[n].coverage = RowClocks(manifest[n].research)
    BY DEF PublicationInv, ConsistentOK, Consistent
  <2> QED
    BY <2>1 DEF RowClocks
<1> QED BY <1>1, Invariance, PTL
-----------------------------------------------------------------------------
\* With leases that are never lost, one publisher at a time is under way, and
\* nothing has changed since it read the latest snapshot.
LeasedOK ==
    \A p \in Publisher :
        /\ pc[p] # "idle" => holder = p
        /\ pc[p] \in {"merge", "manifest", "pointer"} => previous[p] = Latest
        /\ pc[p] = "pointer" => manifest[refresh[p].number] = Draft(p)

\* Only WritePointer changes what readers see.
LEMMA LatestKept ==
    ASSUME PublicationInv, [Next]_vars, \A p \in Publisher : ~WritePointer(p)
    PROVE  Latest' = Latest
<1>0. PublicationTypeOK /\ NumbersOK /\ SnapshotsComplete
  BY DEF PublicationInv, StoreOK
<1>1. ASSUME NEW p \in Publisher, WriteManifest(p) PROVE Latest' = Latest
  <2>1. pointer' = pointer /\ refresh[p].number # pointer
    BY <1>0, <1>1 DEF WriteManifest, NumbersOK
  <2>2. pointer # 0 => manifest'[pointer] = manifest[pointer]
    BY <1>0, <1>1, <2>1 DEF WriteManifest, SnapshotsComplete, PublicationTypeOK
  <2> QED
    BY <2>1, <2>2 DEF Latest
<1>2. ASSUME UNCHANGED <<manifest, pointer>> PROVE Latest' = Latest
  BY <1>2 DEF Latest
<1>3. ASSUME NEW p \in Publisher, Begin(p) \/ ReadLatest(p) \/ Merge(p) \/ Abandon(p)
      PROVE  UNCHANGED <<manifest, pointer>>
  BY <1>3 DEF Begin, ReadLatest, Merge, Abandon, files
<1>4. ASSUME LeaseEnds \/ UNCHANGED vars PROVE UNCHANGED <<manifest, pointer>>
  BY <1>4 DEF LeaseEnds, files, vars
<1> QED
  BY <1>1, <1>2, <1>3, <1>4 DEF Next, Publish

LEMMA LeasedStep ==
    ASSUME losses' = 0, PublicationInv, LeasedOK, [Next]_vars
    PROVE  LeasedOK'
<1>0. PublicationTypeOK /\ NumbersOK
  BY DEF PublicationInv
\* A step of the holder leaves the others idle.
<1>1. ASSUME NEW p \in Publisher, pc[p] # "idle", Publish(p),
             NEW q \in Publisher, q # p
      PROVE  pc'[q] = "idle"
  <2>1. pc[q] = "idle"
    BY <1>1 DEF LeasedOK
  <2> QED
    BY <1>0, <1>1, <2>1 DEF Publish, Begin, ReadLatest, Merge, WriteManifest, WritePointer,
                            Abandon, Leave, Goto, PublicationTypeOK
<1>2. ASSUME NEW p \in Publisher, Begin(p) PROVE LeasedOK'
  <2>1. \A q \in Publisher : pc[q] = "idle"
    BY <1>2 DEF Begin, LeasedOK
  <2>2. pc' = [pc EXCEPT ![p] = "read"] /\ holder' = p
    BY <1>2 DEF Begin, Goto
  <2> QED
    BY <1>0, <2>1, <2>2 DEF LeasedOK, PublicationTypeOK
<1>3. ASSUME NEW p \in Publisher, ReadLatest(p) PROVE LeasedOK'
  <2>1. pc'[p] = "merge" /\ previous'[p] = Latest /\ holder' = holder /\ pc[p] = "read"
    BY <1>0, <1>3 DEF ReadLatest, Goto, lease, PublicationTypeOK
  <2>2. Latest' = Latest
    BY <1>3, LatestKept DEF ReadLatest, WritePointer, files, Latest
  <2> QED
    BY <1>1, <1>3, <2>1, <2>2 DEF LeasedOK, Publish
<1>4. ASSUME NEW p \in Publisher, Merge(p) PROVE LeasedOK'
  <2>1. pc'[p] = "manifest" /\ previous' = previous /\ holder' = holder /\ pc[p] = "merge"
    BY <1>0, <1>4 DEF Merge, Goto, lease, PublicationTypeOK
  <2>2. Latest' = Latest
    BY <1>4 DEF Merge, Latest
  <2> QED
    BY <1>1, <1>4, <2>1, <2>2 DEF LeasedOK, Publish
<1>5. ASSUME NEW p \in Publisher, WriteManifest(p) PROVE LeasedOK'
  <2>1. pc'[p] = "pointer" /\ previous' = previous /\ holder' = holder /\ refresh' = refresh
    BY <1>0, <1>5 DEF WriteManifest, Goto, lease, PublicationTypeOK
  <2>2. pc[p] = "manifest"
    BY <1>5 DEF WriteManifest
  <2>3. Latest' = Latest
    <3>1. ASSUME NEW q \in Publisher PROVE ~WritePointer(q)
      BY <1>0, <1>5, <2>2, <3>1, <2>1 DEF WritePointer, Leave, Goto, PublicationTypeOK
    <3> QED
      BY <3>1, LatestKept
  <2>4. manifest'[refresh'[p].number] = Draft(p)'
    BY <1>0, <1>5, <2>1, Manifests DEF Draft
  <2> QED
    BY <1>1, <1>5, <2>1, <2>2, <2>3, <2>4 DEF LeasedOK, Publish
<1>6. ASSUME NEW p \in Publisher, WritePointer(p) \/ Abandon(p) PROVE LeasedOK'
  <2>1. pc'[p] = "idle" /\ pc[p] # "idle"
    BY <1>0, <1>6 DEF WritePointer, Abandon, Leave, Goto, PublicationTypeOK
  <2> QED
    BY <1>1, <1>6, <2>1 DEF LeasedOK, Publish
<1>7. CASE LeaseEnds
  <2>1. losses' # losses + 1
    BY <1>0, PublicationAssumption DEF PublicationTypeOK
  <2>2. pc[holder] = "idle" /\ holder \in Publisher
    BY <1>0, <1>7, <2>1 DEF LeaseEnds, PublicationTypeOK
  <2>3. \A q \in Publisher : pc'[q] = "idle"
    BY <1>7, <2>2 DEF LeaseEnds, LeasedOK
  <2> QED
    BY <2>3 DEF LeasedOK
<1>8. CASE UNCHANGED vars
  BY <1>8 DEF vars, lease, files, LeasedOK, Latest, Draft
<1> QED
  BY <1>2, <1>3, <1>4, <1>5, <1>6, <1>7, <1>8 DEF Next, Publish

\* What a draft shows of a ticker, against the snapshot it was merged into.
LEMMA DraftRow ==
    ASSUME PublicationInv, NEW p \in Publisher, pc[p] = "pointer", NEW t \in Ticker,
           NEW u, u = refresh[p], NEW s, s = previous[p], NEW d, d = Draft(p)
    PROVE  /\ Researches(u) /\ t \in u.got =>
                 d.research.rows[t] = u.number /\ d.coverage[t] = "available"
           /\ Researches(u) /\ t \in u.asked /\ t \notin u.got =>
                 /\ d.research.rows[t] = s.research.rows[t]
                 /\ d.coverage[t] = IF s.research.rows[t] = 0 THEN "none" ELSE "stale"
           /\ ~Researches(u) \/ t \notin u.asked =>
                 d.research.rows[t] = s.research.rows[t] /\ d.coverage[t] = s.coverage[t]
<1>0. PublicationTypeOK /\ NumbersOK /\ ConsistentOK
  BY DEF PublicationInv
<1>1. u \in Refresh /\ u.got \subseteq u.asked /\ u.number # 0
  BY <1>0, NumberIsRefresh DEF PublicationTypeOK, NumbersOK
<1>2. s.coverage = RowClocks(s.research) /\ s \in Snapshot
  BY <1>0 DEF ConsistentOK, Consistent, PublicationTypeOK
<1>3. d.research = MergedResearch(s, u) /\ d.coverage = MergedCoverage(s, u)
  BY DEF Draft
<1>4. CASE ~Researches(u)
  BY <1>1, <1>3, <1>4 DEF MergedResearch, MergedCoverage
<1>5. CASE Researches(u) /\ s.research = NoResearch
  <2>1. d.research = Payload(u) /\ d.coverage = RowClocks(Payload(u))
    BY <1>3, <1>5 DEF MergedResearch, MergedCoverage
  <2>2. s.research.rows[t] = 0 /\ s.coverage[t] = "none"
    BY <1>2, <1>5 DEF NoResearch, RowClocks
  <2> QED
    BY <1>1, <2>1, <2>2, <1>5 DEF Payload, RowClocks
<1>6. CASE Researches(u) /\ s.research # NoResearch
  <2>1. d.research = MergeRows(s.research, u) /\ d.coverage = RowClocks(MergeRows(s.research, u))
    BY <1>3, <1>6 DEF MergedResearch, MergedCoverage
  <2>2. s.coverage[t] = IF s.research.rows[t] = 0 THEN "none" ELSE s.research.clock[t]
    BY <1>2 DEF RowClocks
  <2> QED
    BY SMTT(30), <1>1, <2>1, <2>2, <1>6 DEF MergeRows, RowClocks
<1> QED
  BY <1>4, <1>5, <1>6

\* Replacing the pointer is one refresh of the register.
LEMMA WriteIsRefresh ==
    ASSUME PublicationInv, LeasedOK, NEW p \in Publisher, WritePointer(p)
    PROVE  Register!Next
<1>0. PublicationTypeOK /\ NumbersOK
  BY DEF PublicationInv
<1> DEFINE u == refresh[p]
           asked == IF Researches(u) THEN u.asked ELSE {}
<1>1. pc[p] = "pointer" /\ u.number \in Refreshes /\ u.number # 0
  BY <1>0, NumberIsRefresh DEF WritePointer
<1>2. Latest = previous[p] /\ Latest' = Draft(p)
  BY <1>1 DEF LeasedOK, WritePointer, Latest
<1>3. asked \in SUBSET Ticker
  BY <1>0 DEF PublicationTypeOK, Refresh
<1>4. Latest'.accounts \in {Latest.accounts, u.number}
  BY <1>2 DEF Draft, MergedAccounts
<1>5. ASSUME NEW t \in Ticker
      PROVE  IF t \in asked THEN Register!Renewed(t, u.number) \/ Register!Retained(t)
             ELSE Register!Untouched(t)
  <2> DEFINE d == Draft(p)
             s == previous[p]
  <2>1. /\ Researches(u) /\ t \in u.got =>
              d.research.rows[t] = u.number /\ d.coverage[t] = "available"
        /\ Researches(u) /\ t \in u.asked /\ t \notin u.got =>
              /\ d.research.rows[t] = s.research.rows[t]
              /\ d.coverage[t] = IF s.research.rows[t] = 0 THEN "none" ELSE "stale"
        /\ ~Researches(u) \/ t \notin u.asked =>
              d.research.rows[t] = s.research.rows[t] /\ d.coverage[t] = s.coverage[t]
    BY <1>1, DraftRow
  <2> HIDE DEF d, s
  <2>2. Latest = s /\ Latest' = d
    BY <1>2 DEF d, s
  <2> QED
    BY <2>1, <2>2 DEF Register!Renewed, Register!Retained, Register!Untouched
<1> HIDE DEF asked, u
<1>6. Register!Refresh(u.number, asked)
  BY <1>4, <1>5 DEF Register!Refresh
<1> QED
  BY <1>1, <1>3, <1>6 DEF Register!Next

\* The number of lost leases only grows.
LEMMA LossesGrow ==
    ASSUME PublicationTypeOK, [Next]_vars, losses' = 0
    PROVE  losses = 0
<1>1. losses' = losses \/ losses' = losses + 1
  BY DEF Next, Publish, Begin, ReadLatest, Merge, WriteManifest, WritePointer, Abandon,
         LeaseEnds, lease, vars
<1> QED
  BY <1>1, PublicationAssumption DEF PublicationTypeOK

\* As long as no lease has been lost under a publisher, readers of the latest
\* snapshot see a register to which every refresh is applied at once: nothing it
\* was not asked for changes.
THEOREM PublicationIsAtomic == Spec => ImplementsRegister
<1> DEFINE Leased == losses = 0 => LeasedOK
<1>1. Init => Leased /\ Register!Init
  BY DEF Init, LeasedOK, Register!Init, Latest, Empty, NoResearch, NoCoverage
<1>2. PublicationInv /\ Leased /\ [Next]_vars => Leased'
  BY LeasedStep, LossesGrow DEF PublicationInv
<1>3. PublicationInv /\ Leased /\ [Next]_vars => [losses = 0 => Register!Next]_(Register!latest)
  <2> SUFFICES ASSUME PublicationInv, LeasedOK, [Next]_vars
               PROVE  [Register!Next]_(Register!latest)
    OBVIOUS
  <2>1. CASE \E p \in Publisher : WritePointer(p)
    BY <2>1, WriteIsRefresh
  <2>2. CASE \A p \in Publisher : ~WritePointer(p)
    BY <2>2, LatestKept DEF Register!latest
  <2> QED BY <2>1, <2>2
<1> HIDE DEF Leased
<1>4. Spec => [](PublicationInv /\ Leased)
  BY <1>1, <1>2, Invariance, PTL DEF Spec
<1> QED
  BY <1>1, <1>3, <1>4, PTL DEF Spec, ImplementsRegister

------------------------------------------------------------------------------
(*****************************************************************************)
(* The cached read of the latest manifest is as good as an uncached one,     *)
(* for any readers and publishers, superseded publishers included.           *)
(*****************************************************************************)
USE PublicationAssumption, ReaderAssumption DEF PublicationAssumption, ReaderAssumption

Open(r) == step[r] # "idle"

\* An open call has seen the present pointer, and that of its own stat.
CallOK == \A r \in Reader : Open(r) => pointer \in during[r] /\ pointer # 0 /\ stamp[r] \in 0..begun

\* Run n, found under signature s, is an answer to every open call that found s,
\* and to the calls that will find it: once the pointer has left s, none will.
Answers(s, n) ==
    /\ \A q \in Reader : Open(q) /\ stamp[q] = s => n \in during[q]
    /\ s = pointer => n = pointer
    /\ n \in runs

FillOK ==
    /\ \A r \in Reader : step[r] = "remember" => Answers(stamp[r], loaded[r])
    /\ cacheRun # 0 => Answers(cacheStamp, cacheRun)

\* The refreshes under way will give the pointer a signature nobody has seen.
UnseenOK ==
    /\ cacheStamp \in 0..begun
    /\ \A p \in Publisher : pc[p] # "idle" =>
          /\ refresh[p].number # cacheStamp
          /\ \A r \in Reader : Open(r) => refresh[p].number # stamp[r]

ReaderInv == PublicationInv /\ ReaderTypeOK /\ CallOK /\ FillOK /\ UnseenOK /\ FreshAnswer

LEMMA ReaderInitInv == ReaderInit => ReaderInv
<1> SUFFICES ASSUME ReaderInit PROVE ReaderInv
  OBVIOUS
<1>1. PublicationInv /\ pointer = 0 /\ begun = 0
  BY InitInv DEF ReaderInit, Init
<1>2. ReaderTypeOK
  BY <1>1 DEF ReaderInit, ReaderTypeOK, PublicationInv, Number
<1>3. CallOK /\ FillOK /\ UnseenOK /\ FreshAnswer
  BY <1>1 DEF ReaderInit, Init, CallOK, FillOK, UnseenOK, FreshAnswer, Open
<1> QED BY <1>1, <1>2, <1>3 DEF ReaderInv

\* Readers write no file.
LEMMA PublicationStep == ReaderInv /\ [ReaderNext]_allVars => PublicationInv'
<1> SUFFICES ASSUME ReaderInv, [ReaderNext]_allVars PROVE PublicationInv'
  OBVIOUS
<1>1. [Next]_vars
  BY DEF ReaderNext, PublisherStep, Stat, Lookup, Read, Remember, allVars
<1> QED
  BY <1>1, TypeStep, NumbersStep, StoreStep, ConsistentStep DEF PublicationInv, ReaderInv

LEMMA ReaderTypeStep == ReaderInv /\ [ReaderNext]_allVars => ReaderTypeOK'
<1> SUFFICES ASSUME ReaderInv, [ReaderNext]_allVars PROVE ReaderTypeOK'
  OBVIOUS
<1>0. ReaderTypeOK /\ PublicationTypeOK'
  BY PublicationStep DEF ReaderInv, PublicationInv
<1> USE <1>0 DEF ReaderTypeOK
<1>1. CASE PublisherStep
  BY <1>1 DEF PublisherStep, readerVars, PublicationTypeOK
<1>2. ASSUME NEW r \in Reader, Stat(r) PROVE ReaderTypeOK'
  BY <1>2 DEF Stat, Answer, PublicationTypeOK
<1>3. ASSUME NEW r \in Reader, Lookup(r) PROVE ReaderTypeOK'
  BY <1>3 DEF Lookup, Answer
<1>4. ASSUME NEW r \in Reader, Read(r) PROVE ReaderTypeOK'
  BY <1>4 DEF Read, PublicationTypeOK
<1>5. ASSUME NEW r \in Reader, Remember(r) PROVE ReaderTypeOK'
  BY <1>5 DEF Remember, Answer
<1>6. CASE UNCHANGED allVars
  BY <1>6 DEF allVars, readerVars
<1> QED
  BY <1>1, <1>2, <1>3, <1>4, <1>5, <1>6 DEF ReaderNext
-----------------------------------------------------------------------------
\* What a step of the publishing side may do to the pointer.
LEMMA PointerMoves ==
    ASSUME PublicationInv, [Next]_vars
    PROVE  /\ runs \subseteq runs' /\ begun \in Nat /\ begun' \in Nat /\ begun <= begun'
           /\ \/ pointer' = pointer
              \/ \E p \in Publisher : pc[p] # "idle" /\ pointer' = refresh[p].number /\ pointer' # 0
           /\ \A p \in Publisher : pc'[p] # "idle" =>
                 \/ pc[p] # "idle" /\ refresh'[p].number = refresh[p].number
                 \/ refresh'[p].number = begun + 1
<1>0. PublicationTypeOK /\ NumbersOK
  BY DEF PublicationInv
<1>1. ASSUME NEW p \in Publisher, Begin(p) PROVE
        /\ runs' = runs /\ pointer' = pointer /\ begun' = begun + 1
        /\ \A q \in Publisher : q # p => pc'[q] = pc[q] /\ refresh'[q] = refresh[q]
        /\ refresh'[p].number = begun + 1
  <2>1. PICK u \in Refresh : BeginsWith(p, u)
    BY <1>0, <1>1, BeginRefresh
  <2> QED
    BY <1>0, <1>1, <2>1 DEF Begin, BeginsWith, Goto, PublicationTypeOK
<1>2. ASSUME NEW p \in Publisher, ReadLatest(p) \/ Merge(p) PROVE
        UNCHANGED <<runs, pointer, begun, refresh>> /\ pc[p] # "idle"
        /\ \A q \in Publisher : q # p => pc'[q] = pc[q]
  BY <1>0, <1>2 DEF ReadLatest, Merge, Goto, files, PublicationTypeOK
<1>3. ASSUME NEW p \in Publisher, WriteManifest(p) PROVE
        UNCHANGED <<pointer, begun, refresh>> /\ runs \subseteq runs' /\ pc[p] # "idle"
        /\ \A q \in Publisher : q # p => pc'[q] = pc[q]
  BY <1>0, <1>3 DEF WriteManifest, Goto, PublicationTypeOK
<1>4. ASSUME NEW p \in Publisher, WritePointer(p) PROVE
        /\ UNCHANGED <<runs, begun>> /\ pc[p] # "idle" /\ pointer' = refresh[p].number
        /\ pointer' # 0
        /\ \A q \in Publisher : pc'[q] # "idle" => pc[q] # "idle" /\ refresh'[q] = refresh[q]
  BY <1>0, <1>4, NumberIsRefresh DEF WritePointer, Leave, Goto, PublicationTypeOK
<1>5. ASSUME NEW p \in Publisher, Abandon(p) PROVE
        /\ UNCHANGED <<runs, begun, pointer>>
        /\ \A q \in Publisher : pc'[q] # "idle" => pc[q] # "idle" /\ refresh'[q] = refresh[q]
  BY <1>0, <1>5 DEF Abandon, Leave, Goto, files, PublicationTypeOK
<1>6. ASSUME LeaseEnds \/ UNCHANGED vars PROVE
        UNCHANGED <<runs, begun, pointer, pc, refresh>>
  BY <1>6 DEF LeaseEnds, files, vars
<1>7. begun \in Nat
  BY <1>0 DEF PublicationTypeOK, Number
<1>8. CASE \E p \in Publisher : Begin(p)
  <2>1. PICK p \in Publisher : Begin(p)
    BY <1>8
  <2> QED
    BY <1>1, <1>7, <2>1
<1>9. CASE \E p \in Publisher : ReadLatest(p) \/ Merge(p) \/ WriteManifest(p)
  <2>1. PICK p \in Publisher : ReadLatest(p) \/ Merge(p) \/ WriteManifest(p)
    BY <1>9
  <2> QED
    BY <1>2, <1>3, <1>7, <2>1
<1>10. CASE \E p \in Publisher : WritePointer(p) \/ Abandon(p)
  <2>1. PICK p \in Publisher : WritePointer(p) \/ Abandon(p)
    BY <1>10
  <2> QED
    BY <1>4, <1>5, <1>7, <2>1
<1>11. CASE LeaseEnds \/ UNCHANGED vars
  BY <1>6, <1>7, <1>11
<1> QED
  BY <1>8, <1>9, <1>10, <1>11 DEF Next, Publish

LEMMA PublisherKeeps ==
    ASSUME ReaderInv, PublisherStep
    PROVE  CallOK' /\ FillOK' /\ UnseenOK' /\ FreshAnswer'
<1>0. /\ PublicationInv /\ ReaderTypeOK /\ CallOK /\ FillOK /\ UnseenOK /\ FreshAnswer
      /\ [Next]_vars
  BY DEF ReaderInv, PublisherStep
<1>1. UNCHANGED readerVars
  BY DEF PublisherStep
<1>2. \A r \in Reader : Open(r)' = Open(r) /\ during[r] \subseteq during'[r]
                      /\ (Open(r) => pointer' \in during'[r])
                      /\ (~Open(r) => during'[r] = during[r])
  BY DEF PublisherStep, readerVars, Open
<1>3. /\ runs \subseteq runs' /\ begun \in Nat /\ begun' \in Nat /\ begun <= begun'
      /\ \/ pointer' = pointer
         \/ \E p \in Publisher : pc[p] # "idle" /\ pointer' = refresh[p].number /\ pointer' # 0
      /\ \A p \in Publisher : pc'[p] # "idle" =>
            \/ pc[p] # "idle" /\ refresh'[p].number = refresh[p].number
            \/ refresh'[p].number = begun + 1
  BY <1>0, PointerMoves
<1>4. CallOK'
  BY <1>0, <1>1, <1>2, <1>3 DEF CallOK, readerVars
<1>5. UnseenOK'
  BY <1>0, <1>1, <1>2, <1>3 DEF CallOK, UnseenOK, readerVars
<1>6. ASSUME NEW s, NEW n, Answers(s, n),
             \A p \in Publisher : pc[p] # "idle" => refresh[p].number # s
      PROVE  Answers(s, n)'
  BY <1>1, <1>2, <1>3, <1>6 DEF Answers, readerVars
<1>7. FillOK'
  <2>1. ASSUME NEW r \in Reader, step'[r] = "remember" PROVE Answers(stamp[r], loaded[r])'
    BY <1>0, <1>1, <1>6, <2>1 DEF FillOK, UnseenOK, Open, readerVars
  <2>2. cacheRun # 0 => Answers(cacheStamp, cacheRun)'
    BY <1>0, <1>1, <1>6 DEF FillOK, UnseenOK, readerVars
  <2> QED
    BY <1>1, <2>1, <2>2 DEF FillOK, Answers, readerVars, Open
<1>8. FreshAnswer'
  BY <1>0, <1>1, <1>2, <1>3 DEF FreshAnswer, Open, readerVars
<1> QED BY <1>4, <1>5, <1>7, <1>8

\* A call's own steps; the files stand still.
LEMMA StatKeeps ==
    ASSUME ReaderInv, NEW r \in Reader, Stat(r)
    PROVE  CallOK' /\ FillOK' /\ UnseenOK' /\ FreshAnswer'
<1>0. /\ PublicationTypeOK /\ NumbersOK /\ StoreOK
      /\ ReaderTypeOK /\ CallOK /\ FillOK /\ UnseenOK /\ FreshAnswer
  BY DEF ReaderInv, PublicationInv
<1>1. /\ UNCHANGED <<runs, begun, pointer, pc, refresh, loaded, cacheStamp, cacheRun>>
      /\ step[r] = "idle" /\ during'[r] = {pointer}
      /\ \A q \in Reader : q # r => /\ step'[q] = step[q] /\ stamp'[q] = stamp[q]
                                   /\ during'[q] = during[q] /\ answer'[q] = answer[q]
  BY <1>0 DEF Stat, Answer, vars, files, ReaderTypeOK
<1>2. \/ pointer = 0 /\ step'[r] = "idle" /\ answer'[r] = 0
      \/ pointer # 0 /\ step'[r] = "lookup" /\ stamp'[r] = pointer
  BY <1>0 DEF Stat, Answer, ReaderTypeOK
<1>3. CallOK'
  BY <1>0, <1>1, <1>2 DEF CallOK, Open, NumbersOK
<1>4. UnseenOK'
  BY <1>0, <1>1, <1>2 DEF UnseenOK, Open, NumbersOK
<1>5. ASSUME NEW s, NEW n, Answers(s, n) PROVE Answers(s, n)'
  BY <1>1, <1>2, <1>5 DEF Answers, Open
<1>6. FillOK'
  <2>1. ASSUME NEW q \in Reader, step'[q] = "remember" PROVE Answers(stamp[q], loaded[q])'
    BY <1>0, <1>1, <1>2, <1>5, <2>1 DEF FillOK
  <2>2. cacheRun # 0 => Answers(cacheStamp, cacheRun)'
    BY <1>0, <1>1, <1>5 DEF FillOK
  <2> QED
    BY <1>1, <2>1, <2>2 DEF FillOK, Answers, Open
<1>7. FreshAnswer'
  BY <1>0, <1>1, <1>2 DEF FreshAnswer
<1> QED BY <1>3, <1>4, <1>6, <1>7

LEMMA LookupKeeps ==
    ASSUME ReaderInv, NEW r \in Reader, Lookup(r)
    PROVE  CallOK' /\ FillOK' /\ UnseenOK' /\ FreshAnswer'
<1>0. ReaderTypeOK /\ CallOK /\ FillOK /\ UnseenOK /\ FreshAnswer
  BY DEF ReaderInv
<1>1. /\ UNCHANGED <<runs, begun, pointer, pc, refresh, stamp, loaded, cacheStamp, cacheRun, during>>
      /\ step[r] = "lookup" /\ step'[r] # "remember"
      /\ \A q \in Reader : q # r => step'[q] = step[q] /\ answer'[q] = answer[q]
  BY <1>0 DEF Lookup, Answer, vars, files, ReaderTypeOK
<1>2. step'[r] = "idle" => answer'[r] = cacheRun /\ Hit(r)
  BY <1>0 DEF Lookup, Answer, ReaderTypeOK
<1>3. CallOK' /\ UnseenOK'
  BY <1>0, <1>1 DEF CallOK, UnseenOK, Open
<1>4. FillOK'
  BY <1>0, <1>1 DEF FillOK, Answers, Open
<1>5. FreshAnswer'
  <2>1. Hit(r) => cacheRun \in during[r] /\ cacheRun \in runs
    BY <1>0, <1>1 DEF Hit, FillOK, Answers, Open
  <2> QED
    BY <1>0, <1>1, <1>2, <2>1 DEF FreshAnswer
<1> QED BY <1>3, <1>4, <1>5

\* What is read is the present pointer, which every open call has seen.
LEMMA ReadKeeps ==
    ASSUME ReaderInv, NEW r \in Reader, Read(r)
    PROVE  CallOK' /\ FillOK' /\ UnseenOK' /\ FreshAnswer'
<1>0. /\ SnapshotsComplete
      /\ ReaderTypeOK /\ CallOK /\ FillOK /\ UnseenOK /\ FreshAnswer
  BY DEF ReaderInv, PublicationInv, StoreOK
<1>1. /\ UNCHANGED <<runs, begun, pointer, pc, refresh, stamp, cacheStamp, cacheRun, during, answer>>
      /\ step[r] = "read" /\ step'[r] = "remember" /\ loaded'[r] = pointer
      /\ \A q \in Reader : q # r => step'[q] = step[q] /\ loaded'[q] = loaded[q]
  BY <1>0 DEF Read, vars, files, ReaderTypeOK
<1>2. CallOK' /\ UnseenOK' /\ FreshAnswer'
  BY <1>0, <1>1 DEF CallOK, UnseenOK, FreshAnswer, Open
<1>3. pointer \in runs /\ \A q \in Reader : Open(q) => pointer \in during[q]
  BY <1>0, <1>1 DEF CallOK, Open, SnapshotsComplete
<1>4. FillOK'
  BY <1>0, <1>1, <1>3 DEF FillOK, Answers, Open
<1> QED BY <1>2, <1>4

LEMMA RememberKeeps ==
    ASSUME ReaderInv, NEW r \in Reader, Remember(r)
    PROVE  CallOK' /\ FillOK' /\ UnseenOK' /\ FreshAnswer'
<1>0. ReaderTypeOK /\ CallOK /\ FillOK /\ UnseenOK /\ FreshAnswer
  BY DEF ReaderInv
<1>1. /\ UNCHANGED <<runs, begun, pointer, pc, refresh, stamp, loaded, during>>
      /\ step[r] = "remember" /\ step'[r] = "idle" /\ answer'[r] = loaded[r]
      /\ cacheStamp' = stamp[r] /\ cacheRun' = loaded[r]
      /\ \A q \in Reader : q # r => step'[q] = step[q] /\ answer'[q] = answer[q]
  BY <1>0 DEF Remember, Answer, vars, files, ReaderTypeOK
<1>2. CallOK' /\ UnseenOK'
  BY <1>0, <1>1 DEF CallOK, UnseenOK, Open
<1>3. Answers(stamp[r], loaded[r])
  BY <1>0, <1>1 DEF FillOK
<1>4. FillOK'
  BY <1>0, <1>1, <1>3 DEF FillOK, Answers, Open
<1>5. FreshAnswer'
  BY <1>0, <1>1, <1>3 DEF FreshAnswer, Answers, Open
<1> QED BY <1>2, <1>4, <1>5

LEMMA ReaderInvariance == ReaderSpec => []ReaderInv
<1>1. ReaderInv /\ [ReaderNext]_allVars => ReaderInv'
  <2> SUFFICES ASSUME ReaderInv, [ReaderNext]_allVars PROVE ReaderInv'
    OBVIOUS
  <2>1. PublicationInv' /\ ReaderTypeOK'
    BY PublicationStep, ReaderTypeStep
  <2>2. CallOK' /\ FillOK' /\ UnseenOK' /\ FreshAnswer'
    <3>1. CASE UNCHANGED allVars
      BY <3>1 DEF allVars, vars, files, readerVars, ReaderInv,
                  CallOK, FillOK, Answers, UnseenOK, FreshAnswer, Open
    <3> QED
      BY <3>1, PublisherKeeps, StatKeeps, LookupKeeps, ReadKeeps, RememberKeeps DEF ReaderNext
  <2> QED BY <2>1, <2>2 DEF ReaderInv
<1> QED
  BY <1>1, ReaderInitInv, PTL DEF ReaderSpec

\* Types and lock discipline of the cached read, for any threads and publishers.
THEOREM ReaderTypeCorrect == ReaderSpec => []ReaderTypeOK
<1>1. ReaderInv => ReaderTypeOK
  BY DEF ReaderInv
<1> QED BY <1>1, ReaderInvariance, PTL

\* A cached answer was the latest run at some moment of the call, although the
\* signature it is filed under is older than what was read.
THEOREM AnswersAreFresh == ReaderSpec => []FreshAnswer
<1>1. ReaderInv => FreshAnswer
  BY DEF ReaderInv
<1> QED BY <1>1, ReaderInvariance, PTL
==============================================================================
