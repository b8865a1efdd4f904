----------------------------- MODULE WatchlistFile -----------------------------
(***************************************************************************)
(* The watchlist: one JSON file that the API and the worker process each   *)
(* rewrite whole.  Every operation of WatchlistStore takes the lock of its *)
(* own process, loads the state, changes it and saves it; nothing keeps    *)
(* the other process out.  A process caches the state under the signature  *)
(* of the file, which _remember() takes after the file was read or         *)
(* replaced.  A marker file records that the first list was ever made.     *)
(*                                                                         *)
(* A version stands for the signature (inode, time and size); what other   *)
(* fields an entry has does not matter here.                               *)
(***************************************************************************)
EXTENDS Naturals

CONSTANTS
    Process,      \* processes with a WatchlistStore of their own
    Operations,   \* Operations[p]: what the program calls in process p
    Listed,       \* tickers
    SeedTickers,  \* direct holdings, or the default seven
    MaxSaves      \* bound: saves

Operation == {"add", "remove", "move", "pending", "reconcile", "classify", "seed"}

ASSUME WatchlistAssumption ==
    /\ Listed # {} /\ SeedTickers \subseteq Listed
    /\ MaxSaves \in Nat
    /\ Operations \in [Process -> SUBSET Operation]

VARIABLES
    entries,   \* entries[t]: the file's entry of t
    version,   \* signature of the file
    marked,    \* the bootstrap marker exists
    work,      \* work[p]: the operation under p's lock and how far it is
    copy,      \* copy[p]: the state it works on
    cache,     \* cache[p]: what p remembers, and of which signature
    overlap,   \* a process replaced the file inside another's operation
    seeded,    \* seeds written
    emptied    \* a user removed the last entry

watchVars == <<entries, version, marked, work, copy, cache, overlap, seeded, emptied>>

Entry == [status : {"pending", "ready", "failed"}, theme : {"none", "user", "llm"}]
Absent == [status |-> "absent", theme |-> "none"]
Entries == [Listed -> Entry \cup {Absent}]
Nobody == [t \in Listed |-> Absent]
Fresh == [status |-> "pending", theme |-> "none"]

Quiet == [at |-> "idle", op |-> "add", ticker |-> CHOOSE t \in Listed : TRUE]

WatchTypeOK ==
    /\ entries \in Entries
    /\ version \in 0..MaxSaves /\ marked \in BOOLEAN
    /\ work \in [Process -> [at : {"idle", "load", "refresh", "note", "change", "remember", "mark"},
                             op : Operation, ticker : Listed]]
    /\ copy \in [Process -> Entries]
    /\ cache \in [Process -> [entries : Entries, version : 0..MaxSaves]]
    /\ overlap \in BOOLEAN /\ seeded \in 0..MaxSaves /\ emptied \in BOOLEAN

WatchInit ==
    /\ entries = Nobody
    /\ version = 0
    /\ marked = FALSE
    /\ work = [p \in Process |-> Quiet]
    /\ copy = [p \in Process |-> Nobody]
    /\ cache = [p \in Process |-> [entries |-> Nobody, version |-> 0]]
    /\ overlap = FALSE /\ seeded = 0 /\ emptied = FALSE

Move(p, at) == work' = [work EXCEPT ![p].at = at]
Replace(p, new) ==
    /\ version < MaxSaves
    /\ version' = version + 1
    /\ entries' = new
    /\ overlap' = (overlap \/ \E q \in Process \ {p} : work[q].at \notin {"idle", "load", "mark"})
-----------------------------------------------------------------------------
\* A request or a job takes the lock of its process.
BeginOperation(p, op, t) ==
    /\ work[p].at = "idle"
    /\ work' = [work EXCEPT ![p] = [at |-> "load", op |-> op, ticker |-> t]]
    /\ UNCHANGED <<entries, version, marked, copy, cache, overlap, seeded, emptied>>

FaultyLoadCached(p) ==  \* the signature is not compared
    /\ work[p].at = "load"
    /\ copy' = [copy EXCEPT ![p] = cache[p].entries]
    /\ Move(p, "change")
    /\ UNCHANGED <<entries, version, marked, cache, overlap, seeded, emptied>>

\* load(): the remembered state, if the file still has its signature ...
LoadCached(p) ==
    /\ work[p].at = "load"
    /\ cache[p].version = version
    /\ copy' = [copy EXCEPT ![p] = cache[p].entries]
    /\ Move(p, "change")
    /\ UNCHANGED <<entries, version, marked, cache, overlap, seeded, emptied>>

\* ... or that of the file, which is replaced if what the security master says of an entry
\* has changed since; its schema is current from the start of the program. It is then
\* remembered under the signature the file has by that time; an entry in it shows that
\* the bootstrap is over.
LoadFile(p) ==
    /\ work[p].at = "load"
    /\ cache[p].version # version
    /\ copy' = [copy EXCEPT ![p] = entries]
    /\ Move(p, "note") \/ (entries # Nobody /\ Move(p, "refresh"))
    /\ UNCHANGED <<entries, version, marked, cache, overlap, seeded, emptied>>
RefreshLoaded(p) ==
    /\ work[p].at = "refresh"
    /\ Replace(p, copy[p])
    /\ Move(p, "note")
    /\ UNCHANGED <<marked, copy, cache, seeded, emptied>>
NoteLoaded(p) ==
    /\ work[p].at = "note"
    /\ marked' = (marked \/ copy[p] # Nobody)
    /\ cache' = [cache EXCEPT ![p] = [entries |-> copy[p], version |-> version]]
    /\ Move(p, "change")
    /\ UNCHANGED <<entries, version, copy, overlap, seeded, emptied>>

FaultySeeds(state) ==  \* the marker is not looked at
    IF state = Nobody
    THEN [t \in Listed |-> IF t \in SeedTickers THEN Fresh ELSE Absent] ELSE state

\* seed_if_empty(): never a second time.
Seeds(state) ==
    IF state = Nobody /\ ~marked
    THEN [t \in Listed |-> IF t \in SeedTickers THEN Fresh ELSE Absent] ELSE state

\* What each operation makes of the state.
Changed(op, t, state) ==
    IF op = "seed" THEN Seeds(state)
    ELSE [state EXCEPT ![t] =
            IF op = "add" THEN Fresh
            ELSE IF op = "remove" THEN Absent
            ELSE IF op = "move" THEN [@ EXCEPT !.theme = "user"]
            ELSE IF op = "classify" THEN [@ EXCEPT !.theme = "llm"]
            ELSE IF op = "pending" THEN [@ EXCEPT !.status = "pending"]
            ELSE [@ EXCEPT !.status = "ready"]]

\* An add of an entry that exists, and anything else on one that does not, return.
Writes(op, t, state) ==
    IF op = "seed" THEN Seeds(state) # state ELSE op = "add" <=> state[t] = Absent

\* save(): the file is replaced.
SaveChange(p) ==
    /\ work[p].at = "change"
    /\ Writes(work[p].op, work[p].ticker, copy[p])
    /\ LET new == Changed(work[p].op, work[p].ticker, copy[p])
       IN  /\ Replace(p, new)
           /\ copy' = [copy EXCEPT ![p] = new]
           /\ emptied' = (emptied \/ (work[p].op = "remove" /\ new = Nobody))
    /\ seeded' = IF work[p].op = "seed" THEN seeded + 1 ELSE seeded
    /\ Move(p, "remember")
    /\ UNCHANGED <<marked, cache>>

NothingToChange(p) ==
    /\ work[p].at = "change"
    /\ ~Writes(work[p].op, work[p].ticker, copy[p])
    /\ Move(p, "idle")
    /\ UNCHANGED <<entries, version, marked, copy, cache, overlap, seeded, emptied>>

\* _remember(): the signature is read after the replacement.
Remember(p) ==
    /\ work[p].at = "remember"
    /\ cache' = [cache EXCEPT ![p] = [entries |-> copy[p], version |-> version]]
    /\ Move(p, IF work[p].op \in {"add", "seed"} THEN "mark" ELSE "idle")
    /\ UNCHANGED <<entries, version, marked, copy, overlap, seeded, emptied>>

Mark(p) ==
    /\ work[p].at = "mark"
    /\ marked' = TRUE
    /\ Move(p, "idle")
    /\ UNCHANGED <<entries, version, copy, cache, overlap, seeded, emptied>>

\* The process dies in an operation, or between two, and starts again: ensure()
\* loads the file.
RestartProcess(p) ==
    /\ marked' = (marked \/ entries # Nobody)
    /\ work' = [work EXCEPT ![p] = Quiet]
    /\ copy' = [copy EXCEPT ![p] = Nobody]
    /\ \/ UNCHANGED <<entries, version, overlap>>
       \/ entries # Nobody /\ Replace(p, entries)
    /\ cache' = [cache EXCEPT ![p] = [entries |-> entries, version |-> version']]
    /\ UNCHANGED <<seeded, emptied>>

OperationStep(p) ==
    \/ LoadCached(p) \/ LoadFile(p) \/ RefreshLoaded(p) \/ NoteLoaded(p) \/ SaveChange(p) \/ NothingToChange(p)
    \/ Remember(p) \/ Mark(p)

WatchNext ==
    \E p \in Process :
        \/ \E op \in Operations[p], t \in Listed : BeginOperation(p, op, t)
        \/ OperationStep(p)
        \/ RestartProcess(p)

WatchSpec == WatchInit /\ [][WatchNext]_watchVars
-----------------------------------------------------------------------------
\* "safe to call during every research-job admission while preserving manual
\* ... removals" (watchlist.py:395): through crashes between the save and the
\* marker, and under operations of the other process, a list is seeded at most
\* once, and never after a user has emptied it.
NotSeededAgain == [][emptied \/ seeded > 0 => seeded' = seeded]_watchVars

\* Operations of two processes that do not overlap build on each other: what an
\* operation works on is what the file holds.
WorksOnCurrent ==
    \A p \in Process : ~overlap /\ work[p].at = "change" => copy[p] = entries
=============================================================================
