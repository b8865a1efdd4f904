----------------------------- MODULE ObjectPacks -----------------------------
(***************************************************************************)
(* Sealed packs of immutable records.  The packer moves loose files into a *)
(* pack, registers it in a SQLite locator, and retires the files; readers  *)
(* and writers of the same store take no lock.  The packer can die between *)
(* any two steps.                                                          *)
(*                                                                         *)
(* A pack is its directory: the records and their bytes.  Two writers of   *)
(* an artifact may produce different bytes under one key (generated_at is  *)
(* not part of its identity), which is what versions are for.              *)
(***************************************************************************)
EXTENDS Naturals, FiniteSets

CONSTANTS
    Record,      \* keys of records
    Version,     \* Version[k]: the bytes writers may produce for k
    Writer, PackReader,
    MaxRuns,     \* bound: runs of the maintenance
    MaxDeaths    \* bound: deaths of the maintenance process

ASSUME PackAssumption ==
    /\ Record # {} /\ MaxRuns \in Nat /\ MaxDeaths \in Nat
    /\ \A k \in Record : Version[k] # {} /\ Version[k] \subseteq Nat \ {0}

VARIABLES
    loose,     \* loose[k]: bytes of the loose file, 0 if there is none
    blocks,    \* pack files
    index,     \* the locator: absent, blank (no schema yet) or ready
    listed,    \* packs it knows
    place,     \* place[k]: the pack it locates k in
    journals,  \* batches whose journal is unfinished
    job,       \* the maintenance: its step, its batch or pack, what is left, the current record
    touched,   \* files written since the packer last looked at them
    writer, reader,
    packRuns, deaths

Locator == <<index, listed, place>>
Clients == <<writer, reader>>
packVars == <<loose, blocks, Locator, journals, job, touched, Clients, packRuns, deaths>>

None == 0
Bytes == UNION {Version[k] : k \in Record}
NoPack == [k \in Record |-> None]
Content == {c \in [Record -> Bytes \cup {None}] : \A k \in Record : c[k] \in Version[k] \cup {None}}
Pack == Content \ {NoPack}
Entries(p) == {k \in Record : p[k] # None}
Only(p, keys) == [k \in Record |-> IF k \in keys THEN p[k] ELSE None]
AtRest == [at |-> "idle", batch |-> NoPack, left |-> {}, key |-> CHOOSE k \in Record : TRUE]
Steps == {"idle", "recover", "expunge", "choose", "journal", "open", "seal", "commit", "check", "unlink", "finish",
          "compact", "rewrite", "move", "retire", "alias", "relocate"}

\* What a reader of k gets: the loose file before the pack.
Stored(k) ==
    IF loose[k] # None THEN loose[k]
    ELSE IF place[k] \in blocks THEN place[k][k] ELSE None

\* Types; and the locator only names packs that are there.
PackTypeOK ==
    /\ loose \in Content
    /\ blocks \subseteq Pack /\ listed \subseteq blocks
    /\ index \in {"absent", "blank", "ready"}
    /\ place \in [Record -> listed \cup {NoPack}] /\ \A k \in Record : place[k] = NoPack \/ k \in Entries(place[k])
    /\ journals \subseteq Pack
    /\ job \in [at : Steps, batch : Content, left : SUBSET Record, key : Record]
    /\ touched \subseteq Record
    /\ writer \in [Writer -> [at : {"idle", "write", "error"}, key : Record]]
    /\ reader \in [PackReader -> [at : {"idle", "loose", "locate", "load", "found", "missing"},
                              key : Record, from : Content]]
    /\ packRuns \in 0..MaxRuns /\ deaths \in 0..MaxDeaths

PackInit ==
    /\ loose = NoPack
    /\ blocks = {} /\ index = "absent" /\ listed = {} /\ place = [k \in Record |-> NoPack]
    /\ journals = {} /\ job = AtRest /\ touched = {}
    /\ writer = [w \in Writer |-> [at |-> "idle", key |-> CHOOSE k \in Record : TRUE]]
    /\ reader = [r \in PackReader |-> [at |-> "idle", key |-> CHOOSE k \in Record : TRUE, from |-> NoPack]]
    /\ packRuns = 0 /\ deaths = 0

ToStep(at) == job' = [job EXCEPT !.at = at]
GiveUp == job' = AtRest  \* an exception ends the run
-----------------------------------------------------------------------------
\* _reader(): a locator that is missing though there are packs, or has no schema
\* yet, cannot be read.
Readable == index = "ready" \/ (index = "absent" /\ blocks = {})
\* Packs left by a run that died before it registered them.
Orphans == blocks \ listed
\* INSERT OR IGNORE, in some order of the packs: what is located stays where it is.
Registered(packs, at) ==
    {f \in [Record -> {NoPack} \cup blocks] :
        \A k \in Record :
           LET found == {p \in packs : p[k] # None}
           IN  IF at[k] # NoPack \/ found = {} THEN f[k] = at[k] ELSE f[k] \in found}
NoConflict(packs) ==
    \A p \in packs, q \in packs \cup listed, k \in Record : p[k] # None /\ q[k] # None => p[k] = q[k]

\* recover_pending(), the first step of every maintenance: without a readable
\* locator nothing goes on, and a conflicting orphan stops everything.
RecoverPending(next) ==
    /\ job.at = "idle" /\ packRuns < MaxRuns
    /\ packRuns' = packRuns + 1
    /\ IF Readable /\ NoConflict(Orphans)
       THEN /\ ToStep(next)
            /\ listed' = listed \cup Orphans
            /\ place' \in Registered(Orphans, place)
       ELSE UNCHANGED <<job, listed, place>>
    /\ UNCHANGED <<loose, blocks, index, journals, touched, Clients, deaths>>

\* rebuild(), by the operator while no maintenance runs.
Rebuild ==
    /\ job.at = "idle" /\ ~Readable
    /\ \A p, q \in blocks, k \in Record : p[k] # None /\ q[k] # None => p[k] = q[k]
    /\ index' = "ready" /\ listed' = blocks
    /\ place' \in Registered(blocks, [k \in Record |-> NoPack])
    /\ UNCHANGED <<loose, blocks, journals, job, touched, Clients, packRuns, deaths>>

\* LoosePacker.recover(), one file of an unfinished batch at a time: what is sealed
\* with the bytes of the journal loses its loose file, unless that has changed; what
\* is not sealed stays, unchanged, for a new batch.
Matches(j, k) ==
    IF place[k] # NoPack THEN place[k][k] = j[k] /\ loose[k] \in {None, j[k]} ELSE loose[k] = j[k]

RecoverJournal ==
    /\ job.at = "recover"
    /\ \/ \E j \in journals, k \in Record :
            /\ j[k] # None /\ place[k] # NoPack /\ loose[k] # None /\ Matches(j, k)
            /\ job' = [job EXCEPT !.at = "expunge", !.key = k]
            /\ touched' = touched \ {k}
            /\ UNCHANGED journals
       \/ \E j \in journals :
            /\ \A k \in Entries(j) : Matches(j, k) /\ (place[k] # NoPack => loose[k] = None)
            /\ journals' = journals \ {j}
            /\ UNCHANGED <<job, touched>>
       \/ /\ \E j \in journals, k \in Record : j[k] # None /\ ~Matches(j, k)
          /\ GiveUp /\ UNCHANGED <<journals, touched>>
       \/ journals = {} /\ ToStep("choose") /\ UNCHANGED <<journals, touched>>
    /\ UNCHANGED <<loose, blocks, Locator, Clients, packRuns, deaths>>

Expunge ==
    /\ job.at = "expunge"
    /\ loose' = [loose EXCEPT ![job.key] = None]
    /\ ToStep("recover")
    /\ UNCHANGED <<blocks, Locator, journals, touched, Clients, packRuns, deaths>>
-----------------------------------------------------------------------------
\* run(): any of the loose files can be old enough and within the budgets.
ChooseBatch ==
    /\ job.at = "choose"
    /\ \/ \E keys \in (SUBSET Entries(loose)) \ {{}} :
            job' = [job EXCEPT !.at = "journal", !.batch = Only(loose, keys), !.left = keys]
       \/ GiveUp
    /\ touched' = {}
    /\ UNCHANGED <<loose, blocks, Locator, journals, Clients, packRuns, deaths>>

WriteJournal ==
    /\ job.at = "journal"
    /\ journals' = journals \cup {job.batch}
    /\ ToStep("open")
    /\ UNCHANGED <<loose, blocks, Locator, touched, Clients, packRuns, deaths>>

\* add(): SQLite creates the locator when it is opened, the schema comes next.
OpenLocator ==
    /\ job.at = "open"
    /\ CASE index = "absent" -> index' = "blank" /\ UNCHANGED job
         [] index = "blank"  -> index' = "ready" /\ UNCHANGED job
         [] index = "ready"  -> ToStep("seal") /\ UNCHANGED index
    /\ UNCHANGED <<loose, blocks, listed, place, journals, touched, Clients, packRuns, deaths>>

NewRecords == {k \in Entries(job.batch) : place[k] = NoPack}
NewPack == Only(job.batch, NewRecords)
\* Records already sealed must have the same bytes; the others are sealed ...
Seal ==
    /\ job.at = "seal"
    /\ IF \E k \in Entries(job.batch) \ NewRecords : place[k][k] # job.batch[k]
       THEN GiveUp /\ UNCHANGED blocks
       ELSE ToStep("commit") /\ blocks' = blocks \cup ({NewPack} \ {NoPack})
    /\ UNCHANGED <<loose, Locator, journals, touched, Clients, packRuns, deaths>>

FaultyCommitPack ==  \* the loose files are retired before the locator is committed
    /\ job.at = "commit"
    /\ ToStep("check")
    /\ UNCHANGED <<loose, blocks, Locator, journals, touched, Clients, packRuns, deaths>>

Located(p) == [k \in Record |-> IF k \in Entries(p) THEN p ELSE place[k]]
\* ... and then located, in one transaction.
CommitPack ==
    /\ job.at = "commit"
    /\ listed' = listed \cup ({NewPack} \ {NoPack})
    /\ place' = Located(NewPack)
    /\ ToStep("check")
    /\ UNCHANGED <<loose, blocks, index, journals, touched, Clients, packRuns, deaths>>

FaultyCheckSource ==  \* neither the stamp nor the bytes are compared again
    /\ job.at = "check"
    /\ \E k \in job.left : job' = [job EXCEPT !.at = "unlink", !.key = k] /\ touched' = touched \ {k}
    /\ UNCHANGED <<loose, blocks, Locator, journals, Clients, packRuns, deaths>>

\* A file must still be the one that was read (stamp and bytes) ...
CheckSource ==
    /\ job.at = "check"
    /\ \E k \in job.left :
          IF k \in touched THEN GiveUp ELSE job' = [job EXCEPT !.at = "unlink", !.key = k]
    /\ UNCHANGED <<loose, blocks, Locator, journals, touched, Clients, packRuns, deaths>>

\* ... before it is unlinked.
UnlinkSource ==
    /\ job.at = "unlink"
    /\ loose' = [loose EXCEPT ![job.key] = None]
    /\ job' = [job EXCEPT !.left = @ \ {job.key}, !.at = IF job.left = {job.key} THEN "finish" ELSE "check"]
    /\ UNCHANGED <<blocks, Locator, journals, touched, Clients, packRuns, deaths>>

\* _finish(), and on with the next batch.
FinishJournal ==
    /\ job.at = "finish"
    /\ journals' = journals \ {job.batch}
    /\ job' = [AtRest EXCEPT !.at = "choose"]
    /\ UNCHANGED <<loose, blocks, Locator, touched, Clients, packRuns, deaths>>

Dies ==
    /\ job.at # "idle" /\ deaths < MaxDeaths
    /\ deaths' = deaths + 1
    /\ GiveUp
    /\ UNCHANGED <<loose, blocks, Locator, journals, touched, Clients, packRuns>>

PackerStep ==
    \/ RecoverJournal \/ Expunge \/ ChooseBatch \/ WriteJournal \/ OpenLocator \/ Seal \/ CommitPack
    \/ CheckSource \/ UnlinkSource \/ FinishJournal \/ Dies
-----------------------------------------------------------------------------
\* put_json(): an artifact that exists is not rewritten.  Asking the locator raises
\* while it has no schema.
LookFor(w, k) ==
    /\ writer[w].at = "idle"
    /\ \/ loose[k] = None /\ ~Readable /\ writer' = [writer EXCEPT ![w] = [at |-> "error", key |-> k]]
       \/ /\ loose[k] = None /\ Readable /\ place[k] = NoPack
          /\ writer' = [writer EXCEPT ![w] = [at |-> "write", key |-> k]]
    /\ UNCHANGED <<loose, blocks, Locator, journals, job, touched, reader, packRuns, deaths>>

Write(w) ==
    /\ writer[w].at = "write"
    /\ LET k == writer[w].key
       IN  /\ \E v \in Version[k] : loose' = [loose EXCEPT ![k] = v]
           /\ touched' = touched \cup {k}
    /\ writer' = [writer EXCEPT ![w].at = "idle"]
    /\ UNCHANGED <<blocks, Locator, journals, job, reader, packRuns, deaths>>

ToRead(r, at) == reader' = [reader EXCEPT ![r].at = at]
\* stored_bytes(): a reader of a record somebody refers to.
StartRead(r, k) ==
    /\ reader[r].at \in {"idle", "found"} /\ Stored(k) # None
    /\ reader' = [reader EXCEPT ![r] = [at |-> "loose", key |-> k, from |-> NoPack]]
    /\ UNCHANGED <<loose, blocks, Locator, journals, job, touched, writer, packRuns, deaths>>

ReadLoose(r) ==
    /\ reader[r].at = "loose"
    /\ ToRead(r, IF loose[reader[r].key] # None THEN "found" ELSE "locate")
    /\ UNCHANGED <<loose, blocks, Locator, journals, job, touched, writer, packRuns, deaths>>

Locate(r) ==
    /\ reader[r].at = "locate"
    /\ LET p == place[reader[r].key]
       IN  reader' = [reader EXCEPT ![r].at = IF Readable /\ p # NoPack THEN "load" ELSE "missing", ![r].from = p]
    /\ UNCHANGED <<loose, blocks, Locator, journals, job, touched, writer, packRuns, deaths>>

LoadPack(r) ==
    /\ reader[r].at = "load"
    /\ ToRead(r, IF reader[r].from \in blocks THEN "found" ELSE "missing")
    /\ UNCHANGED <<loose, blocks, Locator, journals, job, touched, writer, packRuns, deaths>>

ClientOfPacks ==
    \/ \E w \in Writer : Write(w) \/ \E k \in Record : LookFor(w, k)
    \/ \E r \in PackReader : ReadLoose(r) \/ Locate(r) \/ LoadPack(r) \/ \E k \in Record : StartRead(r, k)
-----------------------------------------------------------------------------
\* A reader of a stored record finds it, whatever the packer does meanwhile.
ReadersFind == \A r \in PackReader : reader[r].at # "missing"
=============================================================================
