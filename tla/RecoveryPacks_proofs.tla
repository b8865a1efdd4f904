------------------------ MODULE RecoveryPacks_proofs ------------------------
(*****************************************************************************)
(* Sealed packs, in a store with lock-free readers and writers and in a      *)
(* recovery repository: for any records, any bytes writers may produce       *)
(* under one key, any recovery files that share packs and any number of      *)
(* runs and deaths of the maintenance.  Each step of the packer is covered   *)
(* by what it has read, sealed and located before (BatchOK), each step of a  *)
(* rewriting by what it has written again (PoolOK); a reader is covered by   *)
(* the order in which a record moves: located before its loose file goes,    *)
(* in a locator that can be read before there is a pack (ReaderOK).          *)
(*****************************************************************************)
EXTENDS RecoveryPacks, TLAPS

USE PackAssumption, OfferedAssumption

PackTypes ==
    /\ loose \in Content /\ blocks \subseteq Pack /\ listed \subseteq blocks
    /\ index \in {"absent", "blank", "ready"}
    /\ place \in [Record -> listed \cup {NoPack}]
    /\ \A k \in Record : place[k] = NoPack \/ k \in Entries(place[k])
    /\ journals \subseteq Pack /\ touched \subseteq Record
    /\ packRuns \in 0..MaxRuns /\ deaths \in 0..MaxDeaths
JobState == [at : Steps, batch : Content, left : SUBSET Record, key : Record]
ReaderState == [at : {"idle", "loose", "locate", "load", "found", "missing"}, key : Record, from : Content]
WriterState == [at : {"idle", "write", "error"}, key : Record]
ActorTypes ==
    /\ job \in JobState
    /\ writer \in [Writer -> WriterState] /\ reader \in [PackReader -> ReaderState]
    /\ repository \in BOOLEAN /\ needed \subseteq Record /\ aliased \subseteq Offered

\* What is sealed under k, or to be sealed there, is what the batch says.
Sealed(k, p) == place[k] # NoPack /\ place[k][k] = p[k]
Agrees(k, p) == place[k] = NoPack \/ place[k][k] = p[k]
Unchanged(k, p) == k \notin touched => loose[k] = p[k]

\* The packer: what it has read is there until it was unlinked, is sealed before it is
\* located, and is located, with the same bytes, before any file is unlinked.
BatchOK ==
    /\ job.at \in {"journal", "open", "seal", "commit", "check", "unlink"} =>
          job.left \subseteq Entries(job.batch) /\ \A k \in job.left : Unchanged(k, job.batch)
    /\ job.at = "journal" => job.batch # NoPack
    /\ job.at = "seal" => index = "ready"
    /\ job.at = "commit" => /\ NewPack \in blocks \cup {NoPack}
                            /\ \A k \in Entries(job.batch) : Agrees(k, job.batch)
    /\ job.at \in {"check", "unlink"} => \A k \in job.left : Sealed(k, job.batch)
    /\ job.at = "unlink" => job.key \in job.left
    /\ job.at = "expunge" => place[job.key] # NoPack /\ Unchanged(job.key, place[job.key])

\* The pool: an adopted pack is there and agrees with the locator; a pack to be
\* rewritten loses no needed record, and is not located any more when it goes.
PoolOK ==
    /\ job.at = "relocate" => job.batch \in blocks /\ \A k \in Entries(job.batch) : Agrees(k, job.batch)
    /\ job.at = "move" => /\ job.left \subseteq Entries(job.batch) /\ job.left # Entries(job.batch)
                          /\ Replacement \in blocks \cup {NoPack}
                          /\ \A k \in job.left : place[k] = job.batch
                          /\ \A k \in needed : place[k] = job.batch => k \in job.left
    /\ job.at = "retire" => job.batch \notin listed

\* A store with readers has no pack before its locator can be read; a reader is on its
\* way to something.
ReaderOK ==
    /\ ~repository => (blocks # {} => index = "ready")
    /\ \A r \in PackReader :
          LET k == reader[r].key IN
          /\ repository => reader[r].at = "idle"
          /\ reader[r].at = "loose" => Stored(k) # None
          /\ reader[r].at = "locate" => place[k] # NoPack
          /\ reader[r].at = "load" => reader[r].from \in blocks
          /\ reader[r].at # "missing"

PoolInv == PackTypes /\ ActorTypes /\ BatchOK /\ PoolOK /\ ReaderOK

-----------------------------------------------------------------------------
\* Packs and the places of their records.
LEMMA PackBytes ==
    /\ NoPack \in Content
    /\ \A p \in Content, k \in Record : /\ p[k] \in Version[k] \cup {None}
                                        /\ k \in Entries(p) <=> p[k] # None
    /\ \A p \in Pack : p \in Content /\ p # NoPack
    /\ \A k \in Record : NoPack[k] = None /\ None \notin Version[k]
<1>1. NoPack \in Content
  BY DEF NoPack, Content, None
<1>2. \A k \in Record : NoPack[k] = None /\ None \notin Version[k]
  BY DEF NoPack, None
<1> QED  BY <1>1, <1>2 DEF Content, Entries, Pack

LEMMA FilledPack ==
    ASSUME NEW p \in Content, p # NoPack
    PROVE  p \in Pack /\ Entries(p) # {}
<1>1. p = [k \in Record |-> p[k]]
  BY DEF Content
<1>2. (\A k \in Record : p[k] = None) => p = NoPack
  BY <1>1 DEF NoPack
<1> QED  BY <1>2 DEF Pack, Entries

LEMMA OnlyOK ==
    ASSUME NEW p \in Content, NEW keys \in SUBSET Record
    PROVE  /\ Only(p, keys) \in Content
           /\ Entries(Only(p, keys)) = Entries(p) \cap keys
           /\ \A k \in keys : Only(p, keys)[k] = p[k]
<1>1. \A k \in Record : Only(p, keys)[k] = IF k \in keys THEN p[k] ELSE None
  BY DEF Only
<1>2. Only(p, keys) \in Content
  BY DEF Only, Content, None
<1> QED  BY <1>1, <1>2 DEF Entries

\* Where the locator finds a record, and what.
LEMMA PlacesOK ==
    ASSUME PackTypes, NEW k \in Record
    PROVE  /\ place[k] \in Content /\ loose[k] \in Version[k] \cup {None}
           /\ place[k] # NoPack <=> place[k][k] # None
           /\ place[k] # NoPack => place[k] \in listed /\ place[k] \in blocks /\ place[k][k] \in Version[k]
           /\ Stored(k) = IF loose[k] # None THEN loose[k] ELSE place[k][k]
<1>1. place[k] \in listed \cup {NoPack} /\ (place[k] = NoPack \/ k \in Entries(place[k]))
  BY DEF PackTypes
<1>2. listed \subseteq blocks /\ blocks \subseteq Pack /\ loose \in Content
  BY DEF PackTypes
<1>3. place[k] \in Content /\ (place[k] # NoPack <=> place[k][k] # None)
  BY <1>1, <1>2, PackBytes
<1>4. place[k] \in blocks <=> place[k] # NoPack
  BY <1>1, <1>2, PackBytes
<1>5. Stored(k) = IF loose[k] # None THEN loose[k] ELSE place[k][k]
  BY <1>3, <1>4 DEF Stored
<1> QED  BY <1>1, <1>2, <1>3, <1>4, <1>5, PackBytes

LEMMA RegisteredAt ==
    ASSUME NEW packs, NEW at, NEW f \in Registered(packs, at), NEW k \in Record
    PROVE  /\ at[k] # NoPack => f[k] = at[k]
           /\ at[k] = NoPack => (f[k] \in packs /\ f[k][k] # None)
              \/ (f[k] = NoPack /\ \A p \in packs : p[k] = None)
BY DEF Registered

LEMMA RegisteredOK ==
    ASSUME NEW packs \in SUBSET blocks, blocks \subseteq Pack, NEW known \in SUBSET blocks,
           NEW at \in [Record -> known \cup {NoPack}], NEW f \in Registered(packs, at)
    PROVE  f \in [Record -> (known \cup packs) \cup {NoPack}]
<1>1. \A k \in Record : f[k] \in (known \cup packs) \cup {NoPack}
  BY RegisteredAt
<1>2. f = [k \in Record |-> f[k]]
  BY DEF Registered
<1> QED  BY <1>1, <1>2

LEMMA LocatedOK ==
    ASSUME PackTypes, NEW p \in Content, p \in blocks \cup {NoPack}
    PROVE  /\ Located(p) \in [Record -> listed \cup ({p} \ {NoPack}) \cup {NoPack}]
           /\ \A k \in Entries(p) : Located(p)[k] = p /\ p # NoPack
           /\ \A k \in Record \ Entries(p) : Located(p)[k] = place[k]
<1>1. \A k \in Record : place[k] \in listed \cup {NoPack}
  BY DEF PackTypes
<1>2. Entries(p) \subseteq Record
  BY DEF Entries
<1>3. \A k \in Entries(p) : p # NoPack
  BY PackBytes, <1>2
<1> QED  BY <1>1, <1>2, <1>3 DEF Located

-----------------------------------------------------------------------------
\* The record of the maintenance: what a step makes of it.
JobWith(at, batch, left, key) == [at |-> at, batch |-> batch, left |-> left, key |-> key]
LEMMA JobOK ==
    ASSUME job \in JobState
    PROVE  /\ job.at \in Steps /\ job.batch \in Content /\ job.left \in SUBSET Record /\ job.key \in Record
           /\ job = JobWith(job.at, job.batch, job.left, job.key)
           /\ \A at \in Steps, batch \in Content, left \in SUBSET Record, key \in Record :
                 JobWith(at, batch, left, key) \in JobState
BY DEF JobState, JobWith

LEMMA RestOK == /\ AtRest \in JobState /\ AtRest.at = "idle" /\ AtRest.batch = NoPack /\ AtRest.left = {}
                /\ \A at \in Steps : [AtRest EXCEPT !.at = at] \in JobState /\ [AtRest EXCEPT !.at = at].at = at
<1>1. (CHOOSE k \in Record : TRUE) \in Record
  OBVIOUS
<1> QED  BY <1>1, PackBytes DEF AtRest, JobState, Steps

LEMMA ToStepOK ==
    ASSUME job \in JobState, NEW at \in Steps, ToStep(at)
    PROVE  /\ job' \in JobState /\ job'.at = at
           /\ job'.batch = job.batch /\ job'.left = job.left /\ job'.key = job.key
BY DEF ToStep, JobState

LEMMA PackerTypes ==
    ASSUME PackTypes, ActorTypes, BatchOK, PackerStep
    PROVE  PackTypes' /\ job' \in JobState
<1>0. /\ job \in JobState /\ job.at \in Steps /\ job.batch \in Content /\ job.left \in SUBSET Record
         /\ job.key \in Record
      /\ \A at \in {"idle", "recover", "expunge", "choose", "journal", "seal", "commit", "check", "unlink", "finish", "open"} :
            at \in Steps
  BY JobOK DEF ActorTypes, Steps
<1>a. ASSUME UNCHANGED <<loose, blocks, Locator, packRuns>>, journals' \subseteq Pack, touched' \subseteq Record,
             deaths' \in 0..MaxDeaths
      PROVE  PackTypes'
  BY <1>a DEF PackTypes, Locator
<1>b. ASSUME UNCHANGED <<blocks, Locator, packRuns, journals, deaths, touched>>, NEW k \in Record,
             loose' = [loose EXCEPT ![k] = None]
      PROVE  PackTypes'
  <2>1. loose' \in Content
    BY <1>b DEF PackTypes, Content, None
  <2> QED  BY <1>b, <2>1 DEF PackTypes, Locator
<1>1. CASE RecoverJournal
  <2>1. UNCHANGED <<loose, blocks, Locator, packRuns, deaths>> /\ journals' \subseteq journals
        /\ touched' \subseteq touched
    BY <1>1 DEF RecoverJournal
  <2>2. PackTypes'
    BY <1>a, <2>1 DEF PackTypes
  <2>3. \/ \E k \in Record : job' = [job EXCEPT !.at = "expunge", !.key = k]
        \/ job' = job \/ GiveUp \/ ToStep("choose")
    BY <1>1 DEF RecoverJournal
  <2>4. ASSUME NEW k \in Record, job' = [job EXCEPT !.at = "expunge", !.key = k] PROVE job' \in JobState
    BY <1>0, <2>4 DEF JobState
  <2> QED  BY <1>0, <2>2, <2>3, <2>4, RestOK, ToStepOK DEF GiveUp
<1>2. CASE Expunge
  <2>1. PackTypes'
    BY <1>0, <1>2, <1>b DEF Expunge
  <2> QED  BY <1>0, <1>2, <2>1, ToStepOK DEF Expunge
<1>3. CASE ChooseBatch
  <2>1. PackTypes'
    BY <1>3, <1>a DEF ChooseBatch, PackTypes
  <2>2. GiveUp \/ \E keys \in (SUBSET Entries(loose)) \ {{}} :
                     job' = [job EXCEPT !.at = "journal", !.batch = Only(loose, keys), !.left = keys]
    BY <1>3 DEF ChooseBatch
  <2>3. ASSUME NEW keys \in SUBSET Entries(loose),
               job' = [job EXCEPT !.at = "journal", !.batch = Only(loose, keys), !.left = keys]
        PROVE  job' \in JobState
    <3>1. keys \in SUBSET Record /\ loose \in Content
      BY DEF Entries, PackTypes
    <3>2. Only(loose, keys) \in Content
      BY <3>1, OnlyOK
    <3> QED  BY <1>0, <2>3, <3>1, <3>2 DEF JobState
  <2> QED  BY <2>1, <2>2, <2>3, RestOK DEF GiveUp
<1>4. CASE WriteJournal
  <2>1. job.batch \in Pack
    BY <1>0, <1>4, FilledPack DEF WriteJournal, BatchOK
  <2>2. PackTypes'
    BY <1>4, <1>a, <2>1 DEF WriteJournal, PackTypes
  <2> QED  BY <1>0, <1>4, <2>2, ToStepOK DEF WriteJournal
<1>5. CASE OpenLocator
  <2>1. index' \in {"absent", "blank", "ready"} /\ (UNCHANGED job \/ ToStep("seal"))
    BY <1>5 DEF OpenLocator, PackTypes
  <2>2. PackTypes'
    BY <1>5, <2>1 DEF OpenLocator, PackTypes
  <2> QED  BY <1>0, <2>1, <2>2, ToStepOK
<1>6. CASE Seal
  <2>1. NewPack \in Content
    BY <1>0, OnlyOK DEF NewPack, NewRecords, Entries
  <2>2. UNCHANGED <<loose, Locator, journals, touched, packRuns, deaths>> /\ (GiveUp \/ ToStep("commit"))
        /\ (blocks' = blocks \/ blocks' = blocks \cup ({NewPack} \ {NoPack}))
    BY <1>6 DEF Seal
  <2>3. PackTypes'
    BY <2>1, <2>2 DEF PackTypes, Pack, Locator
  <2> QED  BY <1>0, <2>2, <2>3, RestOK, ToStepOK DEF GiveUp
<1>7. CASE CommitPack
  <2>1. NewPack \in Content /\ NewPack \in blocks \cup {NoPack}
    BY <1>0, <1>7, OnlyOK DEF NewPack, NewRecords, Entries, CommitPack, BatchOK
  <2>2. place' \in [Record -> listed' \cup {NoPack}]
        /\ \A k \in Record : place'[k] = NoPack \/ k \in Entries(place'[k])
    <3>1. \A k \in Record : place[k] = NoPack \/ k \in Entries(place[k])
      BY DEF PackTypes
    <3> HIDE DEF NewPack
    <3> QED  BY <1>7, <2>1, <3>1, LocatedOK DEF CommitPack
  <2>3. PackTypes'
    BY <1>7, <2>1, <2>2 DEF PackTypes, CommitPack
  <2> QED  BY <1>0, <1>7, <2>3, ToStepOK DEF CommitPack
<1>8. CASE CheckSource
  <2>1. PackTypes'
    BY <1>8, <1>a DEF CheckSource, PackTypes
  <2>2. GiveUp \/ \E k \in Record : job' = [job EXCEPT !.at = "unlink", !.key = k]
    BY <1>0, <1>8 DEF CheckSource
  <2>3. ASSUME NEW k \in Record, job' = [job EXCEPT !.at = "unlink", !.key = k] PROVE job' \in JobState
    BY <1>0, <2>3 DEF JobState
  <2> QED  BY <2>1, <2>2, <2>3, RestOK DEF GiveUp
<1>9. CASE UnlinkSource
  <2>1. PackTypes'
    BY <1>0, <1>9, <1>b DEF UnlinkSource
  <2>2. PICK at \in Steps : job' = [job EXCEPT !.left = @ \ {job.key}, !.at = at]
    BY <1>0, <1>9 DEF UnlinkSource
  <2>3. job' \in JobState
    BY <1>0, <2>2 DEF JobState
  <2> QED  BY <2>1, <2>3
<1>10. CASE FinishJournal
  <2>1. PackTypes'
    BY <1>10, <1>a DEF FinishJournal, PackTypes
  <2> QED  BY <1>0, <1>10, <2>1, RestOK DEF FinishJournal
<1>11. CASE Dies
  <2>1. PackTypes'
    BY <1>11, <1>a DEF Dies, PackTypes
  <2> QED  BY <1>11, <2>1, RestOK DEF Dies, GiveUp
<1> QED
  BY <1>1, <1>2, <1>3, <1>4, <1>5, <1>6, <1>7, <1>8, <1>9, <1>10, <1>11 DEF PackerStep

-----------------------------------------------------------------------------
\* A locator that has registered packs.
LEMMA RecoveredPlaces ==
    ASSUME PackTypes, NEW next \in Steps, RecoverPending(next)
    PROVE  /\ PackTypes'
           /\ job.at = "idle" /\ UNCHANGED <<loose, blocks, index, touched, Clients>>
           /\ job' = job \/ ToStep(next)
           /\ \A k \in Record : place[k] # NoPack => place'[k] = place[k]
<1>1. UNCHANGED <<loose, blocks, index, journals, touched, deaths, Clients>> /\ packRuns' \in 0..MaxRuns
  BY DEF RecoverPending, PackTypes
<1>2. CASE listed' = listed \cup Orphans /\ place' \in Registered(Orphans, place)
  <2>1. /\ Orphans \in SUBSET blocks /\ blocks \subseteq Pack /\ listed \in SUBSET blocks
        /\ place \in [Record -> listed \cup {NoPack}]
    BY DEF Orphans, PackTypes
  <2>2. /\ place' \in [Record -> (listed \cup Orphans) \cup {NoPack}]
        /\ \A k \in Record : place[k] # NoPack => place'[k] = place[k]
        /\ \A k \in Record : place[k] = NoPack => (place'[k] \in Orphans /\ place'[k][k] # None)
           \/ place'[k] = NoPack
    BY <1>2, <2>1, RegisteredOK, RegisteredAt
  <2>3. \A k \in Record : place'[k] = NoPack \/ k \in Entries(place'[k])
    BY <2>2 DEF PackTypes, Entries
  <2>4. PackTypes'
    BY <1>1, <1>2, <2>1, <2>2, <2>3 DEF PackTypes
  <2> QED  BY <1>1, <2>2, <2>4 DEF RecoverPending
<1>3. CASE UNCHANGED <<job, listed, place>>
  BY <1>1, <1>3 DEF PackTypes, RecoverPending
<1> QED  BY <1>2, <1>3 DEF RecoverPending

LEMMA RebuiltPlaces ==
    ASSUME PackTypes, Rebuild
    PROVE  /\ PackTypes' /\ index' = "ready" /\ job.at = "idle"
              /\ UNCHANGED <<loose, blocks, job, touched, Clients>>
           /\ \A k \in Record : place[k] # NoPack => place'[k] # NoPack /\ place'[k][k] = place[k][k]
<1>1. blocks \subseteq Pack /\ blocks \in SUBSET blocks
  BY DEF PackTypes
<1> DEFINE nowhere == [k \in Record |-> NoPack]
<1>2. nowhere \in [Record -> blocks \cup {NoPack}] /\ \A k \in Record : nowhere[k] = NoPack
  OBVIOUS
<1>3. place' \in Registered(blocks, nowhere) /\ listed' = blocks /\ index' = "ready"
      /\ UNCHANGED <<loose, blocks, journals, job, touched, Clients, packRuns, deaths>> /\ job.at = "idle"
  BY DEF Rebuild
<1> HIDE DEF nowhere
<1>4. /\ place' \in [Record -> (blocks \cup blocks) \cup {NoPack}]
      /\ \A k \in Record : \/ place'[k] \in blocks /\ place'[k][k] # None
                           \/ place'[k] = NoPack /\ \A p \in blocks : p[k] = None
  <2>1. ASSUME NEW k \in Record
        PROVE  (place'[k] \in blocks /\ place'[k][k] # None)
               \/ (place'[k] = NoPack /\ \A p \in blocks : p[k] = None)
    BY <1>2, <1>3, RegisteredAt
  <2> QED  BY <1>1, <1>2, <1>3, <2>1, RegisteredOK
<1>5. PackTypes'
  BY <1>3, <1>4 DEF PackTypes, Entries
<1>6. ASSUME NEW k \in Record, place[k] # NoPack PROVE place'[k] # NoPack /\ place'[k][k] = place[k][k]
  <2>1. place[k] \in blocks /\ place[k][k] # None
    BY <1>6, PlacesOK
  <2>2. place'[k] \in blocks /\ place'[k][k] # None
    BY <1>4, <2>1
  <2>3. place'[k][k] = place[k][k]
    BY <2>1, <2>2 DEF Rebuild
  <2> QED  BY <1>1, <2>2, <2>3, PackBytes
<1> QED  BY <1>3, <1>5, <1>6

LEMMA ClientTypes ==
    ASSUME PackTypes, ActorTypes, ClientOfPacks
    PROVE  /\ PackTypes' /\ UNCHANGED <<blocks, Locator, job>>
           /\ writer' \in [Writer -> WriterState] /\ reader' \in [PackReader -> ReaderState]
<1>1. /\ writer \in [Writer -> WriterState] /\ reader \in [PackReader -> ReaderState]
      /\ \A k \in Record : place[k] \in Content
  BY PlacesOK DEF ActorTypes
<1>2. ASSUME NEW w \in Writer, Write(w)
      PROVE  PackTypes' /\ writer' \in [Writer -> WriterState] /\ reader' = reader
  <2>1. writer[w].key \in Record
    BY <1>1 DEF WriterState
  <2>2. loose' \in Content
    BY <1>2, <2>1 DEF Write, Content, Bytes, PackTypes
  <2>3. PackTypes'
    BY <1>2, <2>1, <2>2 DEF Write, PackTypes, Locator
  <2> QED  BY <1>1, <1>2, <2>3 DEF Write, WriterState
<1>3. ASSUME NEW w \in Writer, NEW k \in Record, LookFor(w, k)
      PROVE  PackTypes' /\ writer' \in [Writer -> WriterState] /\ reader' = reader
  BY <1>1, <1>3 DEF LookFor, PackTypes, Locator, WriterState
<1>4. ASSUME NEW r \in PackReader, ReadLoose(r) \/ Locate(r) \/ LoadPack(r) \/ \E k \in Record : StartRead(r, k)
      PROVE  PackTypes' /\ reader' \in [PackReader -> ReaderState] /\ writer' = writer
  <2>1. UNCHANGED <<loose, blocks, Locator, journals, job, touched, writer, packRuns, deaths>>
    BY <1>4 DEF ReadLoose, Locate, LoadPack, StartRead
  <2>2. PackTypes'
    BY <2>1 DEF PackTypes, Locator
  <2>3. CASE ReadLoose(r) \/ LoadPack(r)
    <3>1. PICK at \in {"found", "locate", "missing"} : reader' = [reader EXCEPT ![r].at = at]
      BY <2>3 DEF ReadLoose, LoadPack, ToRead
    <3>2. reader' \in [PackReader -> ReaderState]
      BY <1>1, <3>1 DEF ReaderState
    <3> QED  BY <2>1, <2>2, <3>2
  <2>4. CASE Locate(r)
    <3>1. reader[r].key \in Record /\ place[reader[r].key] \in Content
      BY <1>1 DEF ReaderState
    <3>2. PICK at \in {"load", "missing"}, p \in Content : reader' = [reader EXCEPT ![r].at = at, ![r].from = p]
      BY <2>4, <3>1 DEF Locate
    <3>3. reader' \in [PackReader -> ReaderState]
      BY <1>1, <3>2 DEF ReaderState
    <3> QED  BY <2>1, <2>2, <3>3
  <2>5. CASE \E k \in Record : StartRead(r, k)
    BY <1>1, <2>1, <2>2, <2>5, PackBytes DEF StartRead, ReaderState
  <2> QED  BY <1>4, <2>1, <2>2, <2>3, <2>4, <2>5
<1>5. UNCHANGED <<blocks, Locator, job>>
  BY DEF ClientOfPacks, Write, LookFor, ReadLoose, Locate, LoadPack, StartRead
<1> QED  BY <1>1, <1>2, <1>3, <1>4, <1>5 DEF ClientOfPacks

\* Between batches and packs the maintenance relies on nothing.
LEMMA NothingHeld ==
    ASSUME job'.at \in {"idle", "recover", "choose", "finish", "compact"}
    PROVE  BatchOK' /\ PoolOK'
BY DEF BatchOK, PoolOK

\* What is located, with the same bytes.
Keeps(k) == place[k] # NoPack => place'[k] # NoPack /\ place'[k][k] = place[k][k]

LEMMA ReplacementOK ==
    ASSUME ActorTypes, job.left \subseteq Entries(job.batch), job.left # Entries(job.batch)
    PROVE  /\ Replacement \in Content /\ Replacement # job.batch
           /\ Entries(Replacement) = job.left
           /\ \A k \in job.left : Replacement[k] = job.batch[k] /\ Replacement # NoPack
<1>1. job.batch \in Content /\ job.left \in SUBSET Record
  BY JobOK DEF ActorTypes
<1>2. /\ Replacement \in Content /\ Entries(Replacement) = job.left
      /\ \A k \in job.left : Replacement[k] = job.batch[k]
  BY <1>1, OnlyOK DEF Replacement
<1> HIDE DEF Replacement
<1>3. \A k \in job.left : Replacement # NoPack
  BY <1>1, <1>2, PackBytes
<1> QED  BY <1>2, <1>3

LEMMA RepositoryStepOK ==
    ASSUME PackTypes, ActorTypes, BatchOK, PoolOK, repository,
           \/ \E k \in Record : AddManifest(k)
           \/ \E keys \in (SUBSET needed) \ {{}} : DropManifests(keys)
           \/ \E p \in Offered : AliasPack(p)
           \/ Relocate
           \/ \E p \in listed : RewritePack(p)
           \/ MoveRecords \/ RetirePack \/ EndCompaction
    PROVE  /\ PackTypes' /\ ActorTypes' /\ BatchOK' /\ PoolOK'
           /\ UNCHANGED <<repository, Clients>>
           /\ \A k \in needed : Keeps(k)
           /\ \A k \in Record : loose'[k] = loose[k] \/ Stored(k) = None
<1>0. /\ job \in JobState /\ job.at \in Steps /\ job.batch \in Content /\ job.left \in SUBSET Record
         /\ job.key \in Record
      /\ \A at \in {"relocate", "move", "retire", "compact"} : at \in Steps
  BY JobOK DEF ActorTypes, Steps
<1>1. ASSUME NEW k \in Record, AddManifest(k)
      PROVE  /\ PackTypes' /\ ActorTypes' /\ BatchOK' /\ PoolOK'
             /\ UNCHANGED <<repository, Clients>>
             /\ \A j \in needed : Keeps(j)
             /\ \A j \in Record : loose'[j] = loose[j] \/ Stored(j) = None
  <2>1. loose' = loose \/ (Stored(k) = None /\ \E v \in Version[k] : loose' = [loose EXCEPT ![k] = v])
    BY <1>1 DEF AddManifest
  <2>2. loose' \in Content
    BY <2>1 DEF PackTypes, Content, Bytes
  <2>3. PackTypes'
    BY <1>1, <2>2 DEF AddManifest, PackTypes, Locator
  <2>4. ActorTypes'
    BY <1>1 DEF AddManifest, ActorTypes, Clients
  <2>5. BatchOK' /\ PoolOK'
    BY <1>1, NothingHeld DEF AddManifest
  <2>6. \A j \in Record : loose'[j] = loose[j] \/ Stored(j) = None
    BY <2>1 DEF PackTypes, Content
  <2> QED  BY <1>1, <2>3, <2>4, <2>5, <2>6 DEF AddManifest, Keeps, Locator
<1>2. ASSUME NEW keys, DropManifests(keys)
      PROVE  /\ PackTypes' /\ ActorTypes' /\ BatchOK' /\ PoolOK' /\ UNCHANGED packVars /\ UNCHANGED repository
  <2>1. PackTypes' /\ ActorTypes'
    BY <1>2 DEF DropManifests, packVars, Locator, Clients, PackTypes, ActorTypes
  <2>2. BatchOK' /\ PoolOK'
    BY <1>2, NothingHeld DEF DropManifests, packVars
  <2> QED  BY <1>2, <2>1, <2>2 DEF DropManifests
<1>3. ASSUME NEW p \in Offered, AliasPack(p)
      PROVE  /\ PackTypes' /\ ActorTypes' /\ BatchOK' /\ PoolOK'
             /\ UNCHANGED <<repository, Clients>> /\ UNCHANGED <<loose, Locator>>
  <2>1. p \in Pack /\ p \in Content
    BY PackBytes
  <2>2. job' \in JobState /\ job'.at = "relocate" /\ job'.batch = p
    BY <1>0, <1>3, <2>1 DEF AliasPack, JobState
  <2>3. PackTypes'
    BY <1>3, <2>1 DEF AliasPack, PackTypes, Locator
  <2>4. ActorTypes'
    BY <1>3, <2>2 DEF AliasPack, ActorTypes, Clients
  <2>5. UNCHANGED <<loose, Locator>> /\ UNCHANGED <<repository, Clients>> /\ p \in blocks'
        /\ \A k \in Entries(p) : Agrees(k, p)
    BY <1>3 DEF AliasPack, Agrees
  <2>6. PoolOK'
    BY <2>2, <2>5 DEF PoolOK, Agrees, Locator
  <2>7. BatchOK'
    BY <2>2 DEF BatchOK
  <2> QED  BY <2>3, <2>4, <2>5, <2>6, <2>7
<1>4. ASSUME Relocate
      PROVE  /\ PackTypes' /\ ActorTypes' /\ BatchOK' /\ PoolOK'
             /\ UNCHANGED <<repository, Clients, loose>> /\ \A k \in Record : Keeps(k)
  <2>1. job.batch \in blocks /\ \A k \in Entries(job.batch) : Agrees(k, job.batch)
    BY <1>4 DEF Relocate, PoolOK
  <2>2. /\ place' \in [Record -> listed \cup ({job.batch} \ {NoPack}) \cup {NoPack}]
        /\ \A k \in Entries(job.batch) : place'[k] = job.batch /\ job.batch # NoPack
        /\ \A k \in Record \ Entries(job.batch) : place'[k] = place[k]
    BY <1>0, <1>4, <2>1, LocatedOK DEF Relocate
  <2>3. \A k \in Record : place'[k] = NoPack \/ k \in Entries(place'[k])
    BY <2>2 DEF PackTypes
  <2>4. listed' = listed \cup {job.batch}
        /\ UNCHANGED <<loose, blocks, index, journals, touched, Clients, packRuns, deaths, Whose>>
    BY <1>4 DEF Relocate
  <2>5. PackTypes'
    BY <2>1, <2>2, <2>3, <2>4 DEF PackTypes
  <2>6. job' \in JobState /\ job'.at = "compact"
    BY <1>0, <1>4, RestOK DEF Relocate
  <2>7. ActorTypes'
    BY <2>4, <2>6 DEF ActorTypes, Clients, Whose
  <2>8. \A k \in Record : Keeps(k)
    BY <2>1, <2>2 DEF Keeps, Agrees
  <2> QED  BY <2>4, <2>5, <2>6, <2>7, <2>8, NothingHeld DEF Whose
<1>5. ASSUME NEW p \in listed, RewritePack(p)
      PROVE  /\ PackTypes' /\ ActorTypes' /\ BatchOK' /\ PoolOK'
             /\ UNCHANGED <<repository, Clients>> /\ UNCHANGED <<loose, Locator>>
  <2>1. p \in Pack /\ p \in Content
    BY PackBytes DEF PackTypes
  <2>2. Kept(p) \in SUBSET Record /\ Kept(p) \subseteq Entries(p) /\ Kept(p) # Entries(p)
    <3>1. needed \subseteq Record /\ \A k \in Record : place[k] = NoPack \/ k \in Entries(place[k])
      BY DEF ActorTypes, PackTypes
    <3> QED  BY <1>5, <2>1, <3>1, PackBytes DEF RewritePack, Kept
  <2>3. Only(p, Kept(p)) \in Content
    BY <2>1, <2>2, OnlyOK
  <2>4. job' \in JobState /\ job'.at = "move" /\ job'.batch = p /\ job'.left = Kept(p)
    BY <1>0, <1>5, <2>1, <2>2 DEF RewritePack, JobState
  <2>5. blocks' = blocks \cup ({Only(p, Kept(p))} \ {NoPack})
        /\ UNCHANGED <<loose, Locator, journals, touched, Clients, packRuns, deaths, Whose>>
    BY <1>5 DEF RewritePack
  <2>6. PackTypes'
    BY <2>3, <2>5 DEF PackTypes, Locator, Pack
  <2>7. ActorTypes'
    BY <2>4, <2>5 DEF ActorTypes, Clients, Whose
  <2>8. Replacement' = Only(p, Kept(p))
    BY <2>4 DEF Replacement
  <2>9. PoolOK'
    BY <2>2, <2>4, <2>5, <2>8 DEF PoolOK, Kept, Whose, Locator
  <2>10. BatchOK'
    BY <2>4 DEF BatchOK
  <2> QED  BY <2>5, <2>6, <2>7, <2>9, <2>10 DEF Whose, Clients, Locator
<1>6. ASSUME MoveRecords
      PROVE  /\ PackTypes' /\ ActorTypes' /\ BatchOK' /\ PoolOK'
             /\ UNCHANGED <<repository, Clients, loose>> /\ \A k \in needed : Keeps(k)
  <2>1. /\ job.left \subseteq Entries(job.batch) /\ job.left # Entries(job.batch)
        /\ Replacement \in blocks \cup {NoPack}
        /\ \A k \in job.left : place[k] = job.batch
        /\ \A k \in needed : place[k] = job.batch => k \in job.left
    BY <1>6 DEF MoveRecords, PoolOK
  <2>2. /\ Replacement \in Content /\ Replacement # job.batch
        /\ Entries(Replacement) = job.left
        /\ \A k \in job.left : Replacement[k] = job.batch[k] /\ Replacement # NoPack
    BY <2>1, ReplacementOK
  <2> DEFINE new == Replacement
  <2>3. /\ listed' = (listed \cup ({new} \ {NoPack})) \ {job.batch}
        /\ place' = [k \in Record |-> IF k \in job.left THEN new
                                      ELSE IF place[k] = job.batch THEN NoPack ELSE place[k]]
        /\ UNCHANGED <<loose, blocks, index, journals, touched, Clients, packRuns, deaths, Whose>>
    BY <1>6 DEF MoveRecords
  <2> HIDE DEF new
  <2>4. \A k \in Record : place[k] \in listed \cup {NoPack} /\ (place[k] = NoPack \/ k \in Entries(place[k]))
    BY DEF PackTypes
  <2>5. new \in blocks \cup {NoPack} /\ new # job.batch
        /\ \A k \in job.left : new # NoPack /\ k \in Entries(new) /\ new[k] = job.batch[k]
    BY <2>1, <2>2 DEF new
  <2>6. /\ place' \in [Record -> listed' \cup {NoPack}]
        /\ \A k \in Record : place'[k] = NoPack \/ k \in Entries(place'[k])
    BY <2>3, <2>4, <2>5
  <2>7. listed' \subseteq blocks' /\ job.batch \notin listed'
    BY <2>3, <2>5 DEF PackTypes
  <2>8. PackTypes'
    BY <2>3, <2>6, <2>7 DEF PackTypes
  <2>9. job' \in JobState /\ job'.at = "retire" /\ job'.batch = job.batch
    BY <1>0, <1>6, ToStepOK DEF MoveRecords
  <2>10. ActorTypes'
    BY <2>3, <2>9 DEF ActorTypes, Clients, Whose
  <2>11. BatchOK' /\ PoolOK'
    BY <2>7, <2>9 DEF BatchOK, PoolOK
  <2>12. ASSUME NEW k \in needed PROVE Keeps(k)
    <3>1. k \in Record
      BY DEF ActorTypes
    <3>2. CASE k \in job.left
      BY <2>1, <2>3, <2>5, <3>1, <3>2 DEF Keeps
    <3>3. CASE k \notin job.left
      BY <2>1, <2>3, <3>1, <3>3 DEF Keeps
    <3> QED  BY <3>2, <3>3
  <2> QED  BY <2>3, <2>8, <2>10, <2>11, <2>12 DEF Whose, Clients
<1>7. ASSUME RetirePack
      PROVE  /\ PackTypes' /\ ActorTypes' /\ BatchOK' /\ PoolOK'
             /\ UNCHANGED <<repository, Clients, loose>> /\ UNCHANGED Locator
  <2>1. job.batch \notin listed /\ blocks' = blocks \ {job.batch}
        /\ UNCHANGED <<loose, Locator, journals, touched, Clients, packRuns, deaths, Whose>>
    BY <1>7 DEF RetirePack, PoolOK
  <2>2. PackTypes'
    BY <2>1 DEF PackTypes, Locator
  <2>3. job' \in JobState /\ job'.at = "compact"
    BY <1>0, <1>7, RestOK DEF RetirePack
  <2>4. ActorTypes'
    BY <2>1, <2>3 DEF ActorTypes, Clients, Whose
  <2> QED  BY <2>1, <2>2, <2>3, <2>4, NothingHeld DEF Whose, Clients, Locator
<1>8. ASSUME EndCompaction
      PROVE  /\ PackTypes' /\ ActorTypes' /\ BatchOK' /\ PoolOK'
             /\ UNCHANGED <<repository, Clients, loose>> /\ UNCHANGED Locator
  <2>1. UNCHANGED <<loose, blocks, Locator, journals, touched, Clients, packRuns, deaths, Whose>>
        /\ job' = AtRest
    BY <1>8 DEF EndCompaction, GiveUp
  <2>2. PackTypes' /\ ActorTypes'
    BY <2>1, RestOK DEF PackTypes, ActorTypes, Locator, Clients, Whose
  <2>3. BatchOK' /\ PoolOK'
    BY <2>1, NothingHeld, RestOK
  <2> QED  BY <2>1, <2>2, <2>3 DEF Whose, Clients, Locator
<1>9. ASSUME UNCHANGED Locator PROVE \A k \in needed : Keeps(k)
  BY <1>9 DEF Locator, Keeps
<1>10. CASE \E k \in Record : AddManifest(k)
  BY <1>1, <1>10
<1>11. CASE \E keys \in (SUBSET needed) \ {{}} : DropManifests(keys)
  <2>1. /\ PackTypes' /\ ActorTypes' /\ BatchOK' /\ PoolOK' /\ UNCHANGED packVars /\ UNCHANGED repository
    BY <1>2, <1>11
  <2>2. UNCHANGED <<loose, Locator, Clients>>
    BY <2>1 DEF packVars
  <2> QED  BY <1>9, <2>1, <2>2
<1>12. CASE \E p \in Offered : AliasPack(p)
  BY <1>3, <1>9, <1>12
<1>13. CASE Relocate
  <2>1. needed \subseteq Record
    BY DEF ActorTypes
  <2> QED  BY <1>4, <1>13, <2>1
<1>14. CASE \E p \in listed : RewritePack(p)
  BY <1>5, <1>9, <1>14
<1>15. CASE MoveRecords \/ RetirePack \/ EndCompaction
  BY <1>6, <1>7, <1>8, <1>9, <1>15
<1> QED  BY <1>10, <1>11, <1>12, <1>13, <1>14, <1>15

-----------------------------------------------------------------------------
\* A loose file goes when what it holds is sealed, or was written just now.
Retired(k) == /\ loose'[k] = None /\ UNCHANGED place /\ place[k] # NoPack
              /\ place[k][k] = loose[k] \/ Raced(k)

LEMMA PackerStepOK ==
    ASSUME PackTypes, ActorTypes, BatchOK, PoolOK, PackerStep
    PROVE  /\ BatchOK' /\ PoolOK' /\ UNCHANGED Clients
           /\ \A k \in Record : Keeps(k)
           /\ \A k \in Record : loose'[k] = loose[k] \/ Retired(k)
           /\ blocks \subseteq blocks' /\ (index = "ready" => index' = "ready")
           /\ blocks' = blocks \/ index' = "ready"
<1>0. /\ job \in JobState /\ job.at \in Steps /\ job.batch \in Content /\ job.left \in SUBSET Record
         /\ job.key \in Record
      /\ \A at \in {"idle", "recover", "expunge", "choose", "journal", "seal", "commit", "check", "unlink", "finish", "open"} :
            at \in Steps
  BY JobOK DEF ActorTypes, Steps
<1>a. ASSUME UNCHANGED <<loose, blocks, Locator>>
      PROVE  /\ \A k \in Record : Keeps(k)
             /\ \A k \in Record : loose'[k] = loose[k] \/ Retired(k)
             /\ blocks \subseteq blocks' /\ (index = "ready" => index' = "ready")
             /\ blocks' = blocks \/ index' = "ready"
  BY <1>a DEF Keeps, Locator
<1>b. ASSUME UNCHANGED <<blocks, Locator>>, loose' = [loose EXCEPT ![job.key] = None],
             place[job.key] # NoPack, place[job.key][job.key] = loose[job.key] \/ Raced(job.key)
      PROVE  /\ \A k \in Record : Keeps(k)
             /\ \A k \in Record : loose'[k] = loose[k] \/ Retired(k)
             /\ blocks \subseteq blocks' /\ (index = "ready" => index' = "ready")
             /\ blocks' = blocks \/ index' = "ready"
  <2>1. \A k \in Record : loose'[k] = IF k = job.key THEN None ELSE loose[k]
    BY <1>0, <1>b DEF PackTypes, Content
  <2> QED  BY <1>b, <2>1 DEF Keeps, Retired, Locator
<1>1. CASE RecoverJournal
  <2>1. UNCHANGED <<loose, blocks, Locator, Clients>>
    BY <1>1 DEF RecoverJournal
  <2>2. CASE job' = job \/ GiveUp \/ ToStep("choose")
    <3>1. job'.at \in {"recover", "idle", "choose"}
      BY <1>0, <1>1, <2>2, RestOK, ToStepOK DEF RecoverJournal, GiveUp
    <3> QED  BY <1>a, <2>1, <3>1, NothingHeld
  <2>3. ASSUME NEW j \in journals, NEW k \in Record, j[k] # None, place[k] # NoPack, loose[k] # None, Matches(j, k),
               job' = [job EXCEPT !.at = "expunge", !.key = k], touched' = touched \ {k}
        PROVE  BatchOK' /\ PoolOK'
    <3>1. job'.at = "expunge" /\ job'.key = k
      BY <1>0, <2>3 DEF JobState
    <3>2. place[k][k] = loose[k]
      BY <2>3 DEF Matches
    <3>3. place' = place /\ loose' = loose
      BY <2>1 DEF Locator
    <3> QED  BY <2>3, <3>1, <3>2, <3>3 DEF BatchOK, PoolOK, Unchanged
  <2> QED  BY <1>1, <1>a, <2>1, <2>2, <2>3 DEF RecoverJournal
<1>2. CASE Expunge
  <2>1. /\ place[job.key] # NoPack /\ (job.key \notin touched => loose[job.key] = place[job.key][job.key])
        /\ job.at = "expunge" /\ loose' = [loose EXCEPT ![job.key] = None]
           /\ UNCHANGED <<blocks, Locator, Clients>>
    BY <1>2 DEF Expunge, BatchOK, Unchanged
  <2>2. place[job.key][job.key] = loose[job.key] \/ Raced(job.key)
    BY <2>1 DEF Raced
  <2>3. job'.at = "recover"
    BY <1>0, <1>2, ToStepOK DEF Expunge
  <2> QED  BY <1>b, <2>1, <2>2, <2>3, NothingHeld
<1>3. CASE ChooseBatch
  <2>1. UNCHANGED <<loose, blocks, Locator, Clients>> /\ touched' = {}
    BY <1>3 DEF ChooseBatch
  <2>2. CASE GiveUp
    BY <1>a, <2>1, <2>2, RestOK, NothingHeld DEF GiveUp
  <2>3. ASSUME NEW keys \in (SUBSET Entries(loose)) \ {{}},
               job' = [job EXCEPT !.at = "journal", !.batch = Only(loose, keys), !.left = keys]
        PROVE  BatchOK' /\ PoolOK'
    <3>1. loose \in Content /\ keys \in SUBSET Record
      BY DEF PackTypes, Entries
    <3>2. /\ Only(loose, keys) \in Content /\ Entries(Only(loose, keys)) = Entries(loose) \cap keys
          /\ \A k \in keys : Only(loose, keys)[k] = loose[k]
      BY <3>1, OnlyOK
    <3>3. Only(loose, keys) # NoPack
      <4>1. PICK k \in keys : k \in Record /\ k \in Entries(loose)
        BY <2>3 DEF Entries
      <4> QED  BY <3>1, <3>2, <4>1, PackBytes
    <3>4. job'.at = "journal" /\ job'.batch = Only(loose, keys) /\ job'.left = keys
      BY <1>0, <2>3 DEF JobState
    <3>5. loose' = loose
      BY <2>1
    <3> QED  BY <3>2, <3>3, <3>4, <3>5 DEF BatchOK, PoolOK, Unchanged
  <2> QED  BY <1>3, <1>a, <2>1, <2>2, <2>3 DEF ChooseBatch
<1>4. CASE WriteJournal
  <2>1. UNCHANGED <<loose, blocks, Locator, Clients, touched>> /\ job.at = "journal"
    BY <1>4 DEF WriteJournal
  <2>2. job'.at = "open" /\ job'.batch = job.batch /\ job'.left = job.left
    BY <1>0, <1>4, ToStepOK DEF WriteJournal
  <2>3. BatchOK' /\ PoolOK'
    BY <2>1, <2>2 DEF BatchOK, PoolOK, Unchanged
  <2> QED  BY <1>a, <2>1, <2>3
<1>5. CASE OpenLocator
  <2>1. UNCHANGED <<loose, blocks, listed, place, touched, Clients>> /\ job.at = "open"
    BY <1>5 DEF OpenLocator
  <2>2. (job' = job /\ index # "ready") \/ (ToStep("seal") /\ index' = index /\ index = "ready")
    BY <1>5 DEF OpenLocator, PackTypes
  <2>3. job'.at \in {"open", "seal"} /\ job'.batch = job.batch /\ job'.left = job.left
        /\ (job'.at = "seal" => index' = "ready")
    BY <1>0, <2>1, <2>2, ToStepOK
  <2>4. BatchOK' /\ PoolOK'
    BY <2>1, <2>3 DEF BatchOK, PoolOK, Unchanged
  <2>5. \A k \in Record : Keeps(k)
    BY <2>1 DEF Keeps
  <2> QED  BY <2>1, <2>2, <2>4, <2>5 DEF Clients
<1>6. CASE Seal
  <2>1. UNCHANGED <<loose, Locator, journals, touched, Clients>> /\ job.at = "seal" /\ index = "ready"
    BY <1>6 DEF Seal, BatchOK
  <2>2. CASE GiveUp /\ UNCHANGED blocks
    <3>1. job'.at = "idle"
      BY <2>2, RestOK DEF GiveUp
    <3> QED  BY <1>a, <2>1, <2>2, <3>1, NothingHeld
  <2>3. CASE /\ ToStep("commit") /\ blocks' = blocks \cup ({NewPack} \ {NoPack})
             /\ \A k \in Entries(job.batch) \ NewRecords : place[k][k] = job.batch[k]
    <3>1. job'.at = "commit" /\ job'.batch = job.batch /\ job'.left = job.left
      BY <1>0, <2>3, ToStepOK
    <3>2. NewPack' = NewPack
      BY <2>1, <3>1 DEF NewPack, NewRecords, Locator
    <3>3. \A k \in Entries(job.batch) : Agrees(k, job.batch)
      BY <2>3 DEF Agrees, NewRecords
    <3>4. BatchOK' /\ PoolOK'
      BY <2>1, <2>3, <3>1, <3>2, <3>3 DEF BatchOK, PoolOK, Unchanged, Agrees, Locator
    <3>5. \A k \in Record : Keeps(k)
      BY <2>1 DEF Keeps, Locator
    <3> QED  BY <2>1, <2>3, <3>4, <3>5 DEF Locator, Clients
  <2> QED  BY <1>6, <2>2, <2>3 DEF Seal
<1>7. CASE CommitPack
  <2>1. UNCHANGED <<loose, blocks, index, touched, Clients>> /\ job.at = "commit" /\ place' = Located(NewPack)
        /\ NewPack \in blocks \cup {NoPack} /\ \A k \in Entries(job.batch) : Agrees(k, job.batch)
    BY <1>7 DEF CommitPack, BatchOK
  <2>2. NewRecords \in SUBSET Record /\ NewRecords \subseteq Entries(job.batch)
    BY DEF NewRecords, Entries
  <2>3. /\ NewPack \in Content /\ Entries(NewPack) = NewRecords
        /\ \A k \in NewRecords : NewPack[k] = job.batch[k]
    <3>1. /\ Only(job.batch, NewRecords) \in Content
          /\ Entries(Only(job.batch, NewRecords)) = Entries(job.batch) \cap NewRecords
          /\ \A k \in NewRecords : Only(job.batch, NewRecords)[k] = job.batch[k]
      BY <1>0, <2>2, OnlyOK
    <3> QED  BY <2>2, <3>1 DEF NewPack
  <2>4. /\ \A k \in NewRecords : place'[k] = NewPack /\ NewPack # NoPack
        /\ \A k \in Record \ NewRecords : place'[k] = place[k]
    <3> HIDE DEF NewPack, NewRecords
    <3> QED  BY <2>1, <2>3, LocatedOK
  <2>5. \A k \in Record : Keeps(k)
    BY <2>4 DEF Keeps, NewRecords
  <2>6. job'.at = "check" /\ job'.batch = job.batch /\ job'.left = job.left
    BY <1>0, <1>7, ToStepOK DEF CommitPack
  <2>7. \A k \in Entries(job.batch) : place'[k] # NoPack /\ place'[k][k] = job.batch[k]
    BY <2>1, <2>3, <2>4 DEF Agrees, NewRecords, Entries
  <2>8. BatchOK' /\ PoolOK'
    BY <2>1, <2>6, <2>7 DEF BatchOK, PoolOK, Sealed, Unchanged
  <2> QED  BY <2>1, <2>5, <2>8 DEF Clients
<1>8. CASE CheckSource
  <2>1. UNCHANGED <<loose, blocks, Locator, Clients, touched>> /\ job.at = "check"
    BY <1>8 DEF CheckSource
  <2>2. CASE GiveUp
    BY <1>a, <2>1, <2>2, RestOK, NothingHeld DEF GiveUp
  <2>3. ASSUME NEW k \in job.left, job' = [job EXCEPT !.at = "unlink", !.key = k]
        PROVE  BatchOK' /\ PoolOK'
    <3>1. job'.at = "unlink" /\ job'.key = k /\ job'.left = job.left /\ job'.batch = job.batch
      BY <1>0, <2>3 DEF JobState
    <3> QED  BY <2>1, <3>1 DEF BatchOK, PoolOK, Unchanged, Sealed, Locator
  <2> QED  BY <1>8, <1>a, <2>1, <2>2, <2>3 DEF CheckSource
<1>9. CASE UnlinkSource
  <2>1. /\ job.at = "unlink" /\ loose' = [loose EXCEPT ![job.key] = None]
           /\ UNCHANGED <<blocks, Locator, Clients, touched>>
        /\ job.key \in job.left /\ job.left \subseteq Entries(job.batch)
        /\ \A k \in job.left : Sealed(k, job.batch) /\ Unchanged(k, job.batch)
    BY <1>9 DEF UnlinkSource, BatchOK
  <2>2. place[job.key] # NoPack /\ (place[job.key][job.key] = loose[job.key] \/ Raced(job.key))
    BY <2>1 DEF Sealed, Unchanged, Raced
  <2>3. job'.at \in {"finish", "check"} /\ job'.batch = job.batch /\ job'.left = job.left \ {job.key}
    BY <1>0, <1>9 DEF UnlinkSource, JobState
  <2>4. \A k \in job.left \ {job.key} : loose'[k] = loose[k]
    BY <2>1 DEF PackTypes, Content
  <2>5. BatchOK' /\ PoolOK'
    BY <2>1, <2>3, <2>4 DEF BatchOK, PoolOK, Sealed, Unchanged, Locator
  <2> QED  BY <1>b, <2>1, <2>2, <2>5
<1>10. CASE FinishJournal \/ Dies
  <2>1. UNCHANGED <<loose, blocks, Locator, Clients>>
    BY <1>10 DEF FinishJournal, Dies
  <2>2. job'.at \in {"choose", "idle"}
    BY <1>0, <1>10, RestOK DEF FinishJournal, Dies, GiveUp
  <2> QED  BY <1>a, <2>1, <2>2, NothingHeld
<1> QED
  BY <1>1, <1>2, <1>3, <1>4, <1>5, <1>6, <1>7, <1>8, <1>9, <1>10 DEF PackerStep

\* Writers and readers, of which only the writers change the store.
LEMMA ClientStepOK ==
    ASSUME PackTypes, ActorTypes, BatchOK, PoolOK, ClientOfPacks, UNCHANGED Whose
    PROVE  /\ BatchOK' /\ PoolOK' /\ UNCHANGED <<blocks, Locator>>
           /\ \A k \in Record : loose[k] # None => loose'[k] # None
           /\ UNCHANGED writer => UNCHANGED loose
<1>1. UNCHANGED <<blocks, Locator, job>>
  BY ClientTypes
<1>2. ASSUME NEW w \in Writer, Write(w)
      PROVE  /\ \A k \in Record : (loose'[k] = loose[k] /\ (k \in touched' <=> k \in touched))
                \/ (k \in touched' /\ loose'[k] # None)
             /\ ~UNCHANGED writer
  <2>1. writer[w] \in WriterState
    BY DEF ActorTypes
  <2>2. PICK v \in Version[writer[w].key] : loose' = [loose EXCEPT ![writer[w].key] = v]
    BY <1>2 DEF Write
  <2>3. writer[w].key \in Record /\ touched' = touched \cup {writer[w].key} /\ writer[w].at = "write"
    BY <1>2, <2>1 DEF Write, WriterState
  <2>4. v # None
    BY <2>3 DEF None
  <2>5. writer'[w].at = "idle"
    BY <1>2, <2>1 DEF Write, WriterState, ActorTypes
  <2> QED  BY <2>2, <2>3, <2>4, <2>5 DEF PackTypes, Content
<1>3. CASE UNCHANGED <<loose, touched>>
  BY <1>1, <1>3 DEF BatchOK, PoolOK, Unchanged, Sealed, Agrees, Locator, NewPack, NewRecords, Replacement, Whose
<1>4. CASE \E w \in Writer : Write(w)
  <2>1. /\ \A k \in Record : (loose'[k] = loose[k] /\ (k \in touched' <=> k \in touched))
           \/ (k \in touched' /\ loose'[k] # None)
        /\ ~UNCHANGED writer
    BY <1>2, <1>4
  <2>2. job.left \subseteq Record /\ job.key \in Record
    BY JobOK DEF ActorTypes
  <2>3. \A k \in Record, p \in {job.batch, place[job.key]} : Unchanged(k, p) => (k \notin touched' => loose'[k] = p[k])
    BY <2>1 DEF Unchanged
  <2>5. BatchOK'
    BY <1>1, <2>1, <2>2, <2>3 DEF BatchOK, Unchanged, Sealed, Agrees, Locator, NewPack, NewRecords
  <2>6. PoolOK'
    BY <1>1 DEF PoolOK, Agrees, Locator, Replacement, Whose
  <2> QED  BY <1>1, <2>1, <2>5, <2>6
<1>5. UNCHANGED <<loose, touched>> \/ \E w \in Writer : Write(w)
  BY DEF ClientOfPacks, LookFor, ReadLoose, Locate, LoadPack, StartRead
<1> QED  BY <1>1, <1>3, <1>4, <1>5

-----------------------------------------------------------------------------
\* What every step leaves of the store, whoever takes it.
LEMMA StoreStep ==
    ASSUME PackTypes, ActorTypes, BatchOK, PoolOK, PoolNext
    PROVE  /\ PackTypes' /\ ActorTypes' /\ BatchOK' /\ PoolOK' /\ repository' = repository
           /\ \A k \in IF repository THEN needed ELSE Record : Keeps(k)
           /\ UNCHANGED writer => \A k \in Record : loose'[k] = loose[k] \/ Retired(k) \/ Stored(k) = None
           /\ ~repository =>
                 /\ \A k \in Record : loose[k] # None => loose'[k] # None \/ Retired(k)
                 /\ blocks \subseteq blocks' /\ (index = "ready" => index' = "ready")
                 /\ blocks' = blocks \/ index' = "ready"
           /\ reader' = reader \/ (ClientOfPacks /\ ~repository)
<1>0. needed \subseteq Record /\ "recover" \in Steps /\ "compact" \in Steps /\ job \in JobState
  BY DEF ActorTypes, Steps
<1>1. CASE ~repository /\ ClientOfPacks /\ UNCHANGED Whose
  <2>1. /\ PackTypes' /\ UNCHANGED <<blocks, Locator, job>>
        /\ writer' \in [Writer -> WriterState] /\ reader' \in [PackReader -> ReaderState]
    BY <1>1, ClientTypes
  <2>2. /\ BatchOK' /\ PoolOK'
        /\ \A k \in Record : loose[k] # None => loose'[k] # None
        /\ UNCHANGED writer => UNCHANGED loose
    BY <1>1, ClientStepOK
  <2>3. ActorTypes' /\ repository' = repository
    BY <1>1, <2>1 DEF ActorTypes, Whose
  <2>4. \A k \in Record : Keeps(k)
    BY <2>1 DEF Keeps, Locator
  <2>5. blocks' = blocks /\ index' = index
    BY <2>1 DEF Locator
  <2> QED  BY <1>0, <1>1, <2>1, <2>2, <2>3, <2>4, <2>5
<1>2. ASSUME NEW next \in {"recover", "compact"}, RecoverPending(next), UNCHANGED Whose
      PROVE  /\ PackTypes' /\ ActorTypes' /\ BatchOK' /\ PoolOK' /\ repository' = repository /\ reader' = reader
             /\ \A k \in Record : Keeps(k)
             /\ UNCHANGED <<loose, blocks, index>>
  <2>1. /\ PackTypes' /\ job.at = "idle" /\ UNCHANGED <<loose, blocks, index, touched, Clients>>
        /\ job' = job \/ ToStep(next)
        /\ \A k \in Record : place[k] # NoPack => place'[k] = place[k]
    BY <1>0, <1>2, RecoveredPlaces
  <2>2. job' \in JobState /\ job'.at \in {"idle", "recover", "compact"}
    BY <1>0, <2>1, ToStepOK
  <2>3. ActorTypes' /\ repository' = repository
    BY <1>2, <2>1, <2>2 DEF ActorTypes, Whose, Clients
  <2>4. BatchOK' /\ PoolOK'
    BY <2>2, NothingHeld
  <2> QED  BY <2>1, <2>3, <2>4 DEF Keeps, Clients
<1>3. CASE PackerStep /\ UNCHANGED Whose
  <2>1. PackTypes' /\ job' \in JobState
    BY <1>3, PackerTypes
  <2>2. /\ BatchOK' /\ PoolOK' /\ UNCHANGED Clients
        /\ \A k \in Record : Keeps(k)
        /\ \A k \in Record : loose'[k] = loose[k] \/ Retired(k)
        /\ blocks \subseteq blocks' /\ (index = "ready" => index' = "ready")
        /\ blocks' = blocks \/ index' = "ready"
    BY <1>3, PackerStepOK
  <2>3. ActorTypes' /\ repository' = repository /\ reader' = reader
    BY <1>3, <2>1, <2>2 DEF ActorTypes, Whose, Clients
  <2> QED  BY <1>0, <2>1, <2>2, <2>3
<1>4. CASE Rebuild /\ UNCHANGED Whose
  <2>1. /\ PackTypes' /\ index' = "ready" /\ job.at = "idle"
           /\ UNCHANGED <<loose, blocks, job, touched, Clients>>
        /\ \A k \in Record : place[k] # NoPack => place'[k] # NoPack /\ place'[k][k] = place[k][k]
    BY <1>4, RebuiltPlaces
  <2>2. ActorTypes' /\ repository' = repository /\ reader' = reader
    BY <1>4, <2>1 DEF ActorTypes, Whose, Clients
  <2>3. BatchOK' /\ PoolOK'
    BY <2>1, NothingHeld
  <2> QED  BY <1>0, <2>1, <2>2, <2>3 DEF Keeps
<1>5. CASE /\ repository
           /\ \/ \E k \in Record : AddManifest(k)
              \/ \E keys \in (SUBSET needed) \ {{}} : DropManifests(keys)
              \/ \E p \in Offered : AliasPack(p)
              \/ Relocate
              \/ \E p \in listed : RewritePack(p)
              \/ MoveRecords \/ RetirePack
  <2>1. /\ PackTypes' /\ ActorTypes' /\ BatchOK' /\ PoolOK'
        /\ UNCHANGED <<repository, Clients>>
        /\ \A k \in needed : Keeps(k)
        /\ \A k \in Record : loose'[k] = loose[k] \/ Stored(k) = None
    BY <1>5, RepositoryStepOK
  <2> QED  BY <1>5, <2>1 DEF Clients
<1>7. CASE EndCompaction
  <2>1. UNCHANGED <<loose, blocks, Locator, journals, touched, Clients, packRuns, deaths, Whose>>
        /\ job' = AtRest
    BY <1>7 DEF EndCompaction, GiveUp
  <2>2. PackTypes' /\ ActorTypes'
    BY <2>1, RestOK DEF PackTypes, ActorTypes, Locator, Clients, Whose
  <2>3. BatchOK' /\ PoolOK'
    BY <2>1, NothingHeld, RestOK
  <2>4. UNCHANGED <<loose, blocks, index, place, reader, repository>>
    BY <2>1 DEF Locator, Clients, Whose
  <2> QED  BY <1>0, <2>2, <2>3, <2>4 DEF Keeps
<1>6. PoolNext => \/ ~repository /\ ClientOfPacks /\ UNCHANGED Whose
                  \/ \E next \in {"recover", "compact"} : RecoverPending(next) /\ UNCHANGED Whose
                  \/ PackerStep /\ UNCHANGED Whose
                  \/ Rebuild /\ UNCHANGED Whose
                  \/ /\ repository
                     /\ \/ \E k \in Record : AddManifest(k)
                        \/ \E keys \in (SUBSET needed) \ {{}} : DropManifests(keys)
                        \/ \E p \in Offered : AliasPack(p)
                        \/ Relocate
                        \/ \E p \in listed : RewritePack(p)
                        \/ MoveRecords \/ RetirePack
                  \/ EndCompaction
  BY DEF PoolNext, RepositoryStep, AddManifest, DropManifests, AliasPack, Relocate, RewritePack, MoveRecords, RetirePack
<1>8. CASE \E next \in {"recover", "compact"} : RecoverPending(next) /\ UNCHANGED Whose
  BY <1>0, <1>2, <1>8
<1> QED  BY <1>1, <1>3, <1>4, <1>5, <1>6, <1>7, <1>8

-----------------------------------------------------------------------------
\* A reader that looks a record up finds a locator that can be read.
LEMMA ReaderStepOK ==
    ASSUME PackTypes, ActorTypes, ReaderOK, ~repository, NEW r \in PackReader,
           \/ reader' = reader /\ UNCHANGED blocks
           \/ ClientOfPacks /\ UNCHANGED <<blocks, Locator>> /\ reader' \in [PackReader -> ReaderState]
    PROVE  \/ reader'[r] = reader[r]
           \/ reader'[r].at = "loose" /\ Stored(reader'[r].key) # None
           \/ reader'[r].at = "locate" /\ reader[r].key = reader'[r].key /\ place[reader'[r].key] # NoPack
           \/ reader'[r].at = "load" /\ reader'[r].from \in blocks
           \/ reader'[r].at = "found"
<1>0. reader \in [PackReader -> ReaderState]
  BY DEF ActorTypes
<1> DEFINE At(q) == \/ reader'[q].at = "loose" /\ Stored(reader'[q].key) # None
                    \/ reader'[q].at = "locate" /\ reader[q].key = reader'[q].key /\ place[reader'[q].key] # NoPack
                    \/ reader'[q].at = "load" /\ reader'[q].from \in blocks
                    \/ reader'[q].at = "found"
<1>1. CASE reader' = reader
  BY <1>1
<1>2. ASSUME NEW q \in PackReader, NEW k \in Record, StartRead(q, k)
      PROVE  At(q) /\ (r # q => reader'[r] = reader[r])
  <2>1. reader' = [reader EXCEPT ![q] = [at |-> "loose", key |-> k, from |-> NoPack]] /\ Stored(k) # None
    BY <1>2 DEF StartRead
  <2> QED  BY <1>0, <2>1
<1>3. ASSUME NEW q \in PackReader, ReadLoose(q) PROVE At(q) /\ (r # q => reader'[r] = reader[r])
  <2> DEFINE k == reader[q].key
  <2>1. k \in Record /\ reader[q].at = "loose" /\ Stored(k) # None
    BY <1>0, <1>3 DEF ReadLoose, ReaderState, ReaderOK
  <2>2. loose[k] # None \/ place[k] # NoPack
    BY <2>1, PlacesOK, PackBytes
  <2>3. PICK at \in {"found", "locate"} : /\ at = "found" \/ loose[k] = None
                                         /\ reader' = [reader EXCEPT ![q].at = at]
    BY <1>3 DEF ReadLoose, ToRead
  <2>4. reader'[q].at = at /\ reader'[q].key = reader[q].key /\ (r # q => reader'[r] = reader[r])
    BY <1>0, <2>3 DEF ReaderState
  <2> QED  BY <2>2, <2>3, <2>4
<1>4. ASSUME NEW q \in PackReader, Locate(q) PROVE At(q) /\ (r # q => reader'[r] = reader[r])
  <2> DEFINE k == reader[q].key
  <2>1. k \in Record /\ reader[q].at = "locate" /\ place[k] # NoPack
    BY <1>0, <1>4 DEF Locate, ReaderState, ReaderOK
  <2>2. place[k] \in blocks
    BY <2>1, PlacesOK
  <2>3. Readable
    BY <2>2 DEF Readable, ReaderOK
  <2>4. reader' = [reader EXCEPT ![q].at = "load", ![q].from = place[k]]
    BY <1>4, <2>1, <2>3 DEF Locate
  <2>5. reader'[q].at = "load" /\ reader'[q].from = place[k] /\ (r # q => reader'[r] = reader[r])
    BY <1>0, <2>4 DEF ReaderState
  <2> QED  BY <2>2, <2>5
<1>5. ASSUME NEW q \in PackReader, LoadPack(q) PROVE At(q) /\ (r # q => reader'[r] = reader[r])
  <2>1. reader[q].at = "load" /\ reader[q].from \in blocks
    BY <1>5 DEF LoadPack, ReaderOK
  <2>2. reader' = [reader EXCEPT ![q].at = "found"]
    BY <1>5, <2>1 DEF LoadPack, ToRead
  <2> QED  BY <1>0, <2>2 DEF ReaderState
<1>6. ClientOfPacks => \/ reader' = reader
                       \/ \E q \in PackReader : \/ ReadLoose(q) \/ Locate(q) \/ LoadPack(q)
                                                \/ \E k \in Record : StartRead(q, k)
  BY DEF ClientOfPacks, Write, LookFor
<1> QED  BY <1>1, <1>2, <1>3, <1>4, <1>5, <1>6

LEMMA PlacesNext ==
    ASSUME PackTypes', NEW k \in Record
    PROVE  /\ place'[k] # NoPack <=> place'[k][k] # None
           /\ Stored(k)' = IF loose'[k] # None THEN loose'[k] ELSE place'[k][k]
<1>1. place'[k] \in listed' \cup {NoPack} /\ (place'[k] = NoPack \/ k \in Entries(place'[k]))
  BY DEF PackTypes
<1>2. listed' \subseteq blocks' /\ blocks' \subseteq Pack
  BY DEF PackTypes
<1>3. place'[k] # NoPack <=> place'[k][k] # None
  BY <1>1, <1>2, PackBytes
<1>4. place'[k] \in blocks' <=> place'[k] # NoPack
  BY <1>1, <1>2, PackBytes
<1>5. Stored(k)' = IF loose'[k] # None THEN loose'[k] ELSE IF place'[k] \in blocks' THEN place'[k][k] ELSE None
  BY DEF Stored
<1> QED  BY <1>3, <1>4, <1>5

\* In a store with readers, what could be read can still be read after a step.
LEMMA StillStored ==
    ASSUME PackTypes, PackTypes', NEW k \in Record, Keeps(k), loose[k] # None => loose'[k] # None \/ Retired(k)
    PROVE  Stored(k) # None => Stored(k)' # None
BY PlacesOK, PlacesNext DEF Keeps, Retired

LEMMA ReadersStep ==
    ASSUME PackTypes, ActorTypes, BatchOK, PoolOK, ReaderOK, PoolNext
    PROVE  ReaderOK'
<1>1. /\ PackTypes' /\ ActorTypes' /\ repository' = repository
      /\ \A k \in IF repository THEN needed ELSE Record : Keeps(k)
      /\ reader' = reader \/ (ClientOfPacks /\ ~repository)
  BY StoreStep
<1>2. ~repository => /\ \A k \in Record : loose[k] # None => loose'[k] # None \/ Retired(k)
                     /\ blocks \subseteq blocks' /\ (index = "ready" => index' = "ready")
                     /\ blocks' = blocks \/ index' = "ready"
  BY StoreStep
<1>3. CASE repository
  BY <1>1, <1>3 DEF ReaderOK
<1>4. CASE ~repository
  <2>1. \A k \in Record : Stored(k) # None => Stored(k)' # None
    BY <1>1, <1>2, <1>4, StillStored
  <2>2. blocks' # {} => index' = "ready"
    BY <1>2, <1>4 DEF ReaderOK
  <2>3. ASSUME NEW r \in PackReader, NEW k \in Record, k = reader'[r].key
        PROVE  /\ reader'[r].at = "loose" => Stored(k)' # None
               /\ reader'[r].at = "locate" => place'[k] # NoPack
               /\ reader'[r].at = "load" => reader'[r].from \in blocks'
               /\ reader'[r].at # "missing"
    <3>2. \/ reader'[r] = reader[r]
          \/ reader'[r].at = "loose" /\ Stored(k) # None
          \/ reader'[r].at = "locate" /\ place[k] # NoPack
          \/ reader'[r].at = "load" /\ reader'[r].from \in blocks
          \/ reader'[r].at = "found"
      <4>1. CASE reader' = reader
        BY <4>1
      <4>2. CASE ClientOfPacks
        <5>1. UNCHANGED <<blocks, Locator>> /\ reader' \in [PackReader -> ReaderState]
          BY <4>2, ClientTypes
        <5> QED  BY <1>4, <2>3, <4>2, <5>1, ReaderStepOK
      <4> QED  BY <1>1, <4>1, <4>2
    <3>3. /\ reader[r].at = "loose" => Stored(reader[r].key) # None
          /\ reader[r].at = "locate" => place[reader[r].key] # NoPack
          /\ reader[r].at = "load" => reader[r].from \in blocks
          /\ reader[r].at # "missing"
      BY DEF ReaderOK
    <3>4. /\ Stored(k) # None => Stored(k)' # None
          /\ place[k] # NoPack => place'[k] # NoPack
          /\ blocks \subseteq blocks'
      BY <1>1, <1>2, <1>4, <2>1 DEF Keeps
    <3> QED  BY <2>3, <3>2, <3>3, <3>4
  <2>4. \A r \in PackReader : reader'[r].key \in Record
    BY <1>1 DEF ActorTypes, ReaderState
  <2>5. ASSUME NEW r \in PackReader
        PROVE  /\ reader'[r].at = "loose" => Stored(reader[r].key)' # None
               /\ reader'[r].at = "locate" => place'[reader'[r].key] # NoPack
               /\ reader'[r].at = "load" => reader'[r].from \in blocks'
               /\ reader'[r].at # "missing"
    BY <2>3, <2>4 DEF Stored
  <2> QED  BY <1>1, <1>4, <2>2, <2>5 DEF ReaderOK
<1> QED  BY <1>3, <1>4

-----------------------------------------------------------------------------
LEMMA PoolIdles ==
    ASSUME PoolInv, UNCHANGED poolVars
    PROVE  PoolInv'
<1>1. UNCHANGED <<loose, blocks, index, listed, place, journals, job, touched, writer, reader, packRuns, deaths,
                  repository, needed, aliased>>
  BY DEF poolVars, packVars, Locator, Clients
<1> QED
  BY <1>1 DEF PoolInv, PackTypes, ActorTypes, BatchOK, PoolOK, ReaderOK, Unchanged, Sealed, Agrees, Replacement, NewPack,
              NewRecords, Stored

LEMMA PoolStarts == PoolInit => PoolInv
<1> SUFFICES ASSUME PoolInit PROVE PoolInv
  OBVIOUS
<1>0. (CHOOSE k \in Record : TRUE) \in Record
  OBVIOUS
<1>1. PackTypes
  BY PackBytes DEF PoolInit, PackInit, PackTypes
<1>2. ActorTypes
  BY <1>0, RestOK, PackBytes DEF PoolInit, PackInit, ActorTypes, WriterState, ReaderState
<1>3. BatchOK /\ PoolOK
  BY RestOK DEF PoolInit, PackInit, BatchOK, PoolOK
<1>4. ReaderOK
  BY DEF PoolInit, PackInit, ReaderOK
<1> QED  BY <1>1, <1>2, <1>3, <1>4 DEF PoolInv

LEMMA PoolAlways == PoolSpec => []PoolInv
<1>1. PoolInv /\ [PoolNext]_poolVars => PoolInv'
  BY StoreStep, ReadersStep, PoolIdles DEF PoolInv
<1> QED  BY <1>1, PoolStarts, PTL DEF PoolSpec

LEMMA PoolTyped == PackTypes /\ ActorTypes => PoolTypeOK
BY DEF PackTypes, ActorTypes, JobState, WriterState, ReaderState, PoolTypeOK, PackTypeOK

\* Whatever the maintenance does and wherever it dies, the locator only names packs that
\* are there and only for records they hold, and every actor keeps its type.
THEOREM PoolTypeCorrect == PoolSpec => []PoolTypeOK
BY PoolAlways, PoolTyped, PTL DEF PoolInv

\* A reader that was asked for a stored record finds it, though it takes no lock and its
\* loose file is packed, located and unlinked between any two of its steps.
THEOREM ReadersFindRecords == PoolSpec => []ReadersFind
<1>1. PoolInv => ReadersFind
  BY DEF PoolInv, ReaderOK, ReadersFind
<1> QED  BY <1>1, PoolAlways, PTL

\* No step but a writer's changes what is read under a key: not packing, not the rewriting
\* or sharing of packs, not the recovery or the rebuild of the locator, and no death.
THEOREM ContentsKept == PoolSpec => KeepsContents
<1> DEFINE Same == UNCHANGED writer =>
                      \A k \in IF repository THEN needed \cap needed' ELSE Record :
                         Stored(k) # None => Stored(k)' # None /\ (Stored(k)' = Stored(k) \/ Raced(k))
<1>1. ASSUME PoolInv, PoolNext PROVE Same
  <2>1. /\ PackTypes /\ PackTypes' /\ needed \subseteq Record
        /\ \A k \in IF repository THEN needed ELSE Record : Keeps(k)
        /\ UNCHANGED writer => \A k \in Record : loose'[k] = loose[k] \/ Retired(k) \/ Stored(k) = None
    BY <1>1, StoreStep DEF PoolInv, ActorTypes
  <2>2. \A k \in Record : /\ place[k] # NoPack <=> place[k][k] # None
                          /\ Stored(k) = IF loose[k] # None THEN loose[k] ELSE place[k][k]
    BY <2>1, PlacesOK
  <2>3. \A k \in Record : /\ place'[k] # NoPack <=> place'[k][k] # None
                          /\ Stored(k)' = IF loose'[k] # None THEN loose'[k] ELSE place'[k][k]
    BY <2>1, PlacesNext
  <2>4. ASSUME UNCHANGED writer, NEW k \in IF repository THEN needed \cap needed' ELSE Record, Stored(k) # None
        PROVE  Stored(k)' # None /\ (Stored(k)' = Stored(k) \/ Raced(k))
    <3>1. k \in Record /\ Keeps(k) /\ (loose'[k] = loose[k] \/ Retired(k))
      BY <2>1, <2>4
    <3>2. place[k] # NoPack <=> place[k][k] # None
      BY <2>2, <3>1
    <3>3. place'[k] # NoPack <=> place'[k][k] # None
      BY <2>3, <3>1
    <3>4. Stored(k) = (IF loose[k] # None THEN loose[k] ELSE place[k][k])
          /\ Stored(k)' = (IF loose'[k] # None THEN loose'[k] ELSE place'[k][k])
      BY <2>2, <2>3, <3>1
    <3> QED  BY <2>4, <3>1, <3>2, <3>3, <3>4 DEF Keeps, Retired
  <2> QED  BY <2>4
<1>2. ASSUME UNCHANGED poolVars PROVE Same
  BY <1>2 DEF poolVars, packVars, Locator, Clients, Stored
<1>3. PoolInv /\ [PoolNext]_poolVars => Same
  BY <1>1, <1>2
<1> QED  BY <1>3, PoolAlways, PTL DEF PoolSpec, KeepsContents
=============================================================================
