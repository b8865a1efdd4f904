---------------------------- MODULE RecoveryPacks ----------------------------
(***************************************************************************)
(* The packs of a recovery repository.  Everything there holds the lock of *)
(* the repository, so nobody reads or writes during maintenance; but packs *)
(* are also shared with physical recovery files, and rewritten without the *)
(* records that no manifest needs any more.  `repository` says which of    *)
(* the two kinds of store a behaviour is about.                            *)
(***************************************************************************)
EXTENDS ObjectPacks

CONSTANT Offered  \* packs that physical recovery files hold

ASSUME OfferedAssumption == Offered \subseteq Pack

VARIABLES
    repository,
    needed,     \* records the manifests of the repository need
    aliased     \* packs that are also a physical recovery file

poolVars == <<packVars, repository, needed, aliased>>
Whose == <<repository, needed, aliased>>

PoolTypeOK ==
    /\ PackTypeOK
    /\ repository \in BOOLEAN
    /\ needed \subseteq Record /\ aliased \subseteq Offered

PoolInit ==
    /\ PackInit
    /\ repository \in BOOLEAN /\ needed = {} /\ aliased = {}

\* A backup stores what its manifest needs and the repository does not have.
AddManifest(k) ==
    /\ repository /\ job.at = "idle" /\ Readable
    /\ needed' = needed \cup {k}
    /\ IF Stored(k) # None THEN UNCHANGED loose
       ELSE \E v \in Version[k] : loose' = [loose EXCEPT ![k] = v]
    /\ UNCHANGED <<blocks, Locator, journals, job, touched, Clients, packRuns, deaths, repository, aliased>>

DropManifests(keys) ==
    /\ repository /\ job.at = "idle"
    /\ needed' = needed \ keys
    /\ UNCHANGED <<packVars, repository, aliased>>

\* adopt(): a pack of a recovery file gets a second name in the pool ...
AliasPack(p) ==
    /\ repository /\ job.at = "compact" /\ p \notin aliased
    /\ \A k \in Entries(p) : place[k] # NoPack => place[k][k] = p[k]
    /\ blocks' = blocks \cup {p} /\ aliased' = aliased \cup {p}
    /\ job' = [job EXCEPT !.at = "relocate", !.batch = p]
    /\ UNCHANGED <<loose, Locator, journals, touched, Clients, packRuns, deaths, repository, needed>>

\* ... and all its records are located there.
Relocate ==
    /\ repository /\ job.at = "relocate" /\ index = "ready"
    /\ listed' = listed \cup {job.batch}
    /\ place' = Located(job.batch)
    /\ job' = [AtRest EXCEPT !.at = "compact"]
    /\ UNCHANGED <<loose, blocks, index, journals, touched, Clients, packRuns, deaths, Whose>>

Kept(p) == {k \in needed : place[k] = p}

\* compact(): a pack that also holds records nobody needs is written again without
\* them; one that is also a recovery file is left alone.
RewritePack(p) ==
    /\ repository /\ job.at = "compact" /\ index = "ready"
    /\ p \in listed \ aliased /\ Kept(p) # Entries(p)
    /\ blocks' = blocks \cup ({Only(p, Kept(p))} \ {NoPack})
    /\ job' = [job EXCEPT !.at = "move", !.batch = p, !.left = Kept(p)]
    /\ UNCHANGED <<loose, Locator, journals, touched, Clients, packRuns, deaths, Whose>>

Replacement == Only(job.batch, job.left)
\* One transaction locates what is kept in the new pack and forgets the old one ...
MoveRecords ==
    /\ repository /\ job.at = "move"
    /\ listed' = (listed \cup ({Replacement} \ {NoPack})) \ {job.batch}
    /\ place' = [k \in Record |-> IF k \in job.left THEN Replacement
                                  ELSE IF place[k] = job.batch THEN NoPack ELSE place[k]]
    /\ ToStep("retire")
    /\ UNCHANGED <<loose, blocks, index, journals, touched, Clients, packRuns, deaths, Whose>>

\* ... whose file goes last.
RetirePack ==
    /\ repository /\ job.at = "retire"
    /\ blocks' = blocks \ {job.batch}
    /\ job' = [AtRest EXCEPT !.at = "compact"]
    /\ UNCHANGED <<loose, Locator, journals, touched, Clients, packRuns, deaths, Whose>>

EndCompaction ==
    /\ job.at = "compact"
    /\ GiveUp
    /\ UNCHANGED <<loose, blocks, Locator, journals, touched, Clients, packRuns, deaths, Whose>>

RepositoryStep ==
    \/ \E k \in Record : AddManifest(k)
    \/ \E keys \in (SUBSET needed) \ {{}} : DropManifests(keys)
    \/ \E p \in Offered : AliasPack(p)
    \/ Relocate
    \/ \E p \in listed : RewritePack(p)
    \/ MoveRecords \/ RetirePack \/ EndCompaction
    \/ repository /\ RecoverPending("compact") /\ UNCHANGED Whose

PoolNext ==
    \/ ~repository /\ ClientOfPacks /\ UNCHANGED Whose
    \/ RecoverPending("recover") /\ UNCHANGED Whose
    \/ (PackerStep \/ Rebuild) /\ UNCHANGED Whose
    \/ RepositoryStep

PoolSpec == PoolInit /\ [][PoolNext]_poolVars
-----------------------------------------------------------------------------
\* The packer, sharing, rewriting, their deaths, the recovery and a rebuild of the
\* locator never lose or change what is read under a key.  In a store with writers a
\* file they wrote right before it is unlinked gives way to what is sealed; in a
\* repository a record may go when no manifest needs it.
Raced(k) == job.at \in {"unlink", "expunge"} /\ k = job.key /\ k \in touched
KeepsContents ==
    [][UNCHANGED writer =>
          \A k \in IF repository THEN needed \cap needed' ELSE Record :
             Stored(k) # None => Stored(k)' # None /\ (Stored(k)' = Stored(k) \/ Raced(k))]_poolVars

\* An interrupted batch can be resumed: its records are committed or their original
\* files are there (docs/operations/storage-maintenance.md, "verifies committed records
\* and remaining originals before resuming").  Not so when the repository was rewritten
\* before the packer ran again and a record of the batch was no longer needed.
BatchesResume ==
    \A j \in journals, k \in Record : j[k] # None /\ place[k] = NoPack => loose[k] # None
=============================================================================
