------------------------------ MODULE MCStores ------------------------------
\* What is published, how the API reads it and how its records are kept: snapshots,
\* cached reads of the latest manifest, packs, uploaded exports.  Packs and exports share
\* no variable with the rest: the initial state picks the part that runs.  In the part
\* that reads, the publishers sync accounts only: a reader sees no more of a snapshot
\* than its run.  The part that imports has the accounts that bear a charge and at most
\* one fee, open two units at a time, close one at a time and end with a close; the two
\* ways to attribute a charge differ only if an order comes after it.
EXTENDS MCSnapshotPublication, LatestManifest, MCRecoveryPacks, CfdImports

CONSTANTS r1, r2

VARIABLE part  \* the part that runs

EnlargedLater == \E i \in Nights, j \in Opens : i < j
ImportedAccount ==
    /\ \A i \in Opens : account[i].units = 2
    /\ \A i \in Closes : account[i].units = 1
    /\ account[Events].kind = "close" /\ Nights # {}
    /\ Cardinality(Kind("fee", account)) <= 1
    /\ attribution = "spread" => EnlargedLater

StoresInit ==
    /\ part \in {"snapshots", "readers", "packs", "exports"}
    /\ ReaderInit
    /\ PoolInit /\ (part # "packs" => repository)
    /\ CfdInit
    /\ IF part = "exports" THEN ImportedAccount
       ELSE account[1].units = 2 /\ Nights = 2..Events /\ attribution = "held"

AccountsOnly == \A p \in Publisher : refresh'[p].asked = {}

StoresNext ==
    /\ UNCHANGED part
    /\ \/ part = "snapshots" /\ Next /\ UNCHANGED <<readerVars, during, poolVars, cfdVars>>
       \/ part = "readers" /\ ReaderNext /\ AccountsOnly /\ UNCHANGED <<poolVars, cfdVars>>
       \/ part = "packs" /\ PoolNext /\ UNCHANGED <<allVars, cfdVars>>
       \/ part = "exports" /\ CfdNext /\ UNCHANGED <<allVars, poolVars>>

StoresVars == <<part, allVars, poolVars, cfdVars>>
StoresSpec == StoresInit /\ [][StoresNext]_StoresVars

StoresSymmetric == Symmetric \cup Permutations({r1, r2})
=============================================================================
