---------------------------- MODULE LatestManifest ----------------------------
(***************************************************************************)
(* ArtifactStore.latest_manifest: request threads of the API process read  *)
(* the latest manifest through a cache keyed by the file signature of      *)
(* latest.json, while workers of another process publish.  The stat that   *)
(* yields the signature is made before the lock is taken, so a thread may  *)
(* work with a signature that others have outdated.  Each replacement of   *)
(* the pointer gives it a new signature; the run it names stands for both. *)
(***************************************************************************)
EXTENDS SnapshotPublication

CONSTANTS
    Reader,   \* threads of the API process
    NoReader  \* the manifest lock is free

ASSUME ReaderAssumption == NoReader \notin Reader

VARIABLES
    step,        \* step[r]: next step of r's call, "idle" outside of one
    stamp,       \* stamp[r]: the signature r's call found
    loaded,      \* loaded[r]: the run r read from the pointer file
    lock,        \* holder of _manifest_lock
    cacheStamp,  \* _latest_signature, 0 for None
    cacheRun,    \* _latest_cache
    during,      \* during[r]: runs the pointer has named since r's call began
    answer       \* answer[r]: result of r's last call, 0 for None

readerVars == <<step, stamp, loaded, lock, cacheStamp, cacheRun, answer>>
allVars == <<vars, readerVars, during>>

\* Types, and that the lock is held exactly by the thread that fills the cache.
ReaderTypeOK ==
    /\ PublicationTypeOK
    /\ step \in [Reader -> {"idle", "lookup", "read", "remember"}]
    /\ stamp \in [Reader -> Number]
    /\ loaded \in [Reader -> Number]
    /\ lock \in Reader \cup {NoReader}
    /\ cacheStamp \in Number
    /\ cacheRun \in Number
    /\ during \in [Reader -> SUBSET Number]
    /\ answer \in [Reader -> Number]
    /\ \A r \in Reader : step[r] \in {"read", "remember"} <=> lock = r

ReaderInit ==
    /\ Init
    /\ step = [r \in Reader |-> "idle"]
    /\ stamp = [r \in Reader |-> 0]
    /\ loaded = [r \in Reader |-> 0]
    /\ lock = NoReader
    /\ cacheStamp = 0
    /\ cacheRun = 0
    /\ during = [r \in Reader |-> {0}]
    /\ answer = [r \in Reader |-> 0]
-----------------------------------------------------------------------------
Answer(r, run) ==
    /\ step' = [step EXCEPT ![r] = "idle"]
    /\ answer' = [answer EXCEPT ![r] = run]

\* The call begins with the stat; without a pointer file there is no snapshot.
Stat(r) ==
    /\ step[r] = "idle"
    /\ during' = [during EXCEPT ![r] = {pointer}]
    /\ IF pointer = 0
       THEN Answer(r, 0) /\ UNCHANGED stamp
       ELSE /\ stamp' = [stamp EXCEPT ![r] = pointer]
            /\ step' = [step EXCEPT ![r] = "lookup"]
            /\ UNCHANGED answer
    /\ UNCHANGED <<vars, loaded, lock, cacheStamp, cacheRun>>

Hit(r) == cacheRun # 0 /\ cacheStamp = stamp[r]

\* Under the lock: return the cached manifest, or go on holding the lock.
Lookup(r) ==
    /\ step[r] = "lookup"
    /\ lock = NoReader
    /\ \/ /\ Hit(r)
          /\ Answer(r, cacheRun)
          /\ UNCHANGED lock
       \/ /\ ~Hit(r)
          /\ lock' = r
          /\ step' = [step EXCEPT ![r] = "read"]
          /\ UNCHANGED answer
    /\ UNCHANGED <<vars, stamp, loaded, cacheStamp, cacheRun, during>>

\* SnapshotStore.latest(): the pointer may have moved since the stat.
Read(r) ==
    /\ step[r] = "read"
    /\ loaded' = [loaded EXCEPT ![r] = pointer]
    /\ step' = [step EXCEPT ![r] = "remember"]
    /\ UNCHANGED <<vars, stamp, lock, cacheStamp, cacheRun, during, answer>>

FaultyRemember(r) ==  \* signature taken after the read
    /\ step[r] = "remember"
    /\ cacheStamp' = pointer
    /\ cacheRun' = loaded[r]
    /\ lock' = NoReader
    /\ Answer(r, loaded[r])
    /\ UNCHANGED <<vars, stamp, loaded, during>>

\* The cache keeps what was read under the signature from before the read.
Remember(r) ==
    /\ step[r] = "remember"
    /\ cacheStamp' = stamp[r]
    /\ cacheRun' = loaded[r]
    /\ lock' = NoReader
    /\ Answer(r, loaded[r])
    /\ UNCHANGED <<vars, stamp, loaded, during>>

\* A step of the publishing side, which every open call witnesses.
PublisherStep ==
    /\ Next
    /\ during' = [r \in Reader |-> during[r] \cup (IF step[r] = "idle" THEN {} ELSE {pointer'})]
    /\ UNCHANGED readerVars

ReaderNext ==
    \/ PublisherStep
    \/ \E r \in Reader : Stat(r) \/ Lookup(r) \/ Read(r) \/ Remember(r)

ReaderSpec == ReaderInit /\ [][ReaderNext]_allVars
-----------------------------------------------------------------------------
\* "Readers therefore either see the previous complete snapshot or the new
\* complete snapshot" (snapshots.py:5): whatever the cache holds and whoever
\* filled it, an answer is a run that was the latest at some moment of the call,
\* and its manifest is written.
FreshAnswer ==
    \A r \in Reader : step[r] = "idle" => answer[r] \in during[r] /\ answer[r] \in runs \cup {0}
=============================================================================
