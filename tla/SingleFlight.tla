----------------------------- MODULE SingleFlight -----------------------------
(***************************************************************************)
(* SingleFlightCache.resolve: threads share a bounded cache and the loads  *)
(* under way.  A call takes the lock to look its key up, loads without it, *)
(* takes it again to store the value, and completes the future that other  *)
(* calls wait for after releasing it.  Loads are numbered; the number of a *)
(* load stands for its future and for the value it returns.  valid() turns *)
(* false with time, and a load may return a value that is not valid.       *)
(***************************************************************************)
EXTENDS Naturals, FiniteSets

CONSTANTS
    Caller,    \* threads that use the cache
    Key,       \* keys they ask for
    Capacity,  \* capacity of the cache
    MaxLoads   \* bound: loads begun

ASSUME SingleFlightAssumption == Capacity \in Nat \ {0} /\ MaxLoads \in Nat

VARIABLES
    loads,    \* loads begun
    cached,   \* keys of _values
    entry,    \* entry[k]: the load whose value is cached for k, 0 for none
    after,    \* after[k]: the keys that follow k in the order of _values
    pending,  \* pending[k]: the future in _pending, 0 for none
    done,     \* futures completed with a value
    failed,   \* futures completed with an exception
    invalid,  \* loads whose value is not valid any more
    stage,    \* stage[c]: next step of c's call, "idle" outside of one
    key,      \* key[c]: the key c asks for
    future,   \* future[c]: the future c owns or waits for
    spoiled,  \* spoiled[c]: invalid values of loads that were over when c's call began
    got       \* got[c]: value of c's last call, 0 before it and for an exception

table == <<cached, entry, after>>
locals == <<stage, key, future, spoiled, got>>
callVars == <<loads, table, pending, done, failed, invalid, locals>>

Load == 1..MaxLoads
Owning == {"load", "store", "fail"}
Completing == {"publish", "raise"}

\* Types, and that _values orders exactly the cached keys.
CacheTypeOK ==
    /\ loads \in 0..MaxLoads
    /\ cached \subseteq Key
    /\ entry \in [Key -> 0..MaxLoads]
    /\ after \in [Key -> SUBSET Key]
    /\ pending \in [Key -> 0..MaxLoads]
    /\ done \subseteq Load /\ failed \subseteq Load /\ invalid \subseteq Load
    /\ stage \in [Caller -> {"idle", "wait"} \cup Owning \cup Completing]
    /\ key \in [Caller -> Key]
    /\ future \in [Caller -> 0..MaxLoads]
    /\ spoiled \in [Caller -> SUBSET Load]
    /\ got \in [Caller -> 0..MaxLoads]
    /\ \A k \in Key : (k \in cached <=> entry[k] # 0) /\ after[k] \subseteq cached \ {k}
    /\ \A j, k \in cached : j # k => (j \in after[k] <=> k \notin after[j])

CallInit ==
    /\ loads = 0
    /\ cached = {}
    /\ entry = [k \in Key |-> 0]
    /\ after = [k \in Key |-> {}]
    /\ pending = [k \in Key |-> 0]
    /\ done = {} /\ failed = {} /\ invalid = {}
    /\ stage = [c \in Caller |-> "idle"]
    /\ key \in [Caller -> Key]
    /\ future = [c \in Caller |-> 0]
    /\ spoiled = [c \in Caller |-> {}]
    /\ got = [c \in Caller |-> 0]
-----------------------------------------------------------------------------
MoveTo(c, label) == stage' = [stage EXCEPT ![c] = label]

Return(c, value) ==
    /\ MoveTo(c, "idle")
    /\ got' = [got EXCEPT ![c] = value]

\* The call begins, with k for its key.
Ask(c, k) ==
    /\ stage[c] = "idle"
    /\ key' = [key EXCEPT ![c] = k]
    /\ spoiled' = [spoiled EXCEPT ![c] =
           {n \in invalid : \A d \in Caller : stage[d] \in Owning => future[d] # n}]

Usable(k) == k \in cached /\ entry[k] \notin invalid

\* The order of _values when k has moved to its end.
Touched(k, keys) ==
    [j \in Key |-> IF j = k \/ j \notin keys THEN {} ELSE (after[j] \cup {k}) \cap keys]

\* The cached value is valid: it becomes the most recently used one.
HitEntry(c, k) ==
    /\ Ask(c, k)
    /\ Usable(k)
    /\ after' = Touched(k, cached)
    /\ Return(c, entry[k])
    /\ UNCHANGED <<loads, cached, entry, pending, done, failed, invalid, future>>

\* A value that is not valid is deleted.
Drop(k) ==
    /\ cached' = cached \ {k}
    /\ entry' = [entry EXCEPT ![k] = 0]
    /\ after' = [j \in Key |-> IF j = k THEN {} ELSE after[j] \ {k}]

\* A load of the key is under way: wait for its future.
Join(c, k) ==
    /\ Ask(c, k)
    /\ ~Usable(k)
    /\ Drop(k)
    /\ pending[k] # 0
    /\ future' = [future EXCEPT ![c] = pending[k]]
    /\ MoveTo(c, "wait")
    /\ UNCHANGED <<loads, pending, done, failed, invalid, got>>

FaultyOwn(c, k) ==  \* the future is not registered
    /\ Ask(c, k)
    /\ ~Usable(k)
    /\ Drop(k)
    /\ pending[k] = 0
    /\ loads < MaxLoads
    /\ loads' = loads + 1
    /\ future' = [future EXCEPT ![c] = loads + 1]
    /\ MoveTo(c, "load")
    /\ UNCHANGED <<pending, done, failed, invalid, got>>

\* No load is under way: this call owns the next one.
Own(c, k) ==
    /\ Ask(c, k)
    /\ ~Usable(k)
    /\ Drop(k)
    /\ pending[k] = 0
    /\ loads < MaxLoads
    /\ loads' = loads + 1
    /\ pending' = [pending EXCEPT ![k] = loads + 1]
    /\ future' = [future EXCEPT ![c] = loads + 1]
    /\ MoveTo(c, "load")
    /\ UNCHANGED <<done, failed, invalid, got>>

\* load() returns or raises, without the lock.
LoadEnds(c) ==
    /\ stage[c] = "load"
    /\ \/ MoveTo(c, "fail") /\ UNCHANGED invalid
       \/ /\ MoveTo(c, "store")
          /\ invalid' \in {invalid, invalid \cup {future[c]}}
    /\ UNCHANGED <<loads, table, pending, done, failed, key, future, spoiled, got>>

\* What the eviction of the oldest keys leaves.
Kept(keys, order) == {j \in keys : Cardinality(order[j]) < Capacity}

FaultyStore(c) ==  \* the future stays registered
    LET k == key[c]
        keys == cached \cup {k}
        left == Kept(keys, Touched(k, keys))
    IN  /\ stage[c] = "store"
        /\ cached' = left
        /\ entry' = [j \in Key |-> IF j \notin left THEN 0 ELSE IF j = k THEN future[c] ELSE entry[j]]
        /\ after' = Touched(k, left)
        /\ MoveTo(c, "publish")
        /\ UNCHANGED <<loads, pending, done, failed, invalid, key, future, spoiled, got>>

\* The value becomes the newest, the oldest are evicted, the future is unregistered.
Store(c) ==
    LET k == key[c]
        keys == cached \cup {k}
        left == Kept(keys, Touched(k, keys))
    IN  /\ stage[c] = "store"
        /\ cached' = left
        /\ entry' = [j \in Key |-> IF j \notin left THEN 0 ELSE IF j = k THEN future[c] ELSE entry[j]]
        /\ after' = Touched(k, left)
        /\ pending' = [pending EXCEPT ![k] = 0]
        /\ MoveTo(c, "publish")
        /\ UNCHANGED <<loads, done, failed, invalid, key, future, spoiled, got>>

PublishResult(c) ==
    /\ stage[c] = "publish"
    /\ done' = done \cup {future[c]}
    /\ Return(c, future[c])
    /\ UNCHANGED <<loads, table, pending, failed, invalid, key, future, spoiled>>

\* The load raised: the future is unregistered, nothing is cached.
Fail(c) ==
    /\ stage[c] = "fail"
    /\ pending' = [pending EXCEPT ![key[c]] = 0]
    /\ MoveTo(c, "raise")
    /\ UNCHANGED <<loads, table, done, failed, invalid, key, future, spoiled, got>>

FaultyRaise(c) ==  \* the waiting calls are not told
    /\ stage[c] = "raise"
    /\ Return(c, 0)
    /\ UNCHANGED <<loads, table, pending, done, failed, invalid, key, future, spoiled>>

Raise(c) ==
    /\ stage[c] = "raise"
    /\ failed' = failed \cup {future[c]}
    /\ Return(c, 0)
    /\ UNCHANGED <<loads, table, pending, done, invalid, key, future, spoiled>>

\* pending.result() returns or raises.
Wake(c) ==
    /\ stage[c] = "wait"
    /\ \/ future[c] \in done /\ Return(c, future[c])
       \/ future[c] \in failed /\ Return(c, 0)
    /\ UNCHANGED <<loads, table, pending, done, failed, invalid, key, future, spoiled>>

\* Time passes, or the source moves on.
Expire(k) ==
    /\ k \in cached
    /\ invalid' = invalid \cup {entry[k]}
    /\ UNCHANGED <<loads, table, pending, done, failed, locals>>

Proceed(c) == LoadEnds(c) \/ Store(c) \/ PublishResult(c) \/ Fail(c) \/ Raise(c) \/ Wake(c)

CallNext ==
    \/ \E c \in Caller : Proceed(c) \/ \E k \in Key : HitEntry(c, k) \/ Join(c, k) \/ Own(c, k)
    \/ \E k \in Key : Expire(k)

CallSpec == CallInit /\ [][CallNext]_callVars

\* A call under way goes on: loads end, and nobody keeps the lock.
FairCallSpec == CallSpec /\ \A c \in Caller : WF_callVars(Proceed(c))
-----------------------------------------------------------------------------
\* "Coalesces only identical in-flight work" (singleflight.py:1): a key has one
\* load at a time, and none while a value of it is cached, so that no load can
\* replace the value of a later one.
OneLoadPerKey ==
    /\ \A c, d \in Caller : stage[c] \in Owning /\ stage[d] \in Owning /\ key[c] = key[d] => c = d
    /\ \A c \in Caller : stage[c] \in Owning => key[c] \notin cached

\* A value that was invalid, with its load over, before a call began is not its
\* got: neither from the cache nor through a future that outlived its load.
\* Only a load that overlaps the call may hand it such a value.
NothingSpoiled == \A c \in Caller : stage[c] = "idle" => got[c] \notin spoiled[c]

\* A call waits only for a future that is completed or that an active call owns:
\* exceptions included, nobody is left waiting.
WaitersHaveOwner ==
    \A c \in Caller : stage[c] = "wait" =>
        \/ future[c] \in done \cup failed
        \/ \E d \in Caller : stage[d] \in Owning \cup Completing /\ future[d] = future[c]

\* Every call returns, whatever the loads of other calls do.
EveryCallReturns == \A c \in Caller : stage[c] # "idle" ~> stage[c] = "idle"
=============================================================================
