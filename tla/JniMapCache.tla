---------------------------- MODULE JniMapCache ----------------------------
(***************************************************************************)
(* JNIMapCache of hinTS (jni_cache.rs): the caches of deserialized common  *)
(* reference strings and aggregation keys that the JNI threads share.  A   *)
(* get takes the write lock twice and deserializes in between, outside any *)
(* lock, so other gets and resets run between its look-up and its insert.  *)
(***************************************************************************)
EXTENDS Lists

CONSTANTS
    JniThreads, \* the JNI threads
    Keys,       \* serialized values
    Malformed,  \* the keys that do not deserialize
    SIZE,       \* entries a cache keeps
    MaxCalls    \* bound: calls each thread makes

ASSUME CacheAssumption ==
    /\ Malformed \subseteq Keys
    /\ SIZE \in Nat \ {0}
    /\ MaxCalls \in Nat

VARIABLES
    created,    \* the Option in the lock's cell is Some
    cache_map,  \* key -> Arc, a function on the cached keys
    lru_list,   \* the cached keys, least recently used first
    at,         \* [JniThreads -> "idle", "miss"]: between the two locked sections
    key,        \* [JniThreads -> Keys]: the argument of the thread's last get, if any
    result,     \* [JniThreads -> what its last get returned]
    calls,      \* [JniThreads -> 0 .. MaxCalls]
    uses        \* history: the keys returned since the last reset, in order

cacheVars == <<created, cache_map, lru_list, at, key, result, calls, uses>>

\* An Arc: the value of a key, and the deserialization that made it.
Arc(k, t) == [key |-> k, by |-> t, nr |-> calls[t]]
None     == [key |-> "none"]
Err      == [key |-> "error"]
EmptyMap == <<>>

-----------------------------------------------------------------------------
\* LRUCache::push_back_key: take the key out of the list and put it at the end.
extract(list, k) ==
    FoldLeft(LAMBDA kept, v : IF v = k THEN kept ELSE Append(kept, v), <<>>, list)
push_back_key(list, k) == Append(extract(list, k), k)

\* HashMap::insert of a new key.
With(map, k, arc) == [j \in DOMAIN map \cup {k} |-> IF j = k THEN arc ELSE map[j]]

Hit(k) == k \in DOMAIN cache_map

\* A mutant: the newest entry is returned instead of the key's own.
NewestArc(k) == cache_map[lru_list[Len(lru_list)]]

CachedArc(k) == cache_map[k]

\* get_if_hit returned Some: thread t gets the cached Arc.
Return(t, arc) == result' = [result EXCEPT ![t] = arc]
Touch(k) == lru_list' = push_back_key(lru_list, k) /\ UNCHANGED cache_map

\* A mutant: the most recently used key is evicted.
EvictNewest(map, list) ==
    IF Len(list) <= SIZE THEN <<map, list>>
    ELSE <<[k \in DOMAIN map \ {list[Len(list)]} |-> map[k]], SubSeq(list, 1, Len(list) - 1)>>

\* The end of LRUCache::insert: an over-full cache drops its oldest key.
Evict(map, list) ==
    IF Len(list) <= SIZE THEN <<map, list>>
    ELSE <<[k \in DOMAIN map \ {Head(list)} |-> map[k]], Tail(list)>>

\* A mutant: a value made meanwhile by another thread is replaced.
InsertAnyway(t, k) ==
    LET evicted == Evict(With(cache_map, k, Arc(k, t)), push_back_key(lru_list, k))
    IN  /\ cache_map' = evicted[1]
        /\ lru_list' = evicted[2]
        /\ Return(t, Arc(k, t))

\* LRUCache::insert: a value another thread inserted meanwhile wins.
insert(t, k) ==
    \/ /\ Hit(k)
       /\ Touch(k)
       /\ Return(t, CachedArc(k))
    \/ /\ ~Hit(k)
       /\ LET evicted == Evict(With(cache_map, k, Arc(k, t)), push_back_key(lru_list, k))
          IN  /\ cache_map' = evicted[1]
              /\ lru_list' = evicted[2]
              /\ Return(t, Arc(k, t))

-----------------------------------------------------------------------------
CacheInit ==
    /\ created = FALSE
    /\ cache_map = EmptyMap
    /\ lru_list = <<>>
    /\ at = [t \in JniThreads |-> "idle"]
    /\ key = [t \in JniThreads |-> None]
    /\ result = [t \in JniThreads |-> None]
    /\ calls = [t \in JniThreads |-> 0]
    /\ uses = <<>>

Begin(t) ==
    /\ at[t] = "idle"
    /\ calls[t] < MaxCalls
    /\ calls' = [calls EXCEPT ![t] = @ + 1]

\* The first section of get: a hit is returned, a missing cache is created.
LookUp(t, k) ==
    /\ Begin(t)
    /\ created' = TRUE
    /\ key' = [key EXCEPT ![t] = k]
    /\ IF created /\ Hit(k)
       THEN /\ Touch(k)
            /\ Return(t, CachedArc(k))
            /\ uses' = Append(uses, k)
            /\ UNCHANGED at
       ELSE /\ at' = [at EXCEPT ![t] = "miss"]
            /\ UNCHANGED <<cache_map, lru_list, result, uses>>

\* Deserialization fails, outside any lock: nothing is stored.
FailToDeserialize(t) ==
    /\ at[t] = "miss"
    /\ key[t] \in Malformed
    /\ at' = [at EXCEPT ![t] = "idle"]
    /\ Return(t, Err)
    /\ UNCHANGED <<created, cache_map, lru_list, key, calls, uses>>

\* The second section of get: unwrap the cell and insert.
Insert(t) ==
    /\ at[t] = "miss"
    /\ key[t] \notin Malformed
    /\ created
    /\ insert(t, key[t])
    /\ at' = [at EXCEPT ![t] = "idle"]
    /\ uses' = Append(uses, key[t])
    /\ UNCHANGED <<created, key, calls>>

\* A mutant: a reset drops the cache itself.
ResetToNone ==
    created' = FALSE /\ cache_map' = EmptyMap /\ lru_list' = <<>>

\* JNIMapCache::reset empties the cache, if there is one, and keeps the cell.
reset ==
    created' = created /\ cache_map' = EmptyMap /\ lru_list' = <<>>

Reset(t) ==
    /\ Begin(t)
    /\ reset
    /\ uses' = <<>>
    /\ UNCHANGED <<at, key, result>>

CacheNext ==
    \E t \in JniThreads :
        \/ \E k \in Keys : LookUp(t, k)
        \/ FailToDeserialize(t)
        \/ Insert(t)
        \/ Reset(t)

CacheSpec == CacheInit /\ [][CacheNext]_cacheVars

\* A thread that has missed goes on: nothing it waits for is held by another.
FairCacheSpec == CacheSpec /\ \A t \in JniThreads : WF_cacheVars(FailToDeserialize(t)) /\ WF_cacheVars(Insert(t))

-----------------------------------------------------------------------------
\* A get returns the value of the key it was given, or the error of a key
\* that does not deserialize, whatever ran between its two sections.
ReturnsItsOwnKey ==
    \A t \in JniThreads :
        at[t] = "idle" /\ result[t] # None =>
            IF key[t] \in Malformed THEN result[t] = Err ELSE result[t].key = key[t]

\* The SIZE keys that were used last since the last reset.
LastUse(k) == Max({i \in DOMAIN uses : uses[i] = k})
Recent     == {k \in ToSet(uses) :
                  Cardinality({j \in ToSet(uses) : LastUse(j) > LastUse(k)}) < SIZE}

\* The cache holds exactly those keys, its list orders them by last use, and
\* its map has the same keys: the assert_eq of insert never fires.
HoldsTheMostRecent ==
    /\ ToSet(lru_list) = Recent
    /\ DOMAIN cache_map = Recent
    /\ Len(lru_list) = Cardinality(Recent)
    /\ \A i, j \in DOMAIN lru_list : i < j => LastUse(lru_list[i]) < LastUse(lru_list[j])

\* While a key stays cached its Arc is never replaced: threads that miss
\* together end up sharing one value.
CachedValuesAreShared ==
    [][\A k \in DOMAIN cache_map \cap DOMAIN cache_map' : cache_map'[k] = cache_map[k]]_cacheVars

\* Every get that misses returns.
EveryGetReturns == \A t \in JniThreads : at[t] = "miss" ~> at[t] = "idle"
=============================================================================
