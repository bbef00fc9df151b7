----------------------------- MODULE LocalCache -----------------------------
(***************************************************************************)
(* LocalCache: several LRU caches, each with its own mutex and an equal     *)
(* share of the memory; the first byte of a key selects its cache.  The     *)
(* workers' calls on one LRU cache are serialised by its mutex, so each     *)
(* call is one step.                                                        *)
(***************************************************************************)
EXTENDS LruCache, FiniteSets, FiniteSetsExt

CONSTANTS
  Keys,          \* cache keys
  Entries,       \* the entries inserted: [value, length, expire]
  Shards,        \* the indices of lru_caches_ (0 .. 15 in the code)
  ShardOf,       \* key[0] % cache_list_number_
  MaxCacheSize,  \* max_cache_size of the configuration
  MaxTime        \* bound: the last timestamp of a behaviour

ASSUME EntriesAssumption ==
  \A e \in Entries : e \in [value : {e.value}, length : Nat, expire : Nat]
ASSUME ShardsAssumption == IsFiniteSet(Shards) /\ Shards # {} /\ ShardOf \in [Keys -> Shards]
ASSUME SizeAssumption == MaxCacheSize \in Nat /\ MaxTime \in Nat

VARIABLES
  now,         \* TimeUtil::createTimestamp()
  lru_caches,  \* lru_caches_
  reply,       \* the key and the result when the last step was a lookup
  recency      \* history: the keys held, the most recent use first

vars == <<now, lru_caches, reply, recency>>

\* single_max_cache_size
SingleMax == MaxCacheSize \div Cardinality(Shards)

Init ==
  /\ now = 0
  /\ lru_caches = [i \in Shards |-> EmptyLru]
  /\ reply = <<NoEntry, NoEntry>>
  /\ recency = <<>>

KeysIn(i) == DOMAIN lru_caches[i].dict
Holds(k) == k \in KeysIn(ShardOf[k])

\* The keys still held, after the keys in q have been used last.
UsedNow(q) ==
  recency' = SelectSeq(q \o SelectSeq(recency, LAMBDA j : ~Contains(q, j)), LAMBDA j : Holds(j)')

InsertCache(k, e) ==
  /\ lru_caches' = [lru_caches EXCEPT ![ShardOf[k]] = LruInsert(@, k, e, SingleMax)]
  /\ UsedNow(<<k>>)
  /\ reply' = <<NoEntry, NoEntry>>
  /\ UNCHANGED now

RemoveCache(k) ==
  /\ lru_caches' = [lru_caches EXCEPT ![ShardOf[k]] = RemoveImpl(@, k)]
  /\ UsedNow(<<>>)
  /\ reply' = <<NoEntry, NoEntry>>
  /\ UNCHANGED now

LookupCache(k) ==
  LET result == LruLookup(lru_caches[ShardOf[k]], k, now)
  IN
  /\ lru_caches' = [lru_caches EXCEPT ![ShardOf[k]] = result.lru]
  /\ UsedNow(<<k>>)
  /\ reply' = <<k, result.entry>>
  /\ UNCHANGED now

Tick ==
  /\ now < MaxTime
  /\ now' = now + 1
  /\ reply' = <<NoEntry, NoEntry>>
  /\ UNCHANGED <<lru_caches, recency>>

Next ==
  \/ \E k \in Keys, e \in Entries : InsertCache(k, e)
  \/ \E k \in Keys : RemoveCache(k)
  \/ \E k \in Keys : LookupCache(k)
  \/ Tick

Spec == Init /\ [][Next]_vars

-----------------------------------------------------------------------------
\* The three records of a shard agree: list and dictionary hold the same keys, in
\* order of last use, so that the repair in checkMemory never runs; cache_length_
\* is the sum of the entries it stands for, whatever replaced, expired, removed or
\* reclaimed them; and the shards together never hold more than max_cache_size
\* once a call returns.
CacheConsistent ==
  /\ \A i \in Shards :
       /\ lru_caches[i].list = SelectSeq(recency, LAMBDA k : k \in KeysIn(i))
       /\ lru_caches[i].length
            = MapThenSumSet(LAMBDA k : lru_caches[i].dict[k].length, KeysIn(i))
  /\ MapThenSumSet(LAMBDA i : lru_caches[i].length, Shards) <= MaxCacheSize

\* In any state, an insert that fits would evict nobody, and one that does not
\* fit drops the keys used longest ago: whoever survives was used after them.
EvictsOldest ==
  \A k \in Keys, e \in Entries :
    LET c == lru_caches[ShardOf[k]]
        d == LruInsert(c, k, e, SingleMax)
        evicted == DOMAIN c.dict \ (DOMAIN d.dict \cup {k})
        old == IF Holds(k) THEN c.dict[k].length ELSE 0
    IN  /\ c.length - old + e.length <= SingleMax => evicted = {} /\ k \in DOMAIN d.dict
        /\ \A m, n \in DOMAIN recency :
             recency[m] \in evicted /\ recency[n] \in DOMAIN d.dict \ {k}
               /\ ShardOf[recency[n]] = ShardOf[k] => n < m

\* The local cache keeps the promise of CommonCacheBase.
Remembered == [k \in {j \in Keys : Holds(j)} |-> lru_caches[ShardOf[k]].dict[k]]

Contract == INSTANCE CacheContract WITH store <- Remembered

\* Lookups never return replaced, removed or expired entries.
KeepsContract == Contract!Spec

=============================================================================
