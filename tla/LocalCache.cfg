SPECIFICATION Spec
CONSTANTS
  k1 = k1
  k2 = k2
  k3 = k3
  k4 = k4
  k5 = k5
  NoEntry = NoEntry
  Keys = {k1, k2, k3, k4, k5}
  Entries <- MCEntries
  Shards = {0, 1}
  ShardOf <- MCShardOf
  MaxCacheSize = 7
  Share = 2
  MaxTime = 2
SYMMETRY Symmetry
INVARIANTS CacheConsistent EvictsOldest
PROPERTIES KeepsContract
