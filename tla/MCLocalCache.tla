---------------------------- MODULE MCLocalCache ----------------------------
(* Four keys compete for one LRU cache, a fifth has another to itself.  An  *)
(* entry of length 4 exceeds a cache on its own.                            *)
EXTENDS LocalCache

CONSTANTS k1, k2, k3, k4, k5

MCShardOf == [k \in Keys |-> IF k = k5 THEN 1 ELSE 0]

MCEntries ==
  {[value |-> "a", length |-> 1, expire |-> 2],
   [value |-> "b", length |-> 1, expire |-> 1],
   [value |-> "c", length |-> 2, expire |-> 2],
   [value |-> "d", length |-> 4, expire |-> 2]}

Symmetry == Permutations({k1, k2, k3, k4})
=============================================================================
