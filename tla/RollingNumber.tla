--------------------------- MODULE RollingNumber ---------------------------
(***************************************************************************)
(* The rolling counters of source/common/stats: a map from unix second to  *)
(* bucket value.  `b' stands for buckets_, `w' for window_size_, and a tick *)
(* is a unix second.                                                        *)
(***************************************************************************)
EXTENDS Integers, FiniteSets, FiniteSetsExt

EmptyBuckets == [t \in {} |-> 0]

\* The value of the bucket of second t; an absent bucket contributes nothing.
BucketValue(b, t) == IF t \in DOMAIN b THEN b[t] ELSE 0

\* getCurrentBucket creates the bucket of the current second if it is missing;
\* Increment then adds to it.
AddToCurrentBucket(b, tick, i) ==
  [t \in DOMAIN b \cup {tick} |-> BucketValue(b, t) + IF t = tick THEN i ELSE 0]

\* A variant of the pruning below that also drops the oldest second still in
\* the window.
RemoveOldBucketsEager(b, tick, w) ==
  [t \in {u \in DOMAIN b : u > tick - w + 1} |-> b[t]]

\* lower_bound(tick - window): the bucket exactly one window old survives.
RemoveOldBuckets(b, tick, w) ==
  [t \in {u \in DOMAIN b : u >= tick - w} |-> b[t]]

\* Increment reads the clock twice: once for the bucket, once for the pruning.
Increment(b, tick, prune, w, i) ==
  RemoveOldBuckets(AddToCurrentBucket(b, tick, i), prune, w)

\* The seconds Sum(now) counts: strictly younger than one window, with no
\* upper limit.
InWindow(t, tick, w) == t > tick - w

\* Sum adds the buckets inside the window (its own pruning comes after).
SumOf(b, tick, w) ==
  MapThenSumSet(LAMBDA t : b[t], {t \in DOMAIN b : InWindow(t, tick, w)})

=============================================================================
