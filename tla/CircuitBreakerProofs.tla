------------------------ MODULE CircuitBreakerProofs ------------------------
(***************************************************************************)
(* Proofs about CircuitBreaker for every number of streams and routes, all  *)
(* settings and all time bounds.                                            *)
(***************************************************************************)
EXTENDS CircuitBreaker, TLAPS

\* What a stream's history says about where it is; with it the filter's
\* invariants become inductive.
HistoryInv ==
  \A s \in Streams :
    /\ fate[s] = "rejected" => local_replied[s]
    /\ counted[s] # None => pc[s] = "done"
    /\ counted[s] # None => ~local_replied[s]

\* The types of the breakers as sets, which is how the provers like them.
BucketMaps == UNION {[T -> Nat] : T \in SUBSET (0 .. MaxTime)}

BreakerType ==
  [valid_time : Nat \cup {None}, slow : Nat, requests : BucketMaps, errors : BucketMaps]

BreakersTyped == breakers \in [DOMAIN breakers -> BreakerType]

\* Until breakDuration after a trip has passed nothing closes the breaker.
BreakStands ==
  \A u \in Uuids :
    tripped[u] # None /\ now <= tripped[u] + Settings[u].breakDuration =>
      u \in DOMAIN breakers /\ breakers[u].valid_time # None

IInv ==
  /\ TypeOK
  /\ BreakersTyped
  /\ HistoryInv
  /\ ClosedBelowSlowLimit
  /\ CountedWhereChecked
  /\ OpenBounded
  /\ BreakStands

-----------------------------------------------------------------------------
(* The rolling counters keep their type. *)

\* A time in seconds is within the bound of time.
LEMMA SecondType ==
  ASSUME NEW t \in 0 .. MaxTime
  PROVE  Second(t) \in 0 .. MaxTime
BY TimeAssumption DEF Second

\* A counter starts as a map of buckets.
LEMMA EmptyBucketsType == EmptyBuckets \in BucketMaps
<1>1. EmptyBuckets \in [{} -> Nat]
  BY DEF EmptyBuckets
<1>2. {} \in SUBSET (0 .. MaxTime)
  OBVIOUS
<1> QED BY <1>1, <1>2 DEF BucketMaps

\* Dropping the buckets that left the window keeps a map of buckets.
LEMMA RemoveOldBucketsType ==
  ASSUME NEW b \in BucketMaps, NEW tick, NEW w
  PROVE  RemoveOldBuckets(b, tick, w) \in BucketMaps
<1>1. PICK T \in SUBSET (0 .. MaxTime) : b \in [T -> Nat]
  BY DEF BucketMaps
<1> DEFINE U == {u \in DOMAIN b : u >= tick - w}
<1>2. U \in SUBSET (0 .. MaxTime)
  BY <1>1
<1>3. RemoveOldBuckets(b, tick, w) \in [U -> Nat]
  BY <1>1 DEF RemoveOldBuckets
<1> QED BY <1>2, <1>3 DEF BucketMaps

\* Counting in the current bucket keeps a map of buckets.
LEMMA AddToCurrentBucketType ==
  ASSUME NEW b \in BucketMaps, NEW tick \in 0 .. MaxTime, NEW i \in Nat
  PROVE  AddToCurrentBucket(b, tick, i) \in BucketMaps
<1>1. PICK T \in SUBSET (0 .. MaxTime) : b \in [T -> Nat]
  BY DEF BucketMaps
<1> DEFINE U == DOMAIN b \cup {tick}
<1>2. U \in SUBSET (0 .. MaxTime)
  BY <1>1
<1>3. ASSUME NEW t \in U
      PROVE  BucketValue(b, t) + (IF t = tick THEN i ELSE 0) \in Nat
  BY <1>1, <1>3 DEF BucketValue
<1>4. AddToCurrentBucket(b, tick, i) \in [U -> Nat]
  BY <1>3 DEF AddToCurrentBucket
<1> QED BY <1>2, <1>4 DEF BucketMaps

\* So do an increment of a rolling number and a read of it.
LEMMA CountersType ==
  ASSUME NEW b \in BucketMaps, NEW u \in Uuids, now \in 0 .. MaxTime
  PROVE  /\ Counted(b, u, 1) \in BucketMaps
         /\ Kept(b, u) \in BucketMaps
<1>1. Second(now) \in 0 .. MaxTime
  BY SecondType
<1>2. AddToCurrentBucket(b, Second(now), 1) \in BucketMaps
  BY <1>1, AddToCurrentBucketType
<1> QED BY <1>2, RemoveOldBucketsType DEF Counted, Kept, Increment

\* The breaker type used here is the one of TypeOK.
LEMMA IsBreakerFromType ==
  ASSUME NEW b \in BreakerType
  PROVE  IsBreaker(b)
<1>1. ASSUME NEW f \in BucketMaps PROVE IsBuckets(f)
  <2>1. PICK T \in SUBSET (0 .. MaxTime) : f \in [T -> Nat]
    BY <1>1 DEF BucketMaps
  <2> QED BY <2>1 DEF IsBuckets
<1>2. IsBuckets(b.requests) /\ IsBuckets(b.errors)
  BY <1>1 DEF BreakerType
<1> QED BY <1>2 DEF BreakerType, IsBreaker

-----------------------------------------------------------------------------
(* What the breaker's two operations do. *)

\* A new breaker is closed and has seen nothing slow.
LEMMA NewBreakerFacts ==
  /\ NewBreaker \in BreakerType
  /\ NewBreaker.valid_time = None
  /\ NewBreaker.slow = 0
BY EmptyBucketsType DEF NewBreaker, BreakerType

\* Recording a response keeps the type; pruning leaves the slow count.
LEMMA RecordedType ==
  ASSUME NEW b \in BreakerType, NEW u \in Uuids, NEW error \in BOOLEAN, NEW rt \in Int,
         now \in 0 .. MaxTime
  PROVE  /\ Recorded(b, u, error, rt) \in BreakerType
         /\ Pruned(Recorded(b, u, error, rt), u) \in BreakerType
         /\ Pruned(Recorded(b, u, error, rt), u).slow = Recorded(b, u, error, rt).slow
<1> DEFINE r == Recorded(b, u, error, rt)
<1>1. SlowCount(b, u, rt) \in Nat
  BY DEF SlowCount, BreakerType
<1>2. Counted(b.requests, u, 1) \in BucketMaps /\ Counted(b.errors, u, 1) \in BucketMaps
  BY CountersType DEF BreakerType
<1>3. r \in BreakerType
  BY <1>1, <1>2 DEF Recorded, BreakerType
<1>4. Kept(r.requests, u) \in BucketMaps /\ Kept(r.errors, u) \in BucketMaps
  BY <1>3, CountersType DEF BreakerType
<1> HIDE DEF r
<1>5. Pruned(r, u) \in BreakerType /\ Pruned(r, u).slow = r.slow
  BY <1>3, <1>4 DEF Pruned, BreakerType
<1> QED BY <1>3, <1>5 DEF r

\* updateMetrics opens the breaker exactly when the new counts call for it and
\* otherwise leaves valid_time_ alone.
LEMMA UpdateMetricsFacts ==
  ASSUME NEW b \in BreakerType, NEW u \in Uuids, NEW error \in BOOLEAN, NEW rt \in Int,
         now \in 0 .. MaxTime
  PROVE  LET r == Recorded(b, u, error, rt)
             n == UpdateMetrics(b, u, error, rt)
         IN  /\ n \in BreakerType
             /\ n.slow = r.slow
             /\ ShouldBreak(u, r) => n.valid_time = now + Settings[u].breakDuration
             /\ ~ShouldBreak(u, r) => n.valid_time = b.valid_time
             /\ ~ShouldBreak(u, r) => ~TooSlow(u, n.slow)
<1> DEFINE r == Recorded(b, u, error, rt)
           p == Pruned(r, u)
           n == UpdateMetrics(b, u, error, rt)
           v == IF ShouldBreak(u, r) THEN now + Settings[u].breakDuration ELSE b.valid_time
<1>1. p \in BreakerType /\ p.slow = r.slow
  BY RecordedType
<1>2. n = [p EXCEPT !.valid_time = v]
  BY DEF UpdateMetrics
<1>3. v \in Nat \cup {None}
  BY SettingsAssumption DEF SettingsType, BreakerType
<1> HIDE DEF p, v
<1>4. n \in BreakerType /\ n.slow = p.slow /\ n.valid_time = v
  BY <1>1, <1>2, <1>3 DEF BreakerType
<1>5. ~ShouldBreak(u, r) => ~TooSlow(u, r.slow)
  BY DEF ShouldBreak
<1> QED BY <1>1, <1>4, <1>5 DEF v

\* isOpen resets a breaker whose break has expired, and changes no other.
LEMMA AfterIsOpenFacts ==
  ASSUME NEW b \in BreakerType, now \in 0 .. MaxTime
  PROVE  /\ AfterIsOpen(b) \in BreakerType
         /\ Expired(b) => AfterIsOpen(b).valid_time = None /\ AfterIsOpen(b).slow = 0
         /\ ~Expired(b) => AfterIsOpen(b) = b
BY DEF AfterIsOpen, BreakerType

\* A response time is a number, also when the request has none.
LEMMA ResponseTimesType ==
  ASSUME TypeOK, NEW s \in Streams, route[s] # None, NEW error \in BOOLEAN,
         NEW rt \in ResponseTimes(s, error)
  PROVE  rt \in Int
<1>1. route[s] \in Uuids
  BY DEF TypeOK
<1>2. Settings[route[s]].averageResponseTimeThreshold \in Nat \cup {None}
  BY <1>1, SettingsAssumption DEF SettingsType
<1>3. now - start_time[s] \in Int
  BY DEF TypeOK
<1> QED BY <1>2, <1>3, TimeAssumption DEF ResponseTimes

-----------------------------------------------------------------------------
(* The inductive invariant, one lemma per group of actions. *)

\* The invariant holds before the first request.
LEMMA InitIInv == Init => IInv
<1> SUFFICES ASSUME Init PROVE IInv
  OBVIOUS
<1>1. TypeOK
  BY TimeAssumption, NoneAssumption DEF Init, TypeOK
<1>2. HistoryInv /\ CountedWhereChecked /\ BreakersTyped
  BY DEF Init, HistoryInv, CountedWhereChecked, BreakersTyped
<1>3. ClosedBelowSlowLimit /\ OpenBounded /\ BreakStands
  BY DEF Init, ClosedBelowSlowLimit, OpenBounded, BreakStands
<1> QED BY <1>1, <1>2, <1>3 DEF IInv

\* Steps that touch neither a breaker nor the clock.
LEMMA FilterStep ==
  ASSUME IInv, NEW s \in Streams,
         \/ DecodeHeadersPlain(s)
         \/ DecodeDataEnd(s)
         \/ DecodeTrailers(s)
         \/ \E u \in Uuids \cup {None} : ClearRouteCache(s, u)
         \/ EncodeHeadersSkip(s)
  PROVE  IInv'
<1>1. TypeOK'
  <2>1. CASE DecodeHeadersPlain(s)
    BY <2>1 DEF IInv, TypeOK, DecodeHeadersPlain
  <2>2. CASE DecodeDataEnd(s)
    BY <2>2 DEF IInv, TypeOK, DecodeDataEnd
  <2>3. CASE DecodeTrailers(s)
    BY <2>3 DEF IInv, TypeOK, DecodeTrailers
  <2>4. ASSUME NEW u \in Uuids \cup {None}, ClearRouteCache(s, u) PROVE TypeOK'
    BY <2>4 DEF IInv, TypeOK, ClearRouteCache
  <2>5. CASE EncodeHeadersSkip(s)
    BY <2>5 DEF IInv, TypeOK, EncodeHeadersSkip
  <2> QED BY <2>1, <2>2, <2>3, <2>4, <2>5
<1>2. HistoryInv'
  <2>1. CASE DecodeHeadersPlain(s)
    BY <2>1 DEF IInv, TypeOK, HistoryInv, DecodeHeadersPlain
  <2>2. CASE DecodeDataEnd(s)
    BY <2>2 DEF IInv, TypeOK, HistoryInv, DecodeDataEnd
  <2>3. CASE DecodeTrailers(s)
    BY <2>3 DEF IInv, TypeOK, HistoryInv, DecodeTrailers
  <2>4. ASSUME NEW u \in Uuids \cup {None}, ClearRouteCache(s, u) PROVE HistoryInv'
    BY <2>4 DEF IInv, HistoryInv, ClearRouteCache
  <2>5. CASE EncodeHeadersSkip(s)
    BY <2>5 DEF IInv, TypeOK, HistoryInv, EncodeHeadersSkip
  <2> QED BY <2>1, <2>2, <2>3, <2>4, <2>5
<1>3. CountedWhereChecked'
  BY DEF IInv, CountedWhereChecked, DecodeHeadersPlain, DecodeDataEnd, DecodeTrailers,
         ClearRouteCache, EncodeHeadersSkip
<1>4. /\ breakers' = breakers
      /\ tripped' = tripped
      /\ now' = now
  BY DEF DecodeHeadersPlain, DecodeDataEnd, DecodeTrailers, ClearRouteCache, EncodeHeadersSkip
<1>5. ClosedBelowSlowLimit'
  BY <1>4 DEF IInv, ClosedBelowSlowLimit, TooSlow
<1>6. OpenBounded' /\ BreakersTyped' /\ BreakStands'
  BY <1>4 DEF IInv, OpenBounded, BreakersTyped, BreakStands
<1> QED BY <1>1, <1>2, <1>3, <1>5, <1>6 DEF IInv

\* It survives the check of a request.
LEMMA DecodeHeadersStep ==
  ASSUME IInv, NEW s \in Streams, NEW h \in BOOLEAN, DecodeHeaders(s, h)
  PROVE  IInv'
<1> DEFINE u == route[s]
<1>1. u \in Uuids /\ now \in 0 .. MaxTime /\ now' = now /\ tripped' = tripped
  BY DEF IInv, TypeOK, DecodeHeaders
<1>2. breakers' = BreakersAfterIsOpen(u)
  BY DEF DecodeHeaders
<1>3. DOMAIN breakers' = DOMAIN breakers \cup {u}
  BY <1>2 DEF BreakersAfterIsOpen
<1>4. \A v \in DOMAIN breakers : breakers[v] \in BreakerType
  BY DEF IInv, BreakersTyped
<1>5. ASSUME NEW v \in DOMAIN breakers'
      PROVE  \/ v \in DOMAIN breakers /\ breakers'[v] = breakers[v]
             \/ /\ breakers'[v] \in BreakerType
                /\ breakers'[v].valid_time = None
                /\ breakers'[v].slow = 0
  <2>1. CASE v # u
    BY <1>2, <1>3, <1>5, <2>1 DEF BreakersAfterIsOpen
  <2>2. CASE v = u /\ u \notin DOMAIN breakers
    BY <1>2, <2>2, NewBreakerFacts DEF BreakersAfterIsOpen
  <2>3. CASE v = u /\ u \in DOMAIN breakers
    <3>1. breakers'[v] = AfterIsOpen(breakers[v])
      BY <1>2, <2>3 DEF BreakersAfterIsOpen
    <3> QED BY <1>1, <1>4, <2>3, <3>1, AfterIsOpenFacts
  <2> QED BY <2>1, <2>2, <2>3
<1>6. breakers' \in [DOMAIN breakers' -> BreakerType]
  <2>1. \A v \in DOMAIN breakers' : breakers'[v] \in BreakerType
    BY <1>4, <1>5
  <2>2. breakers' = [v \in DOMAIN breakers' |-> breakers'[v]]
    BY <1>2, <1>3 DEF BreakersAfterIsOpen
  <2> QED BY <2>1, <2>2
<1>7. TypeOK'
  <2>1. /\ DOMAIN breakers' \subseteq Uuids
        /\ \A v \in DOMAIN breakers' : IsBreaker(breakers'[v])
    BY <1>1, <1>3, <1>6, IsBreakerFromType DEF IInv, TypeOK
  <2>2. /\ route' \in [Streams -> Uuids \cup {None}]
        /\ route_uuid' \in [Streams -> Uuids \cup {None}]
        /\ start_time' \in [Streams -> Nat]
        /\ counted' \in [Streams -> Uuids \cup {None}]
    BY <1>1 DEF IInv, TypeOK, DecodeHeaders
  <2>3. /\ pc' \in [Streams -> {"new", "upstream", "waiting", "replying", "done"}]
        /\ fate' \in [Streams -> {"none", "admitted", "held", "rejected"}]
    BY DEF IInv, TypeOK, DecodeHeaders
  <2>4. /\ wait_body' = wait_body \/ wait_body' = [wait_body EXCEPT ![s] = TRUE]
        /\ local_replied' = local_replied
             \/ local_replied' = [local_replied EXCEPT ![s] = TRUE]
    BY Zenon DEF DecodeHeaders
  <2>5. wait_body' \in [Streams -> BOOLEAN] /\ local_replied' \in [Streams -> BOOLEAN]
    BY <2>4 DEF IInv, TypeOK
  <2> QED BY <1>1, <2>1, <2>2, <2>3, <2>5 DEF IInv, TypeOK
<1>8. HistoryInv' /\ CountedWhereChecked'
  <2>1. counted[s] = None /\ counted' = counted
    BY DEF IInv, HistoryInv, DecodeHeaders
  <2>2. HistoryInv'
    <3>1. ASSUME NEW v \in Streams, v # s
          PROVE  /\ fate'[v] = fate[v] /\ local_replied'[v] = local_replied[v]
                 /\ pc'[v] = pc[v]
      BY <3>1 DEF IInv, TypeOK, DecodeHeaders
    <3>2. fate'[s] = "rejected" => local_replied'[s]
      BY DEF IInv, TypeOK, DecodeHeaders
    <3> QED BY <2>1, <3>1, <3>2 DEF IInv, HistoryInv
  <2>3. CountedWhereChecked'
    BY <2>1 DEF IInv, TypeOK, CountedWhereChecked, DecodeHeaders
  <2> QED BY <2>2, <2>3
<1>9. ClosedBelowSlowLimit'
  <2>1. \A v \in Uuids : ~TooSlow(v, 0)
    BY SettingsAssumption DEF TooSlow, SettingsType
  <2>2. ASSUME NEW v \in DOMAIN breakers', breakers'[v].valid_time = None
        PROVE  ~TooSlow(v, breakers'[v].slow)
    <3>1. v \in Uuids
      BY <1>7 DEF TypeOK
    <3> QED BY <1>5, <2>1, <2>2, <3>1 DEF IInv, ClosedBelowSlowLimit
  <2> QED BY <2>2 DEF ClosedBelowSlowLimit, TooSlow
<1>10. OpenBounded'
  BY <1>1, <1>5 DEF IInv, OpenBounded
<1>11. BreakStands'
  <2>1. ASSUME NEW v \in Uuids, tripped[v] # None, now <= tripped[v] + Settings[v].breakDuration
        PROVE  v \in DOMAIN breakers' /\ breakers'[v].valid_time # None
    <3>1. /\ v \in DOMAIN breakers /\ breakers[v].valid_time # None
          /\ breakers[v].valid_time = tripped[v] + Settings[v].breakDuration
      BY <2>1 DEF IInv, BreakStands, OpenBounded
    <3>2. tripped[v] \in Nat /\ Settings[v].breakDuration \in Nat /\ now \in Nat
      BY <1>1, <2>1, SettingsAssumption DEF IInv, TypeOK, SettingsType
    <3>3. ~Expired(breakers[v])
      BY <2>1, <3>1, <3>2 DEF Expired
    <3>4. breakers'[v] = breakers[v]
      BY <1>2, <3>1, <3>3 DEF BreakersAfterIsOpen, AfterIsOpen
    <3> QED BY <1>3, <3>1, <3>4
  <2> QED BY <1>1, <2>1 DEF BreakStands
<1> QED BY <1>6, <1>7, <1>8, <1>9, <1>10, <1>11 DEF IInv, BreakersTyped

\* It survives the counting of a response.
LEMMA EncodeHeadersStep ==
  ASSUME IInv, NEW s \in Streams, NEW error \in BOOLEAN, EncodeHeaders(s, error)
  PROVE  IInv'
<1> DEFINE u == MetricsTarget(s)
<1>1. PICK rt \in ResponseTimes(s, error) :
        \/ /\ u \in DOMAIN breakers
           /\ breakers' = [breakers EXCEPT ![u] = UpdateMetrics(@, u, error, rt)]
           /\ counted' = [counted EXCEPT ![s] = u]
           /\ tripped' = [tripped EXCEPT
                ![u] = IF ShouldBreak(u, Recorded(breakers[u], u, error, rt)) THEN now ELSE @]
        \/ /\ u \notin DOMAIN breakers
           /\ UNCHANGED <<breakers, counted, tripped>>
  BY DEF EncodeHeaders
<1>2. /\ pc' = [pc EXCEPT ![s] = "done"]
      /\ ~local_replied[s]
      /\ route[s] # None
      /\ pc[s] \in {"upstream", "waiting", "replying"}
      /\ UNCHANGED <<now, route, route_uuid, wait_body, local_replied, start_time, fate>>
  BY DEF EncodeHeaders
<1>3. CASE u \notin DOMAIN breakers
  <2>1. UNCHANGED <<breakers, counted, tripped>>
    BY <1>1, <1>3
  <2>2. TypeOK'
    BY <1>2, <2>1 DEF IInv, TypeOK
  <2>3. HistoryInv' /\ CountedWhereChecked'
    BY <1>2, <2>1 DEF IInv, TypeOK, HistoryInv, CountedWhereChecked
  <2>4. ClosedBelowSlowLimit' /\ OpenBounded' /\ BreakersTyped' /\ BreakStands'
    BY <1>2, <2>1 DEF IInv, ClosedBelowSlowLimit, TooSlow, OpenBounded, BreakersTyped,
                      BreakStands
  <2> QED BY <2>2, <2>3, <2>4 DEF IInv
<1>4. CASE u \in DOMAIN breakers
  <2> DEFINE b == breakers[u]
             r == Recorded(b, u, error, rt)
             n == UpdateMetrics(b, u, error, rt)
  <2>1. /\ breakers' = [breakers EXCEPT ![u] = n]
        /\ counted' = [counted EXCEPT ![s] = u]
        /\ tripped' = [tripped EXCEPT ![u] = IF ShouldBreak(u, r) THEN now ELSE @]
    BY <1>1, <1>4
  <2>2. u \in Uuids /\ b \in BreakerType /\ now \in 0 .. MaxTime /\ rt \in Int
    BY <1>2, <1>4, ResponseTimesType DEF IInv, TypeOK, BreakersTyped
  <2>3. /\ n \in BreakerType
        /\ ShouldBreak(u, r) => n.valid_time = now + Settings[u].breakDuration
        /\ ~ShouldBreak(u, r) => n.valid_time = b.valid_time
        /\ ~ShouldBreak(u, r) => ~TooSlow(u, n.slow)
    BY <2>2, UpdateMetricsFacts
  <2> HIDE DEF n, r, u
  <2>4. /\ DOMAIN breakers' = DOMAIN breakers
        /\ breakers'[u] = n
        /\ \A v \in DOMAIN breakers : v # u => breakers'[v] = breakers[v]
        /\ breakers' \in [DOMAIN breakers -> BreakerType]
    BY <1>4, <2>1, <2>3 DEF IInv, TypeOK, BreakersTyped
  <2>5. /\ tripped' \in [Uuids -> Nat \cup {None}]
        /\ tripped'[u] = IF ShouldBreak(u, r) THEN now ELSE tripped[u]
        /\ \A v \in Uuids : v # u => tripped'[v] = tripped[v]
    BY <2>1, <2>2 DEF IInv, TypeOK
  <2>6. counted' \in [Streams -> Uuids \cup {None}]
    BY <2>1, <2>2 DEF IInv, TypeOK
  <2>7. TypeOK' /\ BreakersTyped'
    <3>1. \A v \in DOMAIN breakers' : IsBreaker(breakers'[v])
      BY <2>4, IsBreakerFromType
    <3> QED BY <1>2, <2>4, <2>5, <2>6, <3>1 DEF IInv, TypeOK, BreakersTyped
  <2>8. HistoryInv'
    BY <1>2, <2>1 DEF IInv, TypeOK, HistoryInv
  <2>9. CountedWhereChecked'
    BY <1>2, <2>1 DEF IInv, TypeOK, CountedWhereChecked, u, MetricsTarget
  <2>10. ClosedBelowSlowLimit'
    <3>1. ASSUME NEW v \in DOMAIN breakers', breakers'[v].valid_time = None
          PROVE  ~TooSlow(v, breakers'[v].slow)
      <4>1. CASE v # u
        BY <2>4, <3>1, <4>1 DEF IInv, ClosedBelowSlowLimit
      <4>2. CASE v = u
        <5>1. now + Settings[u].breakDuration \in Nat
          BY <2>2, SettingsAssumption DEF SettingsType
        <5>2. ~ShouldBreak(u, r)
          BY <2>3, <2>4, <3>1, <4>2, <5>1, NoneAssumption
        <5> QED BY <2>3, <2>4, <4>2, <5>2
      <4> QED BY <4>1, <4>2
    <3> QED BY <3>1 DEF ClosedBelowSlowLimit, TooSlow
  <2>11. OpenBounded'
    <3>1. ASSUME NEW v \in DOMAIN breakers', breakers'[v].valid_time # None
          PROVE  /\ tripped'[v] # None
                 /\ breakers'[v].valid_time = tripped'[v] + Settings[v].breakDuration
                 /\ tripped'[v] <= now'
      <4>1. v \in Uuids /\ v \in DOMAIN breakers /\ now' = now
        BY <1>2, <2>4 DEF IInv, TypeOK
      <4>2. CASE v # u
        BY <2>4, <2>5, <3>1, <4>1, <4>2 DEF IInv, OpenBounded
      <4>3. CASE v = u /\ ShouldBreak(u, r)
        BY <2>2, <2>3, <2>4, <2>5, <4>1, <4>3, NoneAssumption
      <4>4. CASE v = u /\ ~ShouldBreak(u, r)
        BY <2>3, <2>4, <2>5, <3>1, <4>1, <4>4 DEF IInv, OpenBounded
      <4> QED BY <4>2, <4>3, <4>4
    <3> QED BY <3>1 DEF OpenBounded
  <2>12. BreakStands'
    <3>1. Settings[u].breakDuration \in Nat /\ now' = now
      BY <1>2, <2>2, SettingsAssumption DEF SettingsType
    <3>2. ShouldBreak(u, r) => n.valid_time # None
      BY <2>2, <2>3, <3>1, NoneAssumption
    <3> QED BY <1>4, <2>3, <2>4, <2>5, <3>1, <3>2 DEF IInv, BreakStands
  <2> QED BY <2>7, <2>8, <2>9, <2>10, <2>11, <2>12 DEF IInv
<1> QED BY <1>3, <1>4

\* It survives the passing of time.
LEMMA TickStep ==
  ASSUME IInv, Tick
  PROVE  IInv'
<1>1. TypeOK'
  BY TimeAssumption DEF IInv, TypeOK, Tick, filter
<1>2. HistoryInv' /\ CountedWhereChecked'
  BY DEF IInv, HistoryInv, CountedWhereChecked, Tick, filter
<1>3. ClosedBelowSlowLimit'
  BY DEF IInv, ClosedBelowSlowLimit, TooSlow, Tick
<1>4. OpenBounded' /\ BreakersTyped'
  BY DEF IInv, TypeOK, OpenBounded, BreakersTyped, Tick
<1>5. BreakStands'
  BY SettingsAssumption DEF IInv, TypeOK, BreakStands, Tick, SettingsType
<1> QED BY <1>1, <1>2, <1>3, <1>4, <1>5 DEF IInv

\* It survives a step that changes nothing.
LEMMA StutterStep ==
  ASSUME IInv, UNCHANGED vars
  PROVE  IInv'
BY DEF IInv, vars, filter, TypeOK, HistoryInv, CountedWhereChecked, ClosedBelowSlowLimit,
       TooSlow, OpenBounded, BreakersTyped, BreakStands

\* It survives every step.
LEMMA IInvInductive == IInv /\ [Next]_vars => IInv'
<1> SUFFICES ASSUME IInv, [Next]_vars PROVE IInv'
  OBVIOUS
<1>1. CASE Tick
  BY <1>1, TickStep
<1>2. CASE UNCHANGED vars
  BY <1>2, StutterStep
<1>3. ASSUME NEW s \in Streams, NEW h \in BOOLEAN, DecodeHeaders(s, h) PROVE IInv'
  BY <1>3, DecodeHeadersStep
<1>4. ASSUME NEW s \in Streams, NEW error \in BOOLEAN, EncodeHeaders(s, error) PROVE IInv'
  BY <1>4, EncodeHeadersStep
<1>5. ASSUME NEW s \in Streams,
             \/ DecodeHeadersPlain(s)
             \/ DecodeDataEnd(s)
             \/ DecodeTrailers(s)
             \/ \E u \in Uuids \cup {None} : ClearRouteCache(s, u)
             \/ EncodeHeadersSkip(s)
      PROVE  IInv'
  BY <1>5, FilterStep
<1> QED BY <1>1, <1>2, <1>3, <1>4, <1>5 DEF Next

\* It holds in every reachable state.
LEMMA IInvHolds == Spec => []IInv
BY InitIInv, IInvInductive, PTL DEF Spec

-----------------------------------------------------------------------------
\* Type correctness of the circuit breaker, for all settings.
THEOREM TypeCorrect == Spec => []TypeOK
<1>1. IInv => TypeOK
  BY DEF IInv
<1> QED BY <1>1, IInvHolds, PTL

\* A closed breaker is below its limit of consecutive slow requests.
THEOREM SlowLimitRespected == Spec => []ClosedBelowSlowLimit
<1>1. IInv => ClosedBelowSlowLimit
  BY DEF IInv
<1> QED BY <1>1, IInvHolds, PTL

\* The breaker's own replies never reach its counters.
THEOREM OwnRepliesUncounted == Spec => []RejectedNotCounted
<1>1. IInv => RejectedNotCounted
  BY DEF IInv, HistoryInv, RejectedNotCounted
<1> QED BY <1>1, IInvHolds, PTL

\* A response is counted by the breaker that admitted or held its request.
THEOREM ReportedToChecker == Spec => []CountedWhereChecked
<1>1. IInv => CountedWhereChecked
  BY DEF IInv
<1> QED BY <1>1, IInvHolds, PTL

\* A break lasts breakDuration from the last response that justified it.
THEOREM BreakBounded == Spec => []OpenBounded
<1>1. IInv => OpenBounded
  BY DEF IInv
<1> QED BY <1>1, IInvHolds, PTL

\* A response that arrives during a break extends it or leaves it alone.
THEOREM BreakKept == Spec => BreakNeverShortened
<1>1. ASSUME IInv, [Next]_vars, NEW u \in DOMAIN breakers,
             breakers[u].valid_time # None, now <= breakers[u].valid_time
      PROVE  /\ breakers'[u].valid_time # None
             /\ breakers'[u].valid_time >= breakers[u].valid_time
  <2>1. /\ u \in Uuids /\ breakers[u] \in BreakerType /\ now \in 0 .. MaxTime
        /\ breakers[u].valid_time \in Nat /\ Settings[u].breakDuration \in Nat
        /\ breakers[u].valid_time = tripped[u] + Settings[u].breakDuration
        /\ tripped[u] \in Nat /\ tripped[u] <= now
    BY <1>1, SettingsAssumption DEF IInv, TypeOK, BreakersTyped, BreakerType, SettingsType,
        OpenBounded
  <2>2. CASE breakers' = breakers
    BY <1>1, <2>1, <2>2
  <2>3. ASSUME NEW s \in Streams, NEW h \in BOOLEAN, DecodeHeaders(s, h)
        PROVE  breakers'[u] = breakers[u]
    <3>1. ~Expired(breakers[u])
      BY <1>1, <2>1 DEF Expired
    <3>2. AfterIsOpen(breakers[u]) = breakers[u]
      BY <3>1 DEF AfterIsOpen
    <3>3. breakers' = BreakersAfterIsOpen(route[s])
      BY <2>3 DEF DecodeHeaders
    <3> QED BY <1>1, <3>2, <3>3 DEF BreakersAfterIsOpen
  <2>4. ASSUME NEW s \in Streams, NEW error \in BOOLEAN, EncodeHeaders(s, error)
        PROVE  /\ breakers'[u].valid_time # None
               /\ breakers'[u].valid_time >= breakers[u].valid_time
    <3>1. PICK rt \in ResponseTimes(s, error) :
            \/ /\ MetricsTarget(s) \in DOMAIN breakers
               /\ breakers' = [breakers EXCEPT ![MetricsTarget(s)] =
                                 UpdateMetrics(@, MetricsTarget(s), error, rt)]
            \/ breakers' = breakers
      BY <2>4 DEF EncodeHeaders
    <3>2. CASE breakers'[u] = breakers[u]
      BY <1>1, <2>1, <3>2
    <3>3. CASE breakers'[u] = UpdateMetrics(breakers[u], u, error, rt)
      <4>1. route[s] # None
        BY <2>4 DEF EncodeHeaders
      <4>2. rt \in Int
        BY <1>1, <2>4, <4>1, ResponseTimesType DEF IInv
      <4>3. \/ breakers'[u].valid_time = breakers[u].valid_time
            \/ breakers'[u].valid_time = now + Settings[u].breakDuration
        BY SMTT(60), <2>1, <2>4, <3>3, <4>2, UpdateMetricsFacts
      <4> QED BY <1>1, <2>1, <4>3, NoneAssumption
    <3> QED BY <1>1, <3>1, <3>2, <3>3
  <2>5. ASSUME NEW s \in Streams,
               \/ DecodeHeadersPlain(s) \/ DecodeDataEnd(s) \/ DecodeTrailers(s)
               \/ \E v \in Uuids \cup {None} : ClearRouteCache(s, v)
               \/ EncodeHeadersSkip(s)
        PROVE  breakers' = breakers
    BY <2>5 DEF DecodeHeadersPlain, DecodeDataEnd, DecodeTrailers, ClearRouteCache,
                EncodeHeadersSkip
  <2>6. Tick \/ UNCHANGED vars => breakers' = breakers
    BY SMTT(60) DEF Tick, vars
  <2>7. \/ Tick \/ UNCHANGED vars
        \/ \E s \in Streams, h \in BOOLEAN : DecodeHeaders(s, h)
        \/ \E s \in Streams, error \in BOOLEAN : EncodeHeaders(s, error)
        \/ \E s \in Streams :
             \/ DecodeHeadersPlain(s) \/ DecodeDataEnd(s) \/ DecodeTrailers(s)
             \/ \E v \in Uuids \cup {None} : ClearRouteCache(s, v)
             \/ EncodeHeadersSkip(s)
    BY <1>1 DEF Next
  <2> QED BY <1>1, <2>1, <2>2, <2>3, <2>4, <2>5, <2>6, <2>7
<1>2. IInv /\ [Next]_vars =>
        [\A u \in DOMAIN breakers :
           breakers[u].valid_time # None /\ now <= breakers[u].valid_time =>
             /\ breakers'[u].valid_time # None
             /\ breakers'[u].valid_time >= breakers[u].valid_time]_vars
  BY <1>1
<1> QED BY <1>2, IInvHolds, PTL DEF Spec, BreakNeverShortened

\* decodeHeaders admits a request only once the last break is over.
THEOREM NoAdmissionDuringBreak == Spec => BreakHonoured
<1>1. ASSUME IInv, [Next]_vars, NEW s \in Streams, fate[s] = "none", fate'[s] = "admitted"
      PROVE  \/ tripped[route[s]] = None
             \/ now > tripped[route[s]] + Settings[route[s]].breakDuration
  <2>1. PICK h \in BOOLEAN : DecodeHeaders(s, h)
    <3>1. ASSUME NEW v \in Streams, NEW g \in BOOLEAN, DecodeHeaders(v, g)
          PROVE  v = s
      BY <1>1, <3>1 DEF IInv, TypeOK, DecodeHeaders
    <3>2. ASSUME NEW v \in Streams, DecodeDataEnd(v)
          PROVE  FALSE
      BY <1>1, <3>2 DEF IInv, TypeOK, DecodeDataEnd
    <3> QED BY <1>1, <3>1, <3>2
            DEF Next, vars, Tick, DecodeHeadersPlain, DecodeTrailers, ClearRouteCache,
                EncodeHeadersSkip, EncodeHeaders
  <2>2. route[s] \in Uuids /\ now \in Nat /\ ~OpenFor(route[s])
    BY <1>1, <2>1 DEF IInv, TypeOK, DecodeHeaders
  <2>3. /\ Settings[route[s]].breakDuration \in Nat
        /\ tripped[route[s]] \in Nat \cup {None}
    BY <1>1, <2>2, SettingsAssumption DEF IInv, TypeOK, SettingsType
  <2>4. SUFFICES ASSUME tripped[route[s]] # None,
                        now <= tripped[route[s]] + Settings[route[s]].breakDuration
                 PROVE  FALSE
    BY <2>2, <2>3
  <2>5. /\ route[s] \in DOMAIN breakers /\ breakers[route[s]].valid_time # None
        /\ breakers[route[s]].valid_time
             = tripped[route[s]] + Settings[route[s]].breakDuration
    BY <1>1, <2>2, <2>4 DEF IInv, BreakStands, OpenBounded
  <2> QED BY SMTT(60), <2>2, <2>3, <2>4, <2>5 DEF OpenFor, IsOpen, Expired
<1>2. IInv /\ [Next]_vars =>
        [\A s \in Streams :
           fate[s] = "none" /\ fate'[s] = "admitted" =>
             \/ tripped[route[s]] = None
             \/ now > tripped[route[s]] + Settings[route[s]].breakDuration]_vars
  BY <1>1
<1> QED BY <1>2, IInvHolds, PTL DEF Spec, BreakHonoured

=============================================================================
