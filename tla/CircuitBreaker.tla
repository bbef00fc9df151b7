--------------------------- MODULE CircuitBreaker ---------------------------
(***************************************************************************)
(* The circuit breaker: the per-route breakers of CircuitBreakerManagerImpl *)
(* (one mutex, a map from route uuid to breaker) and the filter instances   *)
(* of the streams that consult and feed them from the worker threads.       *)
(*                                                                         *)
(* isOpen and updateMetrics run under the manager's mutex, so each is one   *)
(* step; between a stream's two calls anything may happen to the breaker.   *)
(* Time is in milliseconds scaled down: MsPerSecond ticks make a second.    *)
(***************************************************************************)
EXTENDS RollingNumber

CONSTANTS
  Streams,      \* concurrent HTTP streams, one filter instance each
  Uuids,        \* uuids of the routes that carry a breaker configuration
  Settings,     \* CircuitBreakerSettings of every uuid
  None,         \* absent optional, and the route without configuration
  MsPerSecond,  \* ticks per second
  MaxTime,      \* bound: the last instant of a behaviour
  UpstreamTimes \* response times the upstream timing can report

SettingsType ==
  [consecutiveSlowRequests : Nat, averageResponseTimeThreshold : Nat \cup {None},
   errorPercentThreshold : Nat, minRequestAmount : Nat,
   breakDuration : Nat, lookbackDuration : Nat, waitBody : BOOLEAN]

ASSUME SettingsAssumption == Settings \in [Uuids -> SettingsType]
ASSUME NoneAssumption == None \notin Nat /\ None \notin Uuids
ASSUME TimeAssumption ==
  MsPerSecond \in Nat \ {0} /\ MaxTime \in Nat /\ UpstreamTimes \subseteq Nat

\* createRouteSpecificFilterConfigTyped refuses a threshold without its limit.
ASSUME AcceptedConfig ==
  \A u \in Uuids :
    /\ Settings[u].averageResponseTimeThreshold # None => Settings[u].consecutiveSlowRequests > 0
    /\ Settings[u].errorPercentThreshold > 0 => Settings[u].minRequestAmount > 0

VARIABLES
  now,            \* systemTime()
  breakers,       \* circuit_breakers_: created on a route's first request
  pc,             \* where each stream is
  route,          \* the configuration its route resolves to now, or None
  route_uuid,     \* route_uuid_ (None: empty)
  wait_body,      \* wait_body_
  local_replied,  \* local_replied_
  start_time,     \* start_time_
  fate,           \* history: what decodeHeaders decided for the stream
  counted,        \* history: the breaker that counted its response, or None
  tripped         \* history: when each breaker last decided to break, or None

filter == <<pc, route, route_uuid, wait_body, local_replied, start_time>>
vars == <<now, breakers, filter, fate, counted, tripped>>

Second(t) == t \div MsPerSecond
WindowOf(u) == Settings[u].lookbackDuration \div MsPerSecond

NewBreaker ==
  [valid_time |-> None, slow |-> 0, requests |-> EmptyBuckets, errors |-> EmptyBuckets]

Init ==
  /\ now = 0
  /\ breakers = [u \in {} |-> NewBreaker]
  /\ pc = [s \in Streams |-> "new"]
  /\ route \in [Streams -> Uuids \cup {None}]
  /\ route_uuid = [s \in Streams |-> None]
  /\ wait_body = [s \in Streams |-> FALSE]
  /\ local_replied = [s \in Streams |-> FALSE]
  /\ start_time = [s \in Streams |-> 0]
  /\ fate = [s \in Streams |-> "none"]
  /\ counted = [s \in Streams |-> None]
  /\ tripped = [u \in Uuids |-> None]

-----------------------------------------------------------------------------
(* CircuitBreakerImpl *)

\* A variant of Expired that ends the break one tick too early.
ExpiredEarly(b) == b.valid_time # None /\ now >= b.valid_time

Expired(b) == b.valid_time # None /\ now > b.valid_time

\* A variant of AfterIsOpen that forgets to clear the consecutive count.
AfterIsOpenKeepCount(b) == IF Expired(b) THEN [b EXCEPT !.valid_time = None] ELSE b

\* isOpen closes a breaker whose time has run out; only the consecutive count
\* starts afresh, the rolling counters are kept.
AfterIsOpen(b) ==
  IF Expired(b) THEN [b EXCEPT !.valid_time = None, !.slow = 0] ELSE b

IsOpen(b) == b.valid_time # None /\ ~Expired(b)

\* consecutive_slow_request_count_ after a response that took rt.
SlowCount(b, u, rt) ==
  LET threshold == Settings[u].averageResponseTimeThreshold
  IN  IF threshold = None THEN b.slow
      ELSE IF rt > threshold THEN b.slow + 1 ELSE 0

TooSlow(u, slow) ==
  /\ Settings[u].consecutiveSlowRequests > 0
  /\ slow >= Settings[u].consecutiveSlowRequests

\* The error percentage, compared without division.
TooManyErrors(u, requests, errors) ==
  /\ Settings[u].minRequestAmount > 0
  /\ Settings[u].errorPercentThreshold > 0
  /\ LET total == SumOf(requests, Second(now), WindowOf(u))
     IN  /\ total >= Settings[u].minRequestAmount
         /\ SumOf(errors, Second(now), WindowOf(u)) * 100
              >= Settings[u].errorPercentThreshold * total

Counted(buckets, u, n) ==
  Increment(buckets, Second(now), Second(now), WindowOf(u), n)

Kept(buckets, u) == RemoveOldBuckets(buckets, Second(now), WindowOf(u))

ShouldBreak(u, b) == TooSlow(u, b.slow) \/ TooManyErrors(u, b.requests, b.errors)

\* The breaker with a response recorded, before it decides whether to break.
Recorded(b, u, error, rt) ==
  [b EXCEPT !.slow = SlowCount(b, u, rt),
            !.requests = Counted(b.requests, u, 1),
            !.errors = IF error THEN Counted(b.errors, u, 1) ELSE b.errors]

\* The two Sum calls of the percentage rule prune their counters.
Pruned(b, u) ==
  IF Settings[u].minRequestAmount > 0 /\ Settings[u].errorPercentThreshold > 0
  THEN [b EXCEPT !.requests = Kept(b.requests, u), !.errors = Kept(b.errors, u)]
  ELSE b

\* updateMetrics: record the response and open, or re-open, the breaker.
UpdateMetrics(b, u, error, rt) ==
  LET r == Recorded(b, u, error, rt)
  IN  [Pruned(r, u) EXCEPT !.valid_time =
         IF ShouldBreak(u, r) THEN now + Settings[u].breakDuration ELSE b.valid_time]

-----------------------------------------------------------------------------
(* CircuitBreakerFilter *)

\* decodeHeaders on a route without breaker configuration: straight through.
DecodeHeadersPlain(s) ==
  /\ pc[s] = "new"
  /\ route[s] = None
  /\ pc' = [pc EXCEPT ![s] = "upstream"]
  /\ UNCHANGED <<now, breakers, route, route_uuid, wait_body, local_replied, start_time,
                 fate, counted, tripped>>

\* The manager's isOpen: create the breaker on first use, then ask it.
BreakersAfterIsOpen(u) ==
  [v \in DOMAIN breakers \cup {u} |->
     IF v = u THEN (IF u \in DOMAIN breakers THEN AfterIsOpen(breakers[u]) ELSE NewBreaker)
              ELSE breakers[v]]

OpenFor(u) == u \in DOMAIN breakers /\ IsOpen(breakers[u])

\* headerOnly: end_stream, or an upgrade request, for which no body is awaited.
DecodeHeaders(s, headerOnly) ==
  LET u == route[s]
      waits == Settings[u].waitBody /\ ~headerOnly
  IN
  /\ pc[s] = "new"
  /\ u # None
  /\ start_time' = [start_time EXCEPT ![s] = now]
  /\ route_uuid' = [route_uuid EXCEPT ![s] = u]
  /\ breakers' = BreakersAfterIsOpen(u)
  /\ \/ /\ ~OpenFor(u)
        /\ pc' = [pc EXCEPT ![s] = "upstream"]
        /\ fate' = [fate EXCEPT ![s] = "admitted"]
        /\ UNCHANGED <<wait_body, local_replied>>
     \/ /\ OpenFor(u) /\ waits
        /\ pc' = [pc EXCEPT ![s] = "waiting"]
        /\ wait_body' = [wait_body EXCEPT ![s] = TRUE]
        /\ fate' = [fate EXCEPT ![s] = "held"]
        /\ UNCHANGED local_replied
     \/ /\ OpenFor(u) /\ ~waits
        /\ pc' = [pc EXCEPT ![s] = "replying"]
        /\ local_replied' = [local_replied EXCEPT ![s] = TRUE]
        /\ fate' = [fate EXCEPT ![s] = "rejected"]
        /\ UNCHANGED wait_body
  /\ UNCHANGED <<now, route, counted, tripped>>

\* decodeData with end_stream while the body is awaited; the chunks before it
\* only return StopIterationNoBuffer and change nothing.
DecodeDataEnd(s) ==
  /\ pc[s] = "waiting"
  /\ wait_body[s]
  /\ pc' = [pc EXCEPT ![s] = "replying"]
  /\ local_replied' = [local_replied EXCEPT ![s] = TRUE]
  /\ fate' = [fate EXCEPT ![s] = "rejected"]
  /\ UNCHANGED <<now, breakers, route, route_uuid, wait_body, start_time, counted, tripped>>

\* The filter has no decodeTrailers of its own: a request whose body is closed
\* by trailers resumes towards the upstream although the breaker was open.
DecodeTrailers(s) ==
  /\ pc[s] = "waiting"
  /\ pc' = [pc EXCEPT ![s] = "upstream"]
  /\ UNCHANGED <<now, breakers, route, route_uuid, wait_body, local_replied, start_time,
                 fate, counted, tripped>>

\* Another filter clears the route cache; the route resolves anew.
ClearRouteCache(s, u) ==
  /\ pc[s] \in {"upstream", "waiting"}
  /\ u # route[s]
  /\ route' = [route EXCEPT ![s] = u]
  /\ UNCHANGED <<now, breakers, pc, route_uuid, wait_body, local_replied, start_time,
                 fate, counted, tripped>>

\* encodeHeaders of the filter's own reply, or without configuration.
EncodeHeadersSkip(s) ==
  /\ pc[s] \in {"upstream", "waiting", "replying"}
  /\ local_replied[s] \/ route[s] = None
  /\ pc' = [pc EXCEPT ![s] = "done"]
  /\ UNCHANGED <<now, breakers, route, route_uuid, wait_body, local_replied, start_time,
                 fate, counted, tripped>>

\* The response time: upstream timing if complete, else one above the threshold
\* for an error and the time since decodeHeaders otherwise; 0 without upstream
\* info or without a threshold in the configuration.
ResponseTimes(s, error) ==
  LET threshold == Settings[route[s]].averageResponseTimeThreshold
  IN  IF threshold = None THEN {0}
      ELSE {0} \cup UpstreamTimes \cup {IF error THEN threshold + 1 ELSE now - start_time[s]}

\* A variant of MetricsTarget that follows the re-resolved route.
MetricsTargetCurrentRoute(s) == route[s]

\* The breaker a response is reported to: the one asked in decodeHeaders.
MetricsTarget(s) == route_uuid[s]

\* encodeHeaders of any other response (from the upstream, or a local reply of
\* another filter or of the connection manager): the manager's updateMetrics,
\* which ignores an unknown uuid.
EncodeHeaders(s, error) ==
  LET u == MetricsTarget(s)
  IN
  /\ pc[s] \in {"upstream", "waiting", "replying"}
  /\ ~local_replied[s]
  /\ route[s] # None
  /\ pc' = [pc EXCEPT ![s] = "done"]
  /\ \E rt \in ResponseTimes(s, error) :
       \/ /\ u \in DOMAIN breakers
          /\ breakers' = [breakers EXCEPT ![u] = UpdateMetrics(@, u, error, rt)]
          /\ counted' = [counted EXCEPT ![s] = u]
          /\ tripped' = [tripped EXCEPT
               ![u] = IF ShouldBreak(u, Recorded(breakers[u], u, error, rt)) THEN now ELSE @]
       \/ /\ u \notin DOMAIN breakers
          /\ UNCHANGED <<breakers, counted, tripped>>
  /\ UNCHANGED <<now, route, route_uuid, wait_body, local_replied, start_time, fate>>

Tick ==
  /\ now < MaxTime
  /\ now' = now + 1
  /\ UNCHANGED <<breakers, filter, fate, counted, tripped>>

Next ==
  \/ \E s \in Streams :
       \/ DecodeHeadersPlain(s)
       \/ \E h \in BOOLEAN : DecodeHeaders(s, h)
       \/ DecodeDataEnd(s)
       \/ DecodeTrailers(s)
       \/ \E u \in Uuids \cup {None} : ClearRouteCache(s, u)
       \/ EncodeHeadersSkip(s)
       \/ \E error \in BOOLEAN : EncodeHeaders(s, error)
  \/ Tick

Spec == Init /\ [][Next]_vars

-----------------------------------------------------------------------------
IsBuckets(f) == DOMAIN f \subseteq 0 .. MaxTime /\ f \in [DOMAIN f -> Nat]

IsBreaker(b) ==
  /\ b \in [valid_time : Nat \cup {None}, slow : Nat, requests : {b.requests}, errors : {b.errors}]
  /\ IsBuckets(b.requests) /\ IsBuckets(b.errors)

TypeOK ==
  /\ now \in 0 .. MaxTime
  /\ DOMAIN breakers \subseteq Uuids
  /\ \A u \in DOMAIN breakers : IsBreaker(breakers[u])
  /\ pc \in [Streams -> {"new", "upstream", "waiting", "replying", "done"}]
  /\ route \in [Streams -> Uuids \cup {None}]
  /\ route_uuid \in [Streams -> Uuids \cup {None}]
  /\ wait_body \in [Streams -> BOOLEAN]
  /\ local_replied \in [Streams -> BOOLEAN]
  /\ start_time \in [Streams -> Nat]
  /\ fate \in [Streams -> {"none", "admitted", "held", "rejected"}]
  /\ counted \in [Streams -> Uuids \cup {None}]
  /\ tripped \in [Uuids -> Nat \cup {None}]

\* The slow-request rule leaves no debt behind: a breaker that is closed, or
\* whose break isOpen has ended, is always below its consecutive limit, so it
\* takes a full run of slow responses to open it again.
ClosedBelowSlowLimit ==
  \A u \in DOMAIN breakers :
    breakers[u].valid_time = None => ~TooSlow(u, breakers[u].slow)

\* The breaker's own replies never feed its counters, whether the reply was
\* sent from decodeHeaders or after the awaited body: otherwise an open breaker
\* would keep itself open.
RejectedNotCounted ==
  \A s \in Streams : fate[s] = "rejected" => counted[s] = None

\* A response is counted by the breaker the request was checked against, even
\* when the route was resolved anew in between.
CountedWhereChecked ==
  \A s \in Streams : counted[s] # None => counted[s] = route_uuid[s]

\* A break never outlasts breakDuration, counted from the latest response that
\* justified it.
OpenBounded ==
  \A u \in DOMAIN breakers :
    breakers[u].valid_time # None =>
      /\ tripped[u] # None
      /\ breakers[u].valid_time = tripped[u] + Settings[u].breakDuration
      /\ tripped[u] <= now

\* A late response of a request admitted before the break can extend the break
\* but never shorten or cancel it.
BreakNeverShortened ==
  [][\A u \in DOMAIN breakers :
       breakers[u].valid_time # None /\ now <= breakers[u].valid_time =>
         /\ breakers'[u].valid_time # None
         /\ breakers'[u].valid_time >= breakers[u].valid_time]_vars

\* No request is admitted while a break lasts: whoever passes decodeHeaders on
\* a configured route does so more than breakDuration after the last trip.
BreakHonoured ==
  [][\A s \in Streams :
       fate[s] = "none" /\ fate'[s] = "admitted" =>
         \/ tripped[route[s]] = None
         \/ now > tripped[route[s]] + Settings[route[s]].breakDuration]_vars

=============================================================================
