# TLA+ models of the hango Envoy proxy extensions

The repository extends Envoy with HTTP filters, a Dubbo upstream and the
libraries they share. This directory keeps TLA+ models of that code, the TLC
configurations that check them on small instances, and TLAPS proofs of the most
important properties for every instance. `PROJECT.json` lists components, runs,
mutants, hazards, theorems and, for every definition that models code, the lines
it stands for.

    tlc -workers 2 -config CircuitBreaker.cfg MCCircuitBreaker
    tlapm CircuitBreakerProofs.tla

Envoy itself (the submodule `envoy/`), hiredis, libmodsecurity, Lua and the
Hessian codec are not part of the repository. Where a module needs them it models
how `source/` uses them, and `PROJECT.json` marks those definitions external.

## The system and its models

| part (under `source/`) | state | hard behaviour | module |
| --- | --- | --- | --- |
| `common/stats` rolling number | bucket per unix second | clock read twice per call, clock set back, edges of the window | `RollingNumber`, `RollingCounter` |
| `filters/http/circuit_breaker` | breaker per route uuid under one mutex; flags per stream | late responses, route resolved anew, reply after awaited body | `CircuitBreaker` |
| `common/cache` local cache | sixteen LRU caches: dictionary, list, length | unsigned length, list and dictionary in step, reclaim in batches, expiry | `LruCache`, `LocalCache`, `CacheContract` |
| `common/redis` async client | status, context, callbacks by id, reconnect timer | connection lost with callbacks outstanding, nested reconnection | `RedisAsyncClient` |
| `common/sender` cache sender, Redis cache, `filters/http/super_cache` | lookup in progress, levels, collected response | late callback, refill, removal against refill, reset | `SuperCache` |
| `filters/http/dynamic_downgrade`, `service_downgrade`, `static_downgrade`, HTTP sender | flags per stream, stored response | callback inside `sendRequest`, trailers, destruction | `Downgrade` |
| `upstreams/http/dubbo` | object, guard, pooled connection, buffered bytes | reuse of connections, packets split anywhere, heartbeats, posted answers | `DubboUpstream` |
| `filters/http/rider` | coroutine and wrapper per direction, shared error flag | any order of call, body, other direction, destruction | `Rider` |
| `filters/http/waf` | five flags, two rule transactions | the reply re-enters the filter, held bodies, limits | `Waf` |
| admin handlers of the two cache users, `detailed_stats`, `local_limit`, `common/common` token buckets | owner per prefix, cache of weak pointers, thread local slot, bucket per entry | old and new configuration alive together, last holder on a worker, one entry refusing while another charges | `ConfigLifetime` |
| `common/dubbo` codec, `bridge/dubbo/simple` | the packet being read | depth limit, references in circles, long division, packets in pieces | `DubboCodec`, `GatewayExchange` |
| `header_rewrite`, `header_restriction`, `ip_restriction`, `traffic_mark`, `common/http` matchers | path and query twice, cached route | order of levels, rules and lists, route cleared in between | `RequestFilters`, `GatewayExchange` |
| the rest | none that a decision depends on | | see Not modelled |

All filter callbacks of a stream run on one worker thread, so a callback is one
step; different streams interleave at will. State shared by streams is the
circuit breakers (mutex), the local caches (one mutex each), the Redis client
(one per worker), the pooled Dubbo connections and what configurations share.
`super_cache` and `dynamic_downgrade` reach both cache levels through
`CacheRequestSender`, whose callbacks are posted to the worker; the Redis level
rests on `AsyncClient`. A request for a Dubbo service passes the request filters
and the bridge before the upstream writes it.

What makes the system correct, and is stated below: a breaker counts the right
responses and honours its break; a cache never returns what was replaced, removed
or expired and stays within its memory; a callback runs once and only for a
stream that waits for it; a held message moves on; a client receives one whole
response; a connection never delivers one request's answer to another; a request
is admitted, routed and translated as it stands when it is sent; nothing of a
replaced configuration is lost or left behind.

## Modules and how they correspond to the code

Actions carry the names of the methods, variables those of the members. Each
action is a whole callback, early returns and trailing calls included. A
definition whose comment begins "A variant of" is not part of any
specification: it is a faulty form of the definition next to it, and shows that a
property notices the fault.

**RollingNumber, RollingCounter.** `buckets` is `buckets_`. `Increment` takes two
clock readings, as the code does. `log` remembers what was recorded and is
compared with what `Sum` returns.

**CircuitBreaker.** `breakers` is the map of the manager; a record of it holds the
two rolling counters, `valid_time_` and the consecutive slow count. `isOpen` and
`updateMetrics` are single steps because of the mutex; `pc`, `route`,
`route_uuid`, `wait_body`, `local_replied` and `start_time` are the filter of a
stream. `fate`, `counted` and `tripped` are history. `ClearRouteCache` is another
filter that makes the route resolve anew. A millisecond is a tick and
`MsPerSecond` of them make a second.

**LruCache, LocalCache, CacheContract.** `LruCache` has the operations of
`LruCacheImpl` on a record of dictionary, list and length, the reclaim loop in
batches included (a batch is one `Share`-th of the entries, a tenth in the code).
`LocalCache` distributes the keys. `CacheContract` is the abstract specification,
what `CommonCacheBase` promises: any entry may be forgotten at any moment, none is
returned after it was replaced, removed or has expired. `LocalCache` implements it
with `store` mapped to the entries held in the dictionaries (`KeepsContract`).

**RedisAsyncClient.** `context` is the state of the hiredis context, `timers`
counts armed reconnect timers, `commands_map` holds the ids of callbacks,
`queued` what hiredis has queued. hiredis reports the outcome of an attempt once
and answers every queued command once, with null when the connection goes down.
`attempts` and `answered` are history.

**SuperCache.** A record of `stream` is a filter with its sender: whether the
request is held, which level is asked, the state of the answer (asked, posted),
the response collected so far. `cache` holds the levels. A local level reads when
asked; Redis reads later, may be disconnected, and may return a value that does
not parse. The levels are abstracted to what `CacheContract` promises. `removing`
is a removal in progress, one level after the other.

**Downgrade.** One machine for the three filters; `source` tells them apart. The
flags keep their names. A body is the number of its pieces. `store` is the one
entry the requests share. `EncodeHeadersStatic` chooses the configured response of
`static_downgrade`, whose size check differs for inline and file bodies.

**DubboUpstream.** `u` is the `DubboUpstream` object, `guard` the shared flag
`upstream_reset_guard_` the posted lambdas test, `posted` the lambdas, `conn` the
pooled connection with the parts (packet headers and bodies) in flight, `phase`
and `verdicts` the router's view. Requests follow each other on one connection.

**Rider.** A record of `dir` is the `StreamWrapper` of a direction together with
what Envoy's filter manager keeps for it. What a script does is unknown, so each
run of a handler may end in every way the API offers it: finish, fail, wait for a
call or for the body (`get_body` is `luaBody` in every virtual machine, so in
version 2, too), respond. Callbacks are sets of outcomes. `local` is a response
in progress that did not come from the upstream; the field `twice` is history.

**Waf.** `flags` are the filter's members, `tx` the two transactions, `len` what
each has taken of a body. A rule engine is absent, detecting or on; which phase
intervenes is a choice. `req` and `resp` are the messages with what the filter
manager holds and has passed on. `sendLocalReply` encodes its reply before it
returns; in the model `encodeHeaders` and `encodeData` of the reply are actions of
their own that follow it, so other events may come in between. This only adds
interleavings.

**ConfigLifetime.** `owner` and `handler` are `ADMIN_HANDLER_UUID_MAP` and Envoy's
admin handlers; listener configurations come and go on the main thread, in any
order. `holders` are the threads that hold a route; whoever drops it last
destroys it, in two steps because another thread may create a route with the same
tags between the move and the mutex of `~TagsMetadataStats`. `cached` is
`cached_stats_scopes_`, `slot` the thread local slot of the token buckets,
`tokens` their contents.

**RequestFilters, DubboCodec, GatewayExchange.** The first two are operators: what
the filters decide, and the conversions between JSON, Hessian values and packets.
`GatewayExchange` composes them on one exchange: the rewrite, the restrictions,
the mark, the invocation, the packets arriving in pieces, the answer, and the
rewrite of the response. Values are small trees, texts are sequences of
tokens; a pattern splits a text into as many tokens as it has groups. The `:path`
header is such a text, `target`, in which `?`, `#`, `&` and `=` are tokens:
`header_rewrite` parses path and query from it and puts them together in it
again, and matchers and argument getters parse it once more
(`RemoveQueryAndFragment`, `ParseQueryString` and `QueryParamsToString`, which are
Envoy's and neither escape nor unescape). A map of parameters is written in some
fixed order of the names; a map's own order would matter only where a name or a
value contains a delimiter. References
are resolved through `heap`, as the codec shares decoded objects.

## Runs

| run | instance | distinct states | shows |
| --- | --- | --- | --- |
| `rolling` | window 2 s, 5 s of time, one step back | 30,198 | `SumExact`: with a clock that advances, `Sum` is exact; with the clock set back amounts may be lost, never invented |
| `circuit_breaker` | 3 streams, 2 routes | 847,493 | `ClosedBelowSlowLimit`, `CountedWhereChecked`, `BreakHonoured` |
| `local_cache` | 4 keys in one cache, 1 in another | 1,645 | `CacheConsistent` (list, dictionary and length agree, within the memory), `EvictsOldest`, the refinement `KeepsContract` |
| `config_lifetime` | 4 listeners, 3 routes, 2 workers | 285,250 | `AdminHandlerOwned`, `ScopesShared`, `EntriesIndependent`; live: `GoneLeavesNothing` |
| `redis_client` | 3 commands, 6 losses, maximum 2 | 1,043 | `AnsweredOnce`; live: `EveryGetAnswered`, `ComesBackOrGivesUp` |
| `super_cache` | 2 streams, local over Redis | 176,826 | `CallbackOnlyWhileHeld`, `StoredSound`, `StalenessBounded`; live: `HeldStreamResumes` |
| `downgrade` | bodies of up to 3 pieces, all four sources | 9,742 | `CallbackOwedWhileHeld`, `OneWholeResponse`, `StoredOriginals` |
| `dubbo_upstream` | 2 requests, 2 heartbeats | 13,921 | `AnswersOwnRequest`, `ReleasedSettled`; live: `SentRequestEnds` |
| `dubbo_twice` | the same | | a violation of `RespondsOnce`, see Finding |
| `rider` | all 20 plugins, 4 kinds of route, 2 pieces, 2 calls | 336,266 | `IterationRespected`, `BodyWhole`, `AnswerFindsHandler`; live: `MessageMovesOn` |
| `waf` | all 9 pairs of engines, 3 pieces | 8,104 | `RequestInspected`, `InterventionReplaces`, `PhasesOnceInOrder`; live: `HeldMovesOn` |
| `gateway_exchange` | 9,066 exchanges in families | 69,559 | `EchoFaithful`, `ArgumentsFit`, `AnswerIsFirst`, `RefsUnfolded`, `BigIntegerExact`, `PathCoherent`, `AdmittedAsSent`, `MarkLongest` |

Every property is stated in words at its definition. Each is accompanied by a
mutant of a mapped definition that violates it. The properties of
`GatewayExchange` compare what the code computes with reference definitions
beside them (the value of a number in positional notation, the unfolding of a
graph, the addresses of a range, the longest matching colour), not with the code
again.

### Bounds, and why they are enough

* `rolling`: the window edge, its neighbours and a jump over the whole window
  occur within 5 seconds; amounts 1 and 2 tell buckets apart.
* `circuit_breaker`: three streams are one more than the limit of consecutive slow
  responses and equal to the minimum request count of one route, so a breaker
  opens with a request still under way; four ticks let it expire and open again.
  The routes differ in the rules used and in waiting for bodies. Streams are
  interchangeable, so symmetry is sound; the properties are all safety.
* `local_cache`: four keys with lengths 1, 2 and 4 against a share of 3 need
  reclaiming of one and of several entries, and one entry exceeds a cache by
  itself; a fifth key shows that caches do not influence each other. Keys of one
  cache are interchangeable. The theorem removes the bounds for `KeepsContract`.
* `config_lifetime`: three configurations with one prefix are an old, a new and a
  newest one, destroyed in any order; two routes with equal tags and one with
  others suffice for a pointer to be shared, lost and taken up again. Budgets
  separate the questions: listeners alone, routes alone, one route with three
  requests and two ticks. The theorems remove the bounds for handlers and scopes.
* `redis_client`: six losses exceed the reconnections in a row that are allowed,
  with a success in between; three commands are outstanding together.
* `super_cache`: two streams suffice to have one refill or store while the other
  looks up, is reset or answered; two levels have a hit above, below and nowhere.
  One key, because keys share nothing: that nothing is filed under another key is
  proved for any number of them. Entries live one tick locally and two in Redis,
  against one tick of time: the case in which a refill prolongs a life.
* `downgrade`: one slot used again and again is enough because streams share only
  the stored entry, which each reads or writes in a single step; three pieces
  have a first, a middle and a last one. The theorems remove all bounds.
* `dubbo_upstream`: two requests are what it takes for one to be harmed by what
  another left; the proofs remove this bound and that on heartbeats.
* `rider`: two pieces of body have one before and one at the end, two calls have
  one from each direction or two in a row. A stream has no contact with another.
* `waf`: three pieces against limits of one and two have the listener's
  transaction full before the route's, and a piece beyond both.
* `gateway_exchange`: each family varies one subject fully and keeps the rest
  plain, as the subjects do not influence each other's code: every parameter type
  with every kind of JSON value, rewrites on two levels, targets with fragments and
  with several, equal, empty and bare parameters under rewriters that put
  delimiters into a path, a name or a value, entries and ranges of addresses,
  colours in every order, packets cut at every byte, all graphs of three objects.
  Words of 16 and radix 3 in groups of two digits make the long division carry,
  borrow and pad within three words; a header of 2 bytes can be cut inside; depth 3
  is exceeded by the deepest document.

`CHECK_DEADLOCK FALSE` stands where time, or the number of commands or requests,
is bounded, or where a stream ends.

### Fairness, and why the code justifies it

* `RedisAsyncClient`: due timers fire and hiredis reports every outcome; it bounds
  every connection attempt and command by the timeouts the constructor sets.
* `SuperCache`: Redis answers every get, which is what `EveryGetAnswered` shows of
  the client, and the worker runs posted callbacks. No fairness is assumed of
  clients, upstreams or time.
* `DubboUpstream`: the event loop reads and runs what is posted; the server
  answers. `SentRequestEnds` excludes a server that ends its half of the connection.
* `Rider`: the response of `respond()` is encoded on the spot, and the async client
  answers every call; a script that asks for timeout 0 relies on the cluster.
* `ConfigLifetime`: a destructor that has begun finishes, and the main thread runs
  what is posted to it.
* `Waf`: a message that has begun goes on to its end, or the stream's idle timeout
  destroys it.

`CircuitBreaker`, `LocalCache`, `Downgrade`, `RollingCounter` and `GatewayExchange`
assume none. That a held response of a downgrade filter resumes follows from
`CallbackOwedWhileHeld` and the timeout every sender passes on.

## Proofs

Forty-one theorems in eight modules hold for every value of the constants. The
assumptions are those named in the modules: bounds are natural numbers, settings
have their type, a threshold comes with its limit (the configuration factory
refuses others). In each module `IInv` is the inductive invariant; the proof that
steps keep it has one case per action.

**CircuitBreakerProofs.** `IInv` adds to the types what a stream's history says
about where it is (`HistoryInv`: a rejected stream is marked `local_replied_`, a
counted one is over and is not) and that nothing closes a breaker until
`breakDuration` after its last trip (`BreakStands`). The first makes
`CountedWhereChecked` and `RejectedNotCounted` inductive: they speak about
`encodeHeaders` and need what `decodeHeaders` left behind. The second gives
`BreakHonoured`. `UpdateMetricsFacts` and `AfterIsOpenFacts` are the only places
that open the breaker's arithmetic. Proved: `TypeOK`, `ClosedBelowSlowLimit`,
`RejectedNotCounted`, `CountedWhereChecked`, `OpenBounded`, and the action
properties `BreakNeverShortened` and `BreakHonoured`.

**RedisAsyncClientProofs.** `IInv` says where status, context and timer must agree
(`Consistent`), that every attempt since the last success has been counted
(`Counted`), and that exactly what is outstanding is queued in the open
connection (`Outstanding`). `AnsweredOnce` alone is not inductive: that the reset
answers each remaining command once requires that map and queue hold the same
commands at every step. Proved: `TypeOK`, `AnsweredOnce`, `OutstandingQueued`,
`WorkingHasContext`, `OneReconnection`, `AttemptsBounded`, `FinalStatus`.

**DubboUpstreamProofs.** `IInv` has four parts: `Lifecycle` (object, guard and the
router's phase agree), `Given` (the verdicts fit the phase), `Waiting` (what is
buffered and unread holds at most one answer, to the current request, followed by
heartbeats only) and `HandedOn` (a connection about to be handed on is settled or
about to close). `Waiting` is why matching by connection alone works: each read
takes a prefix of the stream, and the lemmas on sequences (`TakenRead`,
`ReadCases`, `WaitingKept`, `AnswerTaken`) follow it through splits and
heartbeats. Proved: `TypeOK`, `AnswersOwnRequest`, `ReleasedSettled`,
`PostedFindsObject`, `CloseReportedAlone`, `SilentAfterReset`, for any number of
requests and heartbeats.

**ConfigLifetimeProofs.** `AdminInv`: configurations are created in order, the map
of owners equals what the admin server has, and a handler has its owner's prefix.
`ScopesInv`: a route holds a pointer from creation to erasure, equal pointers mean
equal tags, and no pointer is new twice, which is what makes a destructor that
finds another pointer in the cache leave it alone. Proved: `TypeOK`,
`AdminHandlerOwned`, `ScopesShared`, for any number of configurations and workers.

**DowngradeProofs.** `Good` describes a filter at each place of the code: what is
buffered while decoding, what is owed while held, and, once a response is on its
way, whether it passes or is being replaced and how much of which body the client
has. `OneWholeResponse` speaks of a response that has ended and needs those
partial forms. Proved: `TypeOK`, `CallbackOwedWhileHeld`, `OneWholeResponse`,
`StoredOriginals`.

**SuperCacheProofs.** `Good` says what a filter's pending answer and its partly
collected response may be, `CacheGood` what a level may hold. Storing is sound
only because the collected part equals what was sent so far (`Partial`) and
because an answer under way is still for the key that was asked (`Pending`),
whatever happened to the level since. Proved: `TypeOK`, `CallbackOnlyWhileHeld`,
`StoredSound`, `StatusTruthful`, for any keys, levels and lifetimes.

**LocalCacheProofs.** `CacheImplementsContract` is the refinement `Spec =>
KeepsContract`: every insert, removal and lookup of the sharded caches is that
step of `CacheContract`. The argument is one relation, `Forgets`: reclaiming,
draining and the repair in `checkMemory` only ever drop entries. The two loops
are recursive functions; that they exist and only forget after any number of
rounds is shown by looking at the least round at which it would fail.

**RiderProofs.** `Sound` relates, for a direction, where the pieces of the message
are, what the handler waits for and whether iteration is stopped: while a
version 2 body handler may still come, everything that arrived is buffered, also
when the header handler waits in `get_body`; a version 2 header handler that
waits for a call has stopped all iteration; a body handler that is due after a
call has a message that ended without a body. A shared error lifts these demands,
because then everything passes. `BodyWhole` needs all of it, as the handler reads
the buffer in one callback and the pieces were put there by others.
`IterationRespected` needs a second layer, `JInv`: a handler that waits where a
callback looks for it (`Waits`) has stopped iteration and not moved on
(`Orderly`), and both directions take turns (`Turns`), because an error of one
releases the other. Proved: `TypeOK`, `AnswerFindsHandler`, `BodyWhole`,
`IterationRespected`, for any plugins, lengths and numbers of calls.

**Only model-checked:** all liveness, which is outside what the prover does;
`StalenessBounded`; `EntriesIndependent`; `SumExact`,
`CacheConsistent` and `EvictsOldest`, which are about what folds compute; and
`Waf` and `GatewayExchange`. The codec is recursive over trees, and its modules are
kept apart from those with proofs.

## Finding

`dubbo_twice`, in which TLC must find the violation. `handleRawResponse` asserts
`!responded_` (`upstream_request.cc:324`). A posted local answer tests the guard
and not that flag: if the server's stream ends with a heartbeat before the lambda
runs, `onUpstreamData` answers, and the lambda answers again until the router has
destroyed the upstream.

### Observations without a run

Met while modelling. The models contain the behaviour wherever it lies in a
modelled part, and the properties name what they leave out.

* Redis client: a comment says 连接被动断开并尝试重新建立连接 (a connection that is
  lost passively is established again, `async_client.h:172`). If it is lost while
  AUTH is pending, `authenticateCb` sees a null reply first, takes it for a refused
  password and gives up. `reconnect_count_++ > max` (line 250) allows one
  reconnection more than the maximum; `AttemptsBounded` states the bound that holds.
* Downgrade: 降级成功且使用外部响应体替换原始响应体 (the substitute's body replaces the
  original one, `dynamic_downgrade_filter.cc:317`) happens in the `encodeData` call
  with `end_stream`. If the original ends with trailers that call does not come and
  the client gets the substitute's headers without a body; `service_downgrade` and
  `static_downgrade` are the same. `OneWholeResponse` excludes trailers there.
* `static_downgrade`: the test `size <= 0 && size > max_body_size`
  (`static_downgrade_filter.cc:81`) is never true, so bodies from files are
  unlimited, while an inline body above the limit is dropped. A configuration
  without response rules never applies.
* Circuit breaker: a request held for its body and ended by trailers goes on
  although the breaker is open (`filter.cc:71`; there is no trailers callback).
* `super_cache`: the headers of a Redis hit are marked before they are copied to the
  local level, so a later local hit says HIT twice (`cache_filter.cc:72`, `129`).
  The status BYPASS in the comment at line 70 is never set.
* Dubbo upstream: the end of the server's half-connection with no data is ignored
  (`upstream_request.cc:397`); the request waits for the router's timeout. The
  first half of a heartbeat read together with an answer goes with the object and
  breaks the framing for the next request, which is then answered as unusable.
* `rider`: there are no trailers callbacks, so trailers move a message on under a
  version 1 handler that waits (`Overtaken`), and a body ended by trailers skips
  the version 2 body handler. `respond()` without body in a version 2 plugin
  without `on_response_header` is held (`Withheld`). A version 2 header handler
  that calls `get_body` before the end of its message waits for the body
  (`filter.cc:1140`), and no callback of version 2 looks for that (`918`–`928`): it
  is never resumed, and its message goes past it (`Overlooked`), or stays where it
  is if an earlier call had stopped all iteration (`Stranded`). `IterationRespected`
  excludes `Overtaken` and `Overlooked` handlers, `MessageMovesOn` `Withheld` and
  `Stranded` ones; they exclude nothing else.
* `rider`: `respond()` is refused with "respond() cannot be called if headers have
  been continued" (`filter.cc:935`), but version 2 never sets the flag (line 926).
  `rider.proto` says that without `allow_no_route` a plugin does not run on a route
  without plugin configuration; `decodeHeaders` runs it there, and `decodeData` of
  version 2 has no such test. `get_body` after an HTTP call fails if the whole body
  arrived before the call's answer. A plugin with the explicit version "v1" only
  has version 2 handler names looked up (`vm.cc`). Whether data added with
  `addDecodedData` from a callback that does not stop iteration is forwarded
  depends on Envoy and is left open.
* `waf`: with the engine on, a response of headers alone is held, as nothing sets
  `response_processed_`; `HeldMovesOn` speaks of responses with a body. Trailers
  release a message without its body phase. At a response limit `sendEncodeReply`
  does nothing while `end_stream_` is false. An intervention of the response body
  phase puts the reply before the last piece. A request without a body has no body
  phase. The route's engine takes precedence over the listener's in
  `enabledRuleEngine`.
* Hessian to JSON: the history that cuts circles is one set, which every container
  enters and leaves (`utility.cc:604`–`636`). For 16 of the 512 graphs of three
  objects, per root, a container is left while an outer visit of it is still under
  way and the conversion does not end; the model gives such an exchange the step
  "endless", and `RefsUnfolded` speaks of the others. Keys of maps that are not
  strings are converted with a history of their own.
* Dubbo packets: the two readers differ only for a null answer in a body that is too
  short; `decodeDubboFromBuffer` is used by tests alone. Attachment names are
  unique within each source only, and default arguments get no generic classes.
* `header_rewrite`: `path_` and the parameters are written to the `:path` header
  without escaping (`header_rewrite.cc:275`), so a `?` or `#` that a rewriter puts
  into the path, an `&` in a parameter or an `=` in its name is read as a delimiter
  by everything that parses the header afterwards, while the response's extractors
  see the text as it was rendered. `PathCoherent` says that the two agree in all
  other cases, and in those alone. A fragment in front of the query is dropped when
  the header is written; one behind it counts as part of the last parameter.
* `header_rewrite`: an update removes the header before the template is rendered.
  `getCookies` casts response headers to request headers.
* `ip_restriction`: ranges of length 32, some lengths of IPv6 ranges and compressed
  IPv6 entries do not match the patterns and are ignored; a request without a
  usable address is let through.
* `local_limit`: an entry is charged for requests that another entry refuses;
  `maybeReset` has no caller. The branch for an expired pointer in
  `getStatsScopesFromProto` is never taken, by `ScopesShared`.

## Not modelled, and why

* Parts without a state of their own or without a caller: `metadata_hub`, the base
  classes of the filters, the access log escape filter, the Kafka producer, the
  synchronous Redis client, small helpers. `PROJECT.json` gives each its reason.
* The script interface of `rider` (`ffi.cc`, `context.cc`): what a script computes is
  unknown, so its accessors decide nothing in the model.
* `detailed_stats` beyond the scopes: the tags and amounts of a stream go to counters
  on which no decision of the proxy depends. Counters of the other filters likewise.
* Dubbo upstream: `readDisable` and the watermark callbacks, which forward to Envoy.
* The contents of headers outside `RequestFilters`: a matcher's verdict is a free
  choice. In `GatewayExchange`: rewriters of the `:path` header itself, requests
  without a route, doubles that are not finite, defaults that fail to load, URL
  encoding of queries, and the headers that mark a denied request.
* The floating point of the error percentage is replaced by exact integers. Memory
  growth of `circuit_breakers_` over configuration updates and configurations that
  name no cache are outside the states the models start from.
