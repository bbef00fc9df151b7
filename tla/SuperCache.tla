----------------------------- MODULE SuperCache -----------------------------
(***************************************************************************)
(* The super_cache HTTP filter and the CacheRequestSender behind it: a      *)
(* request is held while the cache levels are asked one after the other, is *)
(* answered from the first that knows it or resumed, and the response is    *)
(* collected on its way back and stored.                                    *)
(*                                                                         *)
(* A cache level answers through a callback posted to the worker.  A local  *)
(* level reads when it is asked; Redis reads some time later, may answer    *)
(* with nothing because it is not connected, or with a value that does not  *)
(* parse (an entry without message).  A stream slot is used for one request *)
(* after another.  Time advances only when no posted callback is waiting.   *)
(***************************************************************************)
EXTENDS Integers, Sequences, FiniteSets, FiniteSetsExt

CONSTANTS
  Streams,       \* requests in progress at the same time
  Keys,          \* cache keys
  Kinds,         \* used_caches_: <<"local", "redis">>, in lookup order
  Responses,     \* what an upstream may answer: [code, total, trailers, cacheable]
  TTL,           \* cache_ttls_: per level the default and the custom lifetimes
  LowLevelFill,  \* low_level_fill_
  LargestBody,   \* MAX_CACHE_ENTRY_SIZE
  MaxTime        \* bound: the clock

Levels == DOMAIN Kinds

ASSUME KindsAssumption == Kinds \in Seq({"local", "redis"})
ASSUME KeysAssumption == Keys # {}
ASSUME ResponsesAssumption ==
  \A r \in Responses : r \in [code : {r.code}, total : Nat, trailers : BOOLEAN, cacheable : BOOLEAN]
ASSUME TTLAssumption ==
  \A l \in Levels :
    /\ TTL[l].default \in Nat
    /\ DOMAIN TTL[l].customs \subseteq Nat
    /\ \A i \in DOMAIN TTL[l].customs : TTL[l].customs[i].ttl \in Nat
ASSUME TimeAssumption == MaxTime \in Nat /\ LargestBody \in Nat /\ LowLevelFill \in BOOLEAN

VARIABLES
  stream,    \* per stream, the filter and its request sender
  cache,     \* level -> key -> entry
  removing,  \* the admin request under way: its key and the next level
  now

vars == <<stream, cache, removing, now>>

None == [none |-> TRUE]
Empty == [empty |-> TRUE]
NoReply == [state |-> "none", entry |-> None]
Asked == [state |-> "asked", entry |-> None]
Posted(e) == [state |-> "posted", entry |-> e]

\* A filter and a sender as constructed.  callback stands for callback_ set
\* with neither lookup_cache_over_ nor lookup_cache_stop_.
Fresh ==
  [pc |-> "done", key |-> CHOOSE k \in Keys : TRUE,
   enable |-> FALSE, hit |-> FALSE, hit_in_cache |-> 0, current |-> 1,
   callback |-> FALSE, pending |-> NoReply, to_cache |-> None, resp |-> None,
   sent |-> 0, marks |-> <<>>]

Init ==
  /\ stream = [s \in Streams |-> Fresh]
  /\ cache = [l \in Levels |-> [k \in Keys |-> None]]
  /\ removing = None
  /\ now = 0

-----------------------------------------------------------------------------
\* What level l holds for k that has not expired.
Held(l, k) == IF cache[l][k] # None /\ cache[l][k].expire > now THEN cache[l][k] ELSE None

\* cacheTTL: the first custom lifetime that matches the code, or the default; a
\* level without configuration has the default 0.
CacheTTL(l, code) ==
  LET matching == {i \in DOMAIN TTL[l].customs : code \in TTL[l].customs[i].codes}
  IN  IF matching = {} THEN TTL[l].default ELSE TTL[l].customs[Min(matching)].ttl

\* lookupCache of level l: the local cache reads at once and posts the result.
Ask(l, k) == IF Kinds[l] = "local" THEN Posted(Held(l, k)) ELSE Asked

\* A variant of InsertCache that stores in every level after a hit, too.
InsertCacheEverywhere(key, hit, e, lost) ==
  [l \in Levels |->
    IF l \notin lost /\ CacheTTL(l, e.code) > 0
      THEN [cache[l] EXCEPT ![key] = [e EXCEPT !.expire = now + CacheTTL(l, e.code)]]
      ELSE cache[l]]

\* insertCache: all levels after a miss, the levels above the hit after a hit.
\* lost are the Redis levels that are not connected.
InsertCache(key, hit, e, lost) ==
  [l \in Levels |->
    IF (hit = 0 \/ l < hit) /\ l \notin lost /\ CacheTTL(l, e.code) > 0
      THEN [cache[l] EXCEPT ![key] = [e EXCEPT !.expire = now + CacheTTL(l, e.code)]]
      ELSE cache[l]]

\* insertResponse: responses that are too large are dropped.
InsertResponse(f, e, lost) ==
  IF e.body > LargestBody THEN cache ELSE InsertCache(f.key, f.hit_in_cache, e, lost)

\* What is connected when an entry is stored is not known: any Redis level may
\* miss it.
LostLevels == SUBSET {l \in Levels : Kinds[l] = "redis"}

\* The response r to a request for k as it is collected: its body so far and in
\* full, the x-cache-status values among its headers, when it was completed.
Collected(k, r) ==
  [code |-> r.code, cacheable |-> r.cacheable, key |-> k, body |-> 0, total |-> r.total,
   marks |-> <<>>, born |-> 0, expire |-> 0]

\* encodeHeaders: the copy to store is taken before the headers are marked.
AfterHeaders(f, e) ==
  IF ~f.enable \/ ~e.cacheable
    THEN [f EXCEPT !.enable = FALSE, !.marks = e.marks]
    ELSE [f EXCEPT !.to_cache = IF LowLevelFill \/ ~f.hit THEN e ELSE None,
                   !.marks = e.marks \o IF f.hit THEN <<>> ELSE <<"MISS">>]

\* What is left of a stream that ended: the answer it gave and the lookup still
\* on its way, if any.
Remains(f) ==
  [Fresh EXCEPT !.key = f.key, !.current = f.current, !.pending = f.pending, !.hit = f.hit,
                !.marks = f.marks]

\* A variant of Destroyed that does not cancel the lookup.
DestroyedUncancelled(f) == [Remains(f) EXCEPT !.callback = f.callback]

\* onDestroy: the lookup is cancelled and the response collected so far goes.
Destroyed(f) == Remains(f)

\* The response of f has ended: store it if it was collected, and end the stream.
EndOfResponse(s, f) ==
  /\ IF f.to_cache = None
       THEN UNCHANGED cache
       ELSE \E lost \in LostLevels : cache' = InsertResponse(f, f.to_cache, lost)
  /\ stream' = [stream EXCEPT ![s] = Destroyed(f)]

-----------------------------------------------------------------------------
\* decodeHeaders of a new request.  Requests that cannot be cached, and routes
\* without or with a disabled configuration, pass; so do all if no level exists.
DecodeHeaders(s, k, enabled) ==
  LET lookup == enabled /\ Levels # {}
  IN  /\ stream[s].pc = "done"
      /\ stream[s].pending = NoReply
      /\ stream' = [stream EXCEPT ![s] =
           [Fresh EXCEPT !.pc = IF lookup THEN "lookup" ELSE "upstream",
                         !.key = k,
                         !.enable = enabled,
                         !.callback = lookup,
                         !.pending = IF lookup THEN Ask(1, k) ELSE NoReply]]
      /\ UNCHANGED <<cache, removing, now>>

\* Redis answers: the value, nothing, or a value that does not parse.
Resolve(s) ==
  LET f == stream[s]
      e == Held(f.current, f.key)
  IN  /\ f.pending = Asked
      /\ \E answer \in {e, None} \cup (IF e = None THEN {} ELSE {Empty}) :
           stream' = [stream EXCEPT ![s].pending = Posted(answer)]
      /\ UNCHANGED <<cache, removing, now>>

\* The posted callback finds the lookup cancelled.
LookupDropped(s) ==
  /\ stream[s].pending.state = "posted"
  /\ ~stream[s].callback
  /\ stream' = [stream EXCEPT ![s].pending = NoReply]
  /\ UNCHANGED <<cache, removing, now>>

\* A variant of LookupNext that gives up silently after the last level.
LookupNextOnly(s) ==
  LET f == stream[s]
  IN  /\ f.callback
      /\ f.pending = Posted(None)
      /\ stream' = [stream EXCEPT ![s] =
           IF f.current < Len(Kinds)
             THEN [f EXCEPT !.current = f.current + 1, !.pending = Ask(f.current + 1, f.key)]
             ELSE [f EXCEPT !.pending = NoReply]]
      /\ UNCHANGED <<cache, removing, now>>

\* Nothing in this level: ask the next; after the last one resume the request
\* (onFailure, continueDecoding).
LookupNext(s) ==
  LET f == stream[s]
  IN  /\ f.callback
      /\ f.pending = Posted(None)
      /\ stream' = [stream EXCEPT ![s] =
           IF f.current < Len(Kinds)
             THEN [f EXCEPT !.current = f.current + 1, !.pending = Ask(f.current + 1, f.key)]
             ELSE [f EXCEPT !.pc = "upstream", !.callback = FALSE, !.pending = NoReply]]
      /\ UNCHANGED <<cache, removing, now>>

\* An entry without message counts as a hit in its level, but the request is resumed.
LookupEmpty(s) ==
  LET f == stream[s]
  IN  /\ f.callback
      /\ f.pending = Posted(Empty)
      /\ stream' = [stream EXCEPT ![s] =
           [f EXCEPT !.pc = "upstream", !.callback = FALSE, !.pending = NoReply,
                     !.hit_in_cache = f.current]]
      /\ UNCHANGED <<cache, removing, now>>

\* onSuccess: the entry is replayed through the encoder filters, this one
\* included, and the stream ends.
LookupHit(s) ==
  LET f == stream[s]
      e == f.pending.entry
      marked == [e EXCEPT !.marks = Append(e.marks, "HIT")]
      hit == [f EXCEPT !.hit = TRUE, !.hit_in_cache = f.current, !.callback = FALSE,
                       !.pending = NoReply]
  IN  /\ f.callback
      /\ f.pending.state = "posted"
      /\ e \notin {None, Empty}
      /\ EndOfResponse(s, AfterHeaders(hit, marked))
      /\ UNCHANGED <<removing, now>>

\* encodeHeaders of the upstream's response r.
EncodeHeaders(s, r) ==
  LET f == AfterHeaders(stream[s], [Collected(stream[s].key, r) EXCEPT !.born = now])
  IN  /\ stream[s].pc = "upstream"
      /\ IF r.total = 0 /\ ~r.trailers
           THEN EndOfResponse(s, f)
           ELSE /\ stream' = [stream EXCEPT ![s] = [f EXCEPT !.pc = "body", !.resp = r]]
                /\ UNCHANGED cache
      /\ UNCHANGED <<removing, now>>

\* A variant of EncodeData that stores the response with its first data.
EncodeDataEarly(s) ==
  LET f == stream[s]
      sent == f.sent + 1
      g == [f EXCEPT !.sent = sent,
                     !.to_cache = IF f.to_cache = None THEN None
                                  ELSE [f.to_cache EXCEPT !.body = sent, !.born = now]]
  IN  /\ f.pc = "body"
      /\ f.sent < f.resp.total
      /\ EndOfResponse(s, g)
      /\ UNCHANGED <<removing, now>>

\* encodeData: one more piece of the body, with end_stream if it is the last
\* and no trailers follow.
EncodeData(s) ==
  LET f == stream[s]
      sent == f.sent + 1
      g == [f EXCEPT !.sent = sent,
                     !.to_cache = IF f.to_cache = None THEN None
                                  ELSE [f.to_cache EXCEPT !.body = sent, !.born = now]]
  IN  /\ f.pc = "body"
      /\ f.sent < f.resp.total
      /\ IF sent = f.resp.total /\ ~f.resp.trailers
           THEN EndOfResponse(s, g)
           ELSE stream' = [stream EXCEPT ![s] = g] /\ UNCHANGED cache
      /\ UNCHANGED <<removing, now>>

\* Trailers end the stream without a call that stores the response.
EncodeTrailers(s) ==
  /\ stream[s].pc = "body"
  /\ stream[s].resp.trailers
  /\ stream[s].sent = stream[s].resp.total
  /\ stream' = [stream EXCEPT ![s] = Destroyed(stream[s])]
  /\ UNCHANGED <<cache, removing, now>>

\* A local reply r while the lookup is pending passes the filter like any response.
LocalReply(s, r) ==
  LET f == AfterHeaders(stream[s], [Collected(stream[s].key, r) EXCEPT !.born = now,
                                                                     !.body = r.total])
  IN  /\ stream[s].pc = "lookup"
      /\ ~r.trailers
      /\ EndOfResponse(s, f)
      /\ UNCHANGED <<removing, now>>

\* The client goes away or the upstream resets.
Reset(s) ==
  /\ stream[s].pc # "done"
  /\ stream' = [stream EXCEPT ![s] = Destroyed(stream[s])]
  /\ UNCHANGED <<cache, removing, now>>

\* The admin handler removes k from one level after the other, on the main
\* thread; a Redis level that is not connected keeps its entry.
AdminRemove(k) ==
  /\ removing = None
  /\ Levels # {}
  /\ removing' = [key |-> k, level |-> 1]
  /\ UNCHANGED <<stream, cache, now>>

RemoveFromLevel ==
  /\ removing # None
  /\ \E lost \in LostLevels :
       cache' = IF removing.level \in lost THEN cache
                ELSE [cache EXCEPT ![removing.level][removing.key] = None]
  /\ removing' = IF removing.level < Len(Kinds)
                   THEN [removing EXCEPT !.level = removing.level + 1] ELSE None
  /\ UNCHANGED <<stream, now>>

\* The local cache evicts k to make room.
Evict(l, k) ==
  /\ Kinds[l] = "local"
  /\ cache[l][k] # None
  /\ cache' = [cache EXCEPT ![l][k] = None]
  /\ UNCHANGED <<stream, removing, now>>

Tick ==
  /\ now < MaxTime
  /\ \A s \in Streams : stream[s].pending.state # "posted"
  /\ now' = now + 1
  /\ UNCHANGED <<stream, cache, removing>>

Step(s) ==
  \/ \E k \in Keys, enabled \in BOOLEAN : DecodeHeaders(s, k, enabled)
  \/ Resolve(s) \/ LookupDropped(s) \/ LookupNext(s) \/ LookupEmpty(s) \/ LookupHit(s)
  \/ (\E r \in Responses : EncodeHeaders(s, r) \/ LocalReply(s, r))
  \/ EncodeData(s) \/ EncodeTrailers(s) \/ Reset(s)

Next ==
  \/ \E s \in Streams : Step(s)
  \/ (\E k \in Keys : AdminRemove(k)) \/ RemoveFromLevel
  \/ (\E l \in Levels, k \in Keys : Evict(l, k))
  \/ Tick

\* Redis answers every get (the client answers when the connection does not),
\* and the worker runs what is posted to it.
Fairness ==
  \A s \in Streams :
    WF_vars(Resolve(s)) /\ WF_vars(LookupDropped(s) \/ LookupNext(s) \/ LookupEmpty(s) \/ LookupHit(s))

Spec == Init /\ [][Next]_vars /\ Fairness

-----------------------------------------------------------------------------
Codes == {r.code : r \in Responses}
Marks == {"HIT", "MISS"}

Entries ==
  [code : Codes, cacheable : BOOLEAN, key : Keys, body : Nat, total : Nat, marks : Seq(Marks),
   born : Nat, expire : Nat]

Replies == [state : {"none", "asked", "posted"}, entry : Entries \cup {None, Empty}]

Filters ==
  [pc : {"done", "lookup", "upstream", "body"}, key : Keys, enable : BOOLEAN, hit : BOOLEAN,
   hit_in_cache : Levels \cup {0}, current : Levels \cup {1}, callback : BOOLEAN,
   pending : Replies, to_cache : Entries \cup {None}, resp : Responses \cup {None},
   sent : Nat, marks : Seq(Marks)]

\* Filters, entries and the clock keep their types.
TypeOK ==
  /\ stream \in [Streams -> Filters]
  /\ cache \in [Levels -> [Keys -> Entries \cup {None}]]
  /\ removing \in [key : Keys, level : Levels] \cup {None}
  /\ now \in 0 .. MaxTime

\* The sender can call the filter back exactly while the filter holds the
\* request, and then an answer is on its way: no callback reaches a stream that
\* is resumed, answered or destroyed, and no held stream is forgotten.
CallbackOnlyWhileHeld ==
  \A s \in Streams :
    /\ stream[s].callback <=> stream[s].pc = "lookup"
    /\ stream[s].callback => stream[s].pending.state # "none"

\* Only complete responses that may be cached and fit are stored, whatever the
\* stream went through, and only under the key of the request they answered.
StoredSound ==
  \A l \in Levels, k \in Keys :
    LET e == cache[l][k]
    IN  e # None => /\ e.key = k
                    /\ e.cacheable
                    /\ e.body = e.total
                    /\ e.body <= LargestBody

\* How long a response may live in level l: its own lifetime and, as it may
\* come from a lower level at the end of its life there, theirs.
Lifetime(l, code) ==
  MapThenSumSet(LAMBDA i : CacheTTL(i, code), {i \in Levels : i >= l})

\* Refilling the upper levels cannot keep a response alive for ever: an entry
\* expires within the lifetimes of its level and the levels below it, counted
\* from when the response was received.
StalenessBounded ==
  \A l \in Levels, k \in Keys :
    LET e == cache[l][k]
    IN  e # None => e.expire <= e.born + Lifetime(l, e.code)

\* What the client is told agrees with where the response came from: a replayed
\* response never says MISS and says HIT, a forwarded one never says HIT.
StatusTruthful ==
  \A s \in Streams :
    LET f == stream[s]
        said == {f.marks[i] : i \in 1 .. Len(f.marks)}
    IN  /\ f.hit => said = {"HIT"}
        /\ ~f.hit => "HIT" \notin said

\* A request held for a lookup is resumed, answered or destroyed eventually.
HeldStreamResumes ==
  \A s \in Streams : stream[s].pc = "lookup" ~> stream[s].pc # "lookup"

=============================================================================
