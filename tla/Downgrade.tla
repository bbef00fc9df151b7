------------------------------ MODULE Downgrade ------------------------------
(***************************************************************************)
(* The downgrade filters: a response that matches is replaced, headers and  *)
(* body, by a substitute.  dynamic_downgrade and service_downgrade hold it  *)
(* while the substitute is fetched from another service or from the cache;  *)
(* if none comes, the original continues.  dynamic_downgrade also stores    *)
(* good responses.  static_downgrade has its substitutes configured.        *)
(*                                                                         *)
(* The filters are the same machine; source tells them apart: service       *)
(* (service_downgrade), httpx and cache (dynamic_downgrade) and static      *)
(* (static_downgrade).  A body is the number of its pieces.  The requests   *)
(* share a cache key, hence one entry.                                      *)
(* A stream slot is used for one request after another.                     *)
(***************************************************************************)
EXTENDS Integers, FiniteSets

CONSTANTS
  Streams,    \* requests in progress at the same time
  MaxPieces,  \* bound: pieces of a response body
  MaxRequest, \* bound: pieces of a request body
  MaxStatic   \* max_body_size of a substitute configured inline

ASSUME BoundAssumption == MaxPieces \in Nat /\ MaxRequest \in Nat

VARIABLES
  stream,  \* per stream, the filter and what the client has received
  store    \* the cached response: its pieces in the cache and in full, its origin

vars == <<stream, store>>

Pieces == 0 .. MaxPieces
Fetching == {"service", "httpx", "cache"}
Sources == Fetching \cup {"static"}
NoEntry == [body |-> 0, total |-> 0, from |-> "none"]

\* A filter as constructed, between two requests.
Fresh ==
  [pc |-> "done", source |-> "service", should_downgrade |-> FALSE,
   downgrade_complete |-> FALSE, downgrade_suspend |-> FALSE, should_cache_rpx |-> FALSE,
   headers_only_resp |-> FALSE, is_sending_request |-> FALSE, local_request_over |-> FALSE,
   buffered_rqx |-> 0, buffered_rpx |-> 0,
   outstanding |-> FALSE,                   \* the sender owes a callback
   got |-> 0, asked |-> 0,                  \* request body received, and sent on
   total |-> 0, trailers |-> FALSE,         \* the original response
   seen |-> 0,                              \* its pieces that reached the filter
   headers |-> "none", body |-> 0,          \* what the client has received
   substitute |-> 0, offered |-> 0,         \* the substitute's body: received, offered
   ended |-> FALSE]

Init ==
  /\ stream = [s \in Streams |-> Fresh]
  /\ store = NoEntry

-----------------------------------------------------------------------------
\* decodeHeaders; matches is shouldDowngrade on a route that is configured, which
\* static_downgrade only asks when the response arrives.
DecodeHeaders(s, source, matches) ==
  /\ stream[s].pc = "done"
  /\ source = "static" => ~matches
  /\ stream' = [stream EXCEPT ![s] =
       [Fresh EXCEPT !.pc = "decoding", !.source = source, !.should_downgrade = matches]]
  /\ UNCHANGED store

\* decodeData: the request body is kept for a downgrade request.
DecodeData(s) ==
  LET f == stream[s]
  IN  /\ f.pc # "done"
      /\ f.got < MaxRequest
      /\ stream' = [stream EXCEPT ![s].got = f.got + 1,
                                  ![s].buffered_rqx =
                                     IF f.should_downgrade /\ f.source \in Fetching \ {"cache"}
                                       THEN f.buffered_rqx + 1 ELSE f.buffered_rqx]
      /\ UNCHANGED store

-----------------------------------------------------------------------------
\* insertResponse of the collected original.
Insert(f, body) == store' = [body |-> body, total |-> f.total, from |-> f.headers]

\* The original response, as it arrives.
Arrived(f, total, trailers) ==
  [f EXCEPT !.pc = "encoding", !.total = total, !.trailers = trailers, !.headers = "original"]

\* The stream ends with everything encoded; what the client received is kept.
Finished(f) ==
  [Fresh EXCEPT !.ended = TRUE, !.total = f.total, !.trailers = f.trailers,
                !.headers = f.headers, !.body = f.body, !.substitute = f.substitute,
                !.offered = f.offered]

EndIf(end, f) == IF end THEN Finished(f) ELSE f

\* encodeHeaders without a downgrade: pass, or collect the response to store it.
EncodeHeadersPass(s, total, trailers, cacheable) ==
  LET end == total = 0 /\ ~trailers
      f == Arrived(stream[s], total, trailers)
      collect == f.should_downgrade /\ f.source = "cache" /\ cacheable
      g == [f EXCEPT !.should_downgrade = FALSE, !.should_cache_rpx = collect,
                     !.headers_only_resp = (collect /\ end)]
  IN  /\ stream[s].pc = "decoding" /\ f.source \in Fetching
      /\ stream' = [stream EXCEPT ![s] = EndIf(end, g)]
      /\ IF collect /\ end THEN Insert(f, 0) ELSE UNCHANGED store

\* encodeHeaders with a downgrade.  sent is how sendRequest went: under way,
\* failed, or over with its callback called before it returned (which a cache
\* never does: it posts).
EncodeHeadersDowngrade(s, total, trailers, sent) ==
  LET end == total = 0 /\ ~trailers
      f == Arrived(stream[s], total, trailers)
      g == [f EXCEPT !.headers_only_resp = end, !.asked = f.buffered_rqx, !.buffered_rqx = 0,
                     !.local_request_over = (sent = "over")]
      held == [g EXCEPT !.pc = "held", !.is_sending_request = TRUE, !.outstanding = TRUE]
      suspended == [g EXCEPT !.downgrade_suspend = TRUE]
  IN  /\ f.should_downgrade
      /\ stream[s].pc = "decoding"
      /\ f.source = "cache" => sent = "oncall"
      /\ stream' = [stream EXCEPT ![s] = IF sent = "oncall" THEN held
                                         ELSE EndIf(end, suspended)]
      /\ UNCHANGED store

\* A response of static_downgrade's configuration: whether it matches the request
\* and the response (never without a condition on the response), and its body, from
\* a file or inline; an inline body that is too long is left out.
StaticConfigs == [matches : BOOLEAN, kind : {"file", "inline"}, size : Pieces]
StaticBody(c) == IF c.kind = "inline" /\ c.size > MaxStatic THEN 0 ELSE c.size

\* downgradeConfig: the first configuration that matches.
DowngradeConfig(primary, specific) == IF primary.matches THEN primary ELSE specific

\* encodeHeaders of static_downgrade: the headers are replaced at once, the body
\* when the original one ends.
EncodeHeadersStatic(s, total, trailers, primary, specific) ==
  LET end == total = 0 /\ ~trailers
      f == Arrived(stream[s], total, trailers)
      d == StaticBody(DowngradeConfig(primary, specific))
      g == [f EXCEPT !.should_downgrade = TRUE, !.headers = "substitute", !.offered = d,
                     !.downgrade_complete = end]
  IN  /\ stream[s].pc = "decoding" /\ f.source = "static"
      /\ stream' = [stream EXCEPT ![s] =
           IF ~primary.matches /\ ~specific.matches THEN EndIf(end, f)
           ELSE IF end THEN Finished([g EXCEPT !.substitute = d])
                       ELSE [g EXCEPT !.buffered_rpx = d]]
      /\ UNCHANGED store

-----------------------------------------------------------------------------
\* The filter collects the original body for the cache, replaces it, or lets it pass.
Collects(f) == ~f.should_downgrade /\ f.should_cache_rpx
Replaces(f) == f.should_downgrade /\ ~f.downgrade_complete /\ ~f.downgrade_suspend

\* A variant of AfterData that does not drain the original.
AfterDataUndrained(f, end) ==
  LET seen == [f EXCEPT !.seen = f.seen + 1, !.body = f.body + 1]
  IN  EndIf(end, IF Replaces(f)
                   THEN IF end THEN [seen EXCEPT !.substitute = f.buffered_rpx,
                                                 !.downgrade_complete = TRUE]
                               ELSE seen
                   ELSE [seen EXCEPT !.buffered_rpx =
                           IF Collects(f) THEN f.buffered_rpx + 1 ELSE f.buffered_rpx])

\* encodeData: drained while the body is replaced, the substitute added at the end.
AfterData(f, end) ==
  LET seen == [f EXCEPT !.seen = f.seen + 1]
  IN  EndIf(end, IF Replaces(f)
                   THEN IF end THEN [seen EXCEPT !.substitute = f.buffered_rpx,
                                                 !.downgrade_complete = TRUE]
                               ELSE seen
                   ELSE [seen EXCEPT !.body = f.body + 1,
                                     !.buffered_rpx =
                                       IF Collects(f) THEN f.buffered_rpx + 1
                                                      ELSE f.buffered_rpx])

\* A variant of EncodeData that stores what it has with every piece.
EncodeDataStores(s) ==
  LET f == stream[s]
      end == f.seen + 1 = f.total /\ ~f.trailers
  IN  /\ f.pc = "encoding"
      /\ f.seen < f.total
      /\ stream' = [stream EXCEPT ![s] = AfterData(f, end)]
      /\ IF Collects(f) THEN Insert(f, f.buffered_rpx + 1) ELSE UNCHANGED store

EncodeData(s) ==
  LET f == stream[s]
      end == f.seen + 1 = f.total /\ ~f.trailers
  IN  /\ f.pc = "encoding"
      /\ f.seen < f.total
      /\ stream' = [stream EXCEPT ![s] = AfterData(f, end)]
      /\ IF Collects(f) /\ end THEN Insert(f, f.buffered_rpx + 1) ELSE UNCHANGED store

\* The filters have no encodeTrailers: the stream just ends.
EncodeTrailers(s) ==
  LET f == stream[s]
  IN  /\ f.pc = "encoding"
      /\ f.trailers
      /\ f.seen = f.total
      /\ stream' = [stream EXCEPT ![s] = Finished(f)]
      /\ UNCHANGED store

\* onSuccess with a substitute of d pieces.
OnSuccess(s, d) ==
  LET f == stream[s]
      g == [f EXCEPT !.is_sending_request = FALSE, !.outstanding = FALSE,
                     !.headers = "substitute", !.offered = d,
                     !.downgrade_complete = f.headers_only_resp, !.pc = "encoding"]
  IN  /\ f.outstanding
      /\ f.source = "cache" => store # NoEntry /\ d = store.body
      /\ stream' = [stream EXCEPT ![s] =
           IF f.headers_only_resp THEN Finished([g EXCEPT !.substitute = d])
                                  ELSE [g EXCEPT !.buffered_rpx = d]]
      /\ UNCHANGED store

\* onFailure: the original continues.
OnFailure(s) ==
  LET f == stream[s]
      g == [f EXCEPT !.downgrade_suspend = TRUE, !.is_sending_request = FALSE,
                     !.outstanding = FALSE, !.pc = "encoding"]
  IN  /\ f.outstanding
      /\ stream' = [stream EXCEPT ![s] = EndIf(f.headers_only_resp, g)]
      /\ UNCHANGED store

\* A variant of OnDestroy that leaves the request under way.
OnDestroyUncancelled(s) ==
  /\ stream[s].pc # "done"
  /\ stream' = [stream EXCEPT ![s] = [Fresh EXCEPT !.outstanding = stream[s].outstanding]]
  /\ UNCHANGED store

\* onDestroy of a stream that did not end: a request under way is cancelled.
OnDestroy(s) ==
  /\ stream[s].pc # "done"
  /\ stream' = [stream EXCEPT ![s] = Fresh]
  /\ UNCHANGED store

Step(s) ==
  \/ \E source \in Sources, matches \in BOOLEAN : DecodeHeaders(s, source, matches)
  \/ DecodeData(s)
  \/ \E total \in Pieces, trailers \in BOOLEAN :
       \/ \E cacheable \in BOOLEAN : EncodeHeadersPass(s, total, trailers, cacheable)
       \/ \E sent \in {"oncall", "failed", "over"} :
            EncodeHeadersDowngrade(s, total, trailers, sent)
       \/ \E primary, specific \in StaticConfigs :
            EncodeHeadersStatic(s, total, trailers, primary, specific)
  \/ EncodeData(s) \/ EncodeTrailers(s)
  \/ \E d \in Pieces : OnSuccess(s, d)
  \/ OnFailure(s) \/ OnDestroy(s)

Next == \E s \in Streams : Step(s)

Spec == Init /\ [][Next]_vars

-----------------------------------------------------------------------------
Responses == {"none", "original", "substitute"}

Filters ==
  [pc : {"done", "decoding", "held", "encoding"}, source : Sources, should_downgrade : BOOLEAN,
   downgrade_complete : BOOLEAN, downgrade_suspend : BOOLEAN, should_cache_rpx : BOOLEAN,
   headers_only_resp : BOOLEAN, is_sending_request : BOOLEAN, local_request_over : BOOLEAN,
   buffered_rqx : 0 .. MaxRequest, buffered_rpx : Pieces, outstanding : BOOLEAN,
   got : 0 .. MaxRequest, asked : 0 .. MaxRequest, total : Pieces, trailers : BOOLEAN,
   seen : Pieces, headers : Responses, body : Pieces, substitute : Pieces, offered : Pieces,
   ended : BOOLEAN]

\* Filters and the cache keep their types.
TypeOK ==
  /\ stream \in [Streams -> Filters]
  /\ store \in [body : Pieces, total : Pieces, from : Responses]

\* The sender owes a callback exactly to the filters that hold a response: no
\* held response is forgotten, and none is resumed twice or after destruction.
CallbackOwedWhileHeld ==
  \A s \in Streams :
    LET f == stream[s]
    IN  /\ f.outstanding <=> f.pc = "held"
        /\ f.is_sending_request <=> f.pc = "held"

\* The client never receives headers of one response with a body of the other,
\* and a response that ended is whole: an original that passed, was collected or
\* was held in vain in any case, a substitute if no trailers ended it.
OneWholeResponse ==
  \A s \in Streams :
    LET f == stream[s]
    IN  /\ f.headers = "original" => f.substitute = 0
        /\ f.headers = "substitute" => f.body = 0
        /\ f.ended /\ f.headers = "original" => f.body = f.total
        /\ f.ended /\ f.headers = "substitute" /\ ~f.trailers => f.substitute = f.offered

\* The cache only ever holds whole original responses: neither a part of one
\* nor a substitute is stored to be offered as a substitute later.
StoredOriginals ==
  store # NoEntry => store.from = "original" /\ store.body = store.total

=============================================================================
