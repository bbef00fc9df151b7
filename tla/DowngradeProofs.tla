--------------------------- MODULE DowngradeProofs ---------------------------
(***************************************************************************)
(* Proofs about Downgrade, for any number of streams and any lengths of     *)
(* bodies: a held response is owed exactly one callback, the client never   *)
(* receives a mixture of two responses, and only whole originals are kept.  *)
(***************************************************************************)
EXTENDS Downgrade, TLAPS

\* The state of one filter, by what it is doing with the response.
Owed(f) == (f.outstanding <=> f.pc = "held") /\ (f.is_sending_request <=> f.pc = "held")
RequestKept(f) == f.buffered_rqx + f.asked <= f.got
Untouched(f) ==
  /\ f.body = 0 /\ f.seen = 0 /\ f.substitute = 0 /\ f.offered = 0 /\ f.buffered_rpx = 0
  /\ ~f.downgrade_complete /\ ~f.downgrade_suspend /\ ~f.should_cache_rpx /\ ~f.ended
Decoding(f) ==
  Untouched(f) /\ f.headers = "none" /\ f.asked = 0 /\ (f.source = "static" => ~f.should_downgrade)
Held(f) ==
  /\ Untouched(f) /\ f.headers = "original" /\ f.should_downgrade
  /\ f.headers_only_resp <=> f.total = 0 /\ ~f.trailers
Passing(f) ==
  /\ f.headers = "original" /\ ~Replaces(f) /\ f.body = f.seen /\ f.substitute = 0
  /\ Collects(f) => f.buffered_rpx = f.seen
Replacing(f) ==
  /\ f.headers = "substitute" /\ Replaces(f) /\ f.body = 0 /\ f.substitute = 0
  /\ f.buffered_rpx = f.offered
Encoding(f) == f.seen <= f.total /\ ~f.ended /\ (Passing(f) \/ Replacing(f))
Whole(f) ==
  /\ f.headers = "original" => f.substitute = 0
  /\ f.headers = "substitute" => f.body = 0
  /\ f.ended /\ f.headers = "original" => f.body = f.total
  /\ f.ended /\ f.headers = "substitute" /\ ~f.trailers => f.substitute = f.offered

Good(f) ==
  /\ Owed(f) /\ RequestKept(f) /\ Whole(f)
  /\ f.pc = "decoding" => Decoding(f)
  /\ f.pc = "held" => Held(f)
  /\ f.pc = "encoding" => Encoding(f)

IInv == TypeOK /\ (\A s \in Streams : Good(stream[s])) /\ StoredOriginals

USE BoundAssumption

\* A new filter is good.
LEMMA FreshGood == Fresh \in Filters /\ Good(Fresh)
  BY DEF Fresh, Filters, Good, Owed, RequestKept, Whole, Pieces, Sources, Fetching, Responses

\* A filter whose response has ended is done, and keeps what the client has.
LEMMA FinishedGood ==
  ASSUME NEW f \in Filters, Whole([f EXCEPT !.ended = TRUE])
  PROVE  Finished(f) \in Filters /\ Good(Finished(f))
  <1>1. Finished(f) \in Filters
    BY FreshGood DEF Finished, Filters
  <1>2. Owed(Finished(f)) /\ RequestKept(Finished(f)) /\ Finished(f).pc = "done"
    BY DEF Finished, Fresh, Owed, RequestKept
  <1>3. Whole(Finished(f))
    BY DEF Finished, Fresh, Whole, Filters
  <1> QED
    BY <1>1, <1>2, <1>3 DEF Good

\* So is one that has seen the request headers.
LEMMA DecodeHeadersGood ==
  ASSUME NEW source \in Sources, NEW matches \in BOOLEAN, source = "static" => ~matches,
         NEW f, f = [Fresh EXCEPT !.pc = "decoding", !.source = source, !.should_downgrade = matches]
  PROVE  f \in Filters /\ Good(f)
  <1>1. f \in Filters
    BY FreshGood DEF Filters
  <1>2. f.pc = "decoding" /\ Owed(f) /\ RequestKept(f) /\ Whole(f) /\ Decoding(f)
    BY DEF Fresh, Owed, RequestKept, Whole, Decoding, Untouched
  <1> QED
    BY <1>1, <1>2 DEF Good

\* So is one that has seen another piece of the request.
LEMMA DecodeDataGood ==
  ASSUME NEW f \in Filters, Good(f), f.got < MaxRequest, NEW n \in {f.buffered_rqx, f.buffered_rqx + 1},
         NEW g, g = [f EXCEPT !.got = f.got + 1, !.buffered_rqx = n]
  PROVE  g \in Filters /\ Good(g)
  <1>0. f.got + 1 \in 0 .. MaxRequest /\ n \in 0 .. MaxRequest
    BY DEF Filters, Good, RequestKept
  <1>1. g \in Filters
    BY <1>0 DEF Filters
  <1>2. RequestKept(g)
    BY DEF Filters, Good, RequestKept
  <1> QED
    BY <1>1, <1>2 DEF Filters, Good, Owed, Whole, Decoding, Held, Encoding, Passing, Replacing, Untouched, Collects, Replaces

-----------------------------------------------------------------------------
\* The response as it arrives at a filter that has seen the request.
LEMMA ArrivedFacts ==
  ASSUME NEW o \in Filters, Good(o), o.pc = "decoding", NEW total \in Pieces, NEW trailers \in BOOLEAN,
         NEW f, f = Arrived(o, total, trailers)
  PROVE  /\ f \in Filters /\ Untouched(f) /\ RequestKept(f) /\ f.asked = 0
         /\ f.pc = "encoding" /\ f.headers = "original" /\ f.total = total /\ f.trailers = trailers
         /\ ~f.outstanding /\ ~f.is_sending_request
         /\ f.source = o.source /\ f.should_downgrade = o.should_downgrade /\ f.buffered_rqx = o.buffered_rqx
  <1>1. f \in Filters
    BY DEF Arrived, Filters, Responses
  <1>2. Decoding(o) /\ RequestKept(o) /\ Owed(o)
    BY DEF Good
  <1>3. ~f.outstanding /\ ~f.is_sending_request
    BY <1>2 DEF Arrived, Filters, Owed
  <1> QED
    BY <1>1, <1>2, <1>3 DEF Arrived, Filters, Decoding, Untouched, RequestKept

\* A response that is not downgraded keeps the filter good.
LEMMA PassGood ==
  ASSUME NEW s \in Streams, TypeOK, Good(stream[s]), NEW total \in Pieces, NEW trailers \in BOOLEAN,
         NEW cacheable \in BOOLEAN, EncodeHeadersPass(s, total, trailers, cacheable), StoredOriginals
  PROVE  stream'[s] \in Filters /\ Good(stream'[s]) /\ store' \in [body : Pieces, total : Pieces, from : Responses]
         /\ StoredOriginals'
  <1> DEFINE end == total = 0 /\ ~trailers
             f == Arrived(stream[s], total, trailers)
             collect == f.should_downgrade /\ f.source = "cache" /\ cacheable
             g == [f EXCEPT !.should_downgrade = FALSE, !.should_cache_rpx = collect,
                            !.headers_only_resp = (collect /\ end)]
  <1>1. /\ f \in Filters /\ Untouched(f) /\ RequestKept(f) /\ f.pc = "encoding" /\ f.headers = "original"
        /\ f.total = total /\ f.trailers = trailers /\ ~f.outstanding /\ ~f.is_sending_request
    BY ArrivedFacts DEF EncodeHeadersPass, TypeOK
  <1>2. stream'[s] = EndIf(end, g)
    BY DEF EncodeHeadersPass, TypeOK
  <1> HIDE DEF f
  <1>3. collect \in BOOLEAN /\ end \in BOOLEAN
    BY <1>1 DEF Filters
  <1>4. end => f.total = 0
    BY <1>1
  <1> HIDE DEF collect, end
  <1>5. g \in Filters
    BY ZenonT(60), <1>1, <1>3 DEF Filters
  <1>6. /\ end => Whole([g EXCEPT !.ended = TRUE])
        /\ Owed(g) /\ RequestKept(g) /\ Whole(g) /\ g.pc = "encoding"
    BY <1>1, <1>4 DEF Owed, RequestKept, Whole, Filters, Untouched
  <1>8. Encoding(g)
    BY <1>1 DEF Encoding, Passing, Replaces, Collects, Filters, Untouched, Pieces
  <1> HIDE DEF g
  <1>9. stream'[s] \in Filters /\ Good(stream'[s])
    BY <1>2, <1>5, <1>6, <1>8, FinishedGood DEF EndIf, Good
  <1>7. store' \in [body : Pieces, total : Pieces, from : Responses] /\ StoredOriginals'
    <2>1. CASE collect /\ end
      <3>1. store' = [body |-> 0, total |-> 0, from |-> "original"]
        BY <1>1, <2>1 DEF EncodeHeadersPass, Insert, f, collect, end
      <3> QED
        BY <3>1 DEF StoredOriginals, Pieces, Responses
    <2>2. CASE ~(collect /\ end)
      <3>1. store' = store
        BY <2>2 DEF EncodeHeadersPass, f, collect, end
      <3> QED
        BY <3>1 DEF StoredOriginals, TypeOK
    <2> QED
      BY <2>1, <2>2
  <1> QED
    BY <1>7, <1>9

\* So does one that makes the filter ask for a substitute.
LEMMA DowngradeGood ==
  ASSUME NEW s \in Streams, TypeOK, Good(stream[s]), NEW total \in Pieces, NEW trailers \in BOOLEAN,
         NEW sent \in {"oncall", "failed", "over"}, EncodeHeadersDowngrade(s, total, trailers, sent)
  PROVE  stream'[s] \in Filters /\ Good(stream'[s])
  <1> DEFINE end == total = 0 /\ ~trailers
             over == sent = "over"
             f == Arrived(stream[s], total, trailers)
             g == [f EXCEPT !.headers_only_resp = end, !.asked = f.buffered_rqx, !.buffered_rqx = 0,
                            !.local_request_over = over]
             held == [g EXCEPT !.pc = "held", !.is_sending_request = TRUE, !.outstanding = TRUE]
             suspended == [g EXCEPT !.downgrade_suspend = TRUE]
  <1>1. /\ f \in Filters /\ Untouched(f) /\ RequestKept(f) /\ f.asked = 0
        /\ f.pc = "encoding" /\ f.headers = "original" /\ f.total = total /\ f.trailers = trailers
        /\ ~f.outstanding /\ ~f.is_sending_request
    BY ArrivedFacts DEF EncodeHeadersDowngrade, TypeOK
  <1>2. f.should_downgrade /\ stream'[s] = IF sent = "oncall" THEN held ELSE EndIf(end, suspended)
    BY DEF EncodeHeadersDowngrade, TypeOK
  <1> HIDE DEF f
  <1>3. end \in BOOLEAN /\ (end <=> f.total = 0 /\ ~f.trailers) /\ over \in BOOLEAN
    BY <1>1
  <1> HIDE DEF end, over
  <1>4. g \in Filters
    <2>1. 0 \in 0 .. MaxRequest /\ f.buffered_rqx \in 0 .. MaxRequest
      BY <1>1 DEF Filters
    <2> DEFINE a == [f EXCEPT !.headers_only_resp = end, !.local_request_over = over]
               b == [a EXCEPT !.asked = f.buffered_rqx, !.buffered_rqx = 0]
    <2>2. a \in Filters
      <3>1. f \in Filters /\ end \in BOOLEAN /\ over \in BOOLEAN
        BY <1>1, <1>3
      <3>2. [f EXCEPT !.headers_only_resp = end] \in Filters
        BY <3>1 DEF Filters
      <3>3. a = [[f EXCEPT !.headers_only_resp = end] EXCEPT !.local_request_over = over]
        BY <3>1 DEF Filters
      <3> DEFINE c == [f EXCEPT !.headers_only_resp = end]
      <3>4. c \in Filters
        BY <3>2
      <3> HIDE DEF c
      <3>5. [c EXCEPT !.local_request_over = over] \in Filters
        BY <3>1, <3>4 DEF Filters
      <3> QED
        BY <3>3, <3>5 DEF c
    <2>3. g = b
      BY <1>1 DEF Filters
    <2> HIDE DEF a
    <2>4. b \in Filters
      BY <2>1, <2>2 DEF Filters
    <2> HIDE DEF b, g
    <2> QED
      BY <2>3, <2>4
  <1>5. held \in Filters /\ suspended \in Filters
    <2> HIDE DEF g
    <2> QED
      BY <1>4 DEF Filters
  <1>6. Owed(held) /\ RequestKept(held) /\ Whole(held) /\ held.pc = "held"
    BY <1>1 DEF Owed, RequestKept, Whole, Filters, Untouched
  <1>7. Held(held)
    BY <1>1, <1>2, <1>3 DEF Held, Filters, Untouched
  <1>8. /\ end => Whole([suspended EXCEPT !.ended = TRUE])
        /\ Owed(suspended) /\ RequestKept(suspended) /\ Whole(suspended) /\ suspended.pc = "encoding"
    BY <1>1, <1>3 DEF Owed, RequestKept, Whole, Filters, Untouched
  <1>9. Encoding(suspended)
    BY <1>1 DEF Encoding, Passing, Replaces, Collects, Filters, Untouched, Pieces
  <1> HIDE DEF held, suspended
  <1> QED
    BY <1>2, <1>5, <1>6, <1>7, <1>8, <1>9, FinishedGood DEF EndIf, Good

\* So does one that a static substitute replaces.
LEMMA StaticGood ==
  ASSUME NEW s \in Streams, TypeOK, Good(stream[s]), NEW total \in Pieces, NEW trailers \in BOOLEAN,
         NEW primary \in StaticConfigs, NEW specific \in StaticConfigs,
         EncodeHeadersStatic(s, total, trailers, primary, specific)
  PROVE  stream'[s] \in Filters /\ Good(stream'[s])
  <1> DEFINE end == total = 0 /\ ~trailers
             f == Arrived(stream[s], total, trailers)
             d == StaticBody(DowngradeConfig(primary, specific))
             g == [f EXCEPT !.should_downgrade = TRUE, !.headers = "substitute", !.offered = d,
                            !.downgrade_complete = end]
             replaced == [g EXCEPT !.substitute = d]
             replacing == [g EXCEPT !.buffered_rpx = d]
  <1>1. /\ f \in Filters /\ Untouched(f) /\ RequestKept(f)
        /\ f.pc = "encoding" /\ f.headers = "original" /\ f.total = total /\ f.trailers = trailers
        /\ ~f.outstanding /\ ~f.is_sending_request
    BY ArrivedFacts DEF EncodeHeadersStatic, TypeOK
  <1>2. stream'[s] = IF ~primary.matches /\ ~specific.matches THEN EndIf(end, f)
                     ELSE IF end THEN Finished(replaced) ELSE replacing
    BY DEF EncodeHeadersStatic, TypeOK
  <1>3. d \in Pieces
    BY DEF StaticBody, DowngradeConfig, StaticConfigs, Pieces
  <1>4. ~f.should_downgrade
    <2>1. stream[s] \in Filters /\ f.source = "static"
      BY DEF EncodeHeadersStatic, TypeOK
    <2>2. f.should_downgrade = stream[s].should_downgrade /\ f.source = stream[s].source
      BY <2>1 DEF Arrived, Filters
    <2> QED
      BY <2>1, <2>2 DEF EncodeHeadersStatic, Good, Decoding
  <1> HIDE DEF f, d
  <1>5. end \in BOOLEAN /\ (end <=> f.total = 0 /\ ~f.trailers)
    BY <1>1
  <1> HIDE DEF end
  <1>6. replaced \in Filters /\ replacing \in Filters
    BY <1>1, <1>3, <1>5 DEF Filters, Responses
  <1>7. /\ end => Whole([f EXCEPT !.ended = TRUE])
        /\ Owed(f) /\ Whole(f)
    BY <1>1, <1>5 DEF Owed, Whole, Filters, Untouched
  <1>8. Encoding(f)
    BY <1>1, <1>4 DEF Encoding, Passing, Replaces, Collects, Filters, Untouched, Pieces
  <1>9. end => Whole([replaced EXCEPT !.ended = TRUE])
    BY <1>1, <1>3 DEF Whole, Filters, Untouched
  <1>10. Owed(replacing) /\ RequestKept(replacing) /\ Whole(replacing) /\ replacing.pc = "encoding"
    BY <1>1 DEF Owed, RequestKept, Whole, Filters, Untouched
  <1>11. ~end => Encoding(replacing)
    BY <1>1, <1>3, <1>5 DEF Encoding, Replacing, Replaces, Filters, Untouched, Pieces
  <1> HIDE DEF replaced, replacing
  <1> QED
    BY <1>1, <1>2, <1>6, <1>7, <1>8, <1>9, <1>10, <1>11, FinishedGood DEF EndIf, Good

\* A piece of response keeps the filter good and stores only originals.
LEMMA DataGood ==
  ASSUME NEW s \in Streams, TypeOK, Good(stream[s]), StoredOriginals, EncodeData(s)
  PROVE  /\ stream'[s] \in Filters /\ Good(stream'[s])
         /\ store' \in [body : Pieces, total : Pieces, from : Responses] /\ StoredOriginals'
  <1> DEFINE f == stream[s]
             end == f.seen + 1 = f.total /\ ~f.trailers
             drained == [f EXCEPT !.seen = f.seen + 1]
             replaced == [drained EXCEPT !.substitute = f.buffered_rpx, !.downgrade_complete = TRUE]
             kept == IF Collects(f) THEN f.buffered_rpx + 1 ELSE f.buffered_rpx
             passed == [drained EXCEPT !.body = f.body + 1, !.buffered_rpx = kept]
  <1>1. f \in Filters /\ f.pc = "encoding" /\ f.seen < f.total /\ Good(f)
    BY DEF EncodeData, TypeOK
  <1>2. /\ stream'[s] = EndIf(end, IF Replaces(f) THEN IF end THEN replaced ELSE drained ELSE passed)
        /\ store' = IF Collects(f) /\ end
                      THEN [body |-> f.buffered_rpx + 1, total |-> f.total, from |-> f.headers]
                      ELSE store
    BY DEF EncodeData, AfterData, Insert, TypeOK
  <1> HIDE DEF f
  <1>3. Encoding(f) /\ Owed(f) /\ RequestKept(f) /\ Whole(f)
    BY <1>1 DEF Good
  <1>4. f.seen \in Pieces /\ f.total \in Pieces /\ f.seen + 1 \in Pieces
    BY <1>1 DEF Filters, Pieces
  <1>5. CASE Replaces(f)
    <2>1. Replacing(f)
      BY <1>3, <1>5 DEF Encoding, Passing
    <2>2. drained \in Filters /\ replaced \in Filters
      BY <1>1, <1>4 DEF Filters
    <2>3. Whole([replaced EXCEPT !.ended = TRUE])
      BY <1>1, <2>1 DEF Whole, Replacing, Filters
    <2>4. /\ Owed(drained) /\ RequestKept(drained) /\ Whole(drained) /\ drained.pc = "encoding"
          /\ Encoding(drained)
      BY <1>1, <1>3, <1>4, <2>1
         DEF Owed, RequestKept, Whole, Encoding, Replacing, Replaces, Filters, Pieces
    <2>5. ~Collects(f)
      BY <1>5 DEF Replaces, Collects
    <2> HIDE DEF drained, replaced, passed, end
    <2> QED
      BY <1>2, <1>5, <2>2, <2>3, <2>4, <2>5, FinishedGood DEF EndIf, Good, StoredOriginals, TypeOK
  <1>6. CASE ~Replaces(f)
    <2>1. Passing(f)
      BY <1>3, <1>6 DEF Encoding, Replacing
    <2>2. f.body + 1 \in Pieces /\ kept \in Pieces
      BY <1>1, <1>4, <2>1 DEF Passing, Filters
    <2>3. passed \in Filters
      <3> HIDE DEF kept
      <3> QED
        BY <1>1, <1>4, <2>2 DEF Filters
    <2>4. end => Whole([passed EXCEPT !.ended = TRUE])
      BY <1>1, <1>4, <2>1 DEF Whole, Passing, Filters
    <2>5. Owed(passed) /\ RequestKept(passed) /\ Whole(passed) /\ passed.pc = "encoding"
      BY <1>1, <1>3, <2>1 DEF Owed, RequestKept, Whole, Passing, Encoding, Filters
    <2>6. Encoding(passed)
      <3>1. ~Replaces(passed) /\ (Collects(passed) <=> Collects(f))
        BY <1>1, <1>6 DEF Replaces, Collects, Filters
      <3>2. /\ passed.headers = f.headers /\ passed.body = f.body + 1 /\ passed.seen = f.seen + 1
            /\ passed.substitute = f.substitute /\ passed.buffered_rpx = kept
            /\ passed.total = f.total /\ passed.ended = f.ended
        BY <1>1 DEF Filters
      <3> HIDE DEF passed
      <3> QED
        BY <1>1, <1>3, <1>4, <2>1, <3>1, <3>2 DEF Encoding, Passing, Pieces
    <2>7. CASE Collects(f) /\ end
      <3>1. f.buffered_rpx + 1 = f.total /\ f.headers = "original"
        BY <2>1, <2>7 DEF Passing
      <3>2. store' = [body |-> f.total, total |-> f.total, from |-> "original"]
        BY <1>2, <2>7, <3>1
      <3> HIDE DEF passed, drained, replaced, end
      <3> QED
        BY <1>2, <1>4, <1>6, <2>3, <2>4, <2>5, <2>6, <3>2, FinishedGood
           DEF EndIf, Good, StoredOriginals, Responses
    <2>8. CASE ~(Collects(f) /\ end)
      <3>1. store' = store
        BY <1>2, <2>8
      <3> HIDE DEF passed, drained, replaced, end
      <3> QED
        BY <1>2, <1>6, <2>3, <2>4, <2>5, <2>6, <3>1, FinishedGood
           DEF EndIf, Good, StoredOriginals, TypeOK
    <2> QED
      BY <2>7, <2>8
  <1> QED
    BY <1>5, <1>6

\* Trailers keep the filter good.
LEMMA TrailersGood ==
  ASSUME NEW s \in Streams, TypeOK, Good(stream[s]), EncodeTrailers(s)
  PROVE  stream'[s] \in Filters /\ Good(stream'[s])
  <1> DEFINE f == stream[s]
  <1>1. f \in Filters /\ Encoding(f) /\ f.trailers /\ f.seen = f.total /\ stream'[s] = Finished(f)
    BY DEF EncodeTrailers, TypeOK, Good
  <1> HIDE DEF f
  <1>2. Whole([f EXCEPT !.ended = TRUE])
    BY <1>1 DEF Whole, Encoding, Passing, Replacing, Filters
  <1> QED
    BY <1>1, <1>2, FinishedGood

\* The answer of the substitute keeps the filter good.
LEMMA SuccessGood ==
  ASSUME NEW s \in Streams, TypeOK, Good(stream[s]), NEW n \in Pieces, OnSuccess(s, n)
  PROVE  stream'[s] \in Filters /\ Good(stream'[s])
  <1> DEFINE f == stream[s]
             g == [f EXCEPT !.is_sending_request = FALSE, !.outstanding = FALSE,
                            !.headers = "substitute", !.offered = n,
                            !.downgrade_complete = f.headers_only_resp, !.pc = "encoding"]
             replaced == [g EXCEPT !.substitute = n]
             replacing == [g EXCEPT !.buffered_rpx = n]
  <1>1. /\ f \in Filters /\ Held(f) /\ RequestKept(f)
        /\ stream'[s] = IF f.headers_only_resp THEN Finished(replaced) ELSE replacing
    BY DEF OnSuccess, TypeOK, Good, Owed
  <1> HIDE DEF f
  <1>2. g \in Filters
    BY <1>1 DEF Filters, Responses
  <1>3. replaced \in Filters /\ replacing \in Filters
    <2> HIDE DEF g
    <2> QED
      BY <1>2 DEF Filters
  <1>4. Whole([replaced EXCEPT !.ended = TRUE])
    BY <1>1 DEF Whole, Held, Untouched, Filters
  <1>5. Owed(replacing) /\ RequestKept(replacing) /\ Whole(replacing) /\ replacing.pc = "encoding"
    BY <1>1 DEF Owed, RequestKept, Whole, Held, Untouched, Filters
  <1>6. ~f.headers_only_resp => Encoding(replacing)
    BY <1>1 DEF Encoding, Replacing, Replaces, Held, Untouched, Filters, Pieces
  <1> HIDE DEF replaced, replacing
  <1> QED
    BY <1>1, <1>3, <1>4, <1>5, <1>6, FinishedGood DEF Good

\* So does its failure.
LEMMA FailureGood ==
  ASSUME NEW s \in Streams, TypeOK, Good(stream[s]), OnFailure(s)
  PROVE  stream'[s] \in Filters /\ Good(stream'[s])
  <1> DEFINE f == stream[s]
             g == [f EXCEPT !.downgrade_suspend = TRUE, !.is_sending_request = FALSE,
                            !.outstanding = FALSE, !.pc = "encoding"]
  <1>1. /\ f \in Filters /\ Held(f) /\ RequestKept(f)
        /\ stream'[s] = EndIf(f.headers_only_resp, g)
    BY DEF OnFailure, TypeOK, Good, Owed
  <1> HIDE DEF f
  <1>2. g \in Filters
    BY <1>1 DEF Filters
  <1>3. f.headers_only_resp => Whole([g EXCEPT !.ended = TRUE])
    BY <1>1 DEF Whole, Held, Untouched, Filters
  <1>4. Owed(g) /\ RequestKept(g) /\ Whole(g) /\ g.pc = "encoding"
    BY <1>1 DEF Owed, RequestKept, Whole, Held, Untouched, Filters
  <1>5. Encoding(g)
    BY <1>1 DEF Encoding, Passing, Replaces, Collects, Held, Untouched, Filters, Pieces
  <1> HIDE DEF g
  <1> QED
    BY <1>1, <1>2, <1>3, <1>4, <1>5, FinishedGood DEF EndIf, Good

-----------------------------------------------------------------------------
\* A step of one stream leaves the other filters as they are.
LEMMA Frame ==
  ASSUME TypeOK, NEW s \in Streams, Step(s)
  PROVE  /\ DOMAIN stream' = Streams /\ stream' = [t \in Streams |-> stream'[t]]
         /\ \A t \in Streams : t # s => stream'[t] = stream[t]
  <1>1. \/ \E f : stream' = [stream EXCEPT ![s] = f]
        \/ \E m, n : stream' = [stream EXCEPT ![s].got = m, ![s].buffered_rqx = n]
    <2>1. DecodeData(s) => \E m, n : stream' = [stream EXCEPT ![s].got = m, ![s].buffered_rqx = n]
      BY DEF DecodeData
    <2>2. EncodeData(s) \/ EncodeTrailers(s) \/ OnFailure(s) \/ OnDestroy(s)
            => \E f : stream' = [stream EXCEPT ![s] = f]
      BY DEF EncodeData, EncodeTrailers, OnFailure, OnDestroy
    <2>3. \A source \in Sources, matches \in BOOLEAN :
            DecodeHeaders(s, source, matches) => \E f : stream' = [stream EXCEPT ![s] = f]
      BY DEF DecodeHeaders
    <2>4. \A total \in Pieces, trailers \in BOOLEAN, cacheable \in BOOLEAN :
            EncodeHeadersPass(s, total, trailers, cacheable) => \E f : stream' = [stream EXCEPT ![s] = f]
      <3> SUFFICES ASSUME NEW total \in Pieces, NEW trailers \in BOOLEAN, NEW cacheable \in BOOLEAN,
                          EncodeHeadersPass(s, total, trailers, cacheable)
                   PROVE  \E f : stream' = [stream EXCEPT ![s] = f]
        OBVIOUS
      <3> DEFINE f == Arrived(stream[s], total, trailers)
                 end == total = 0 /\ ~trailers
                 collect == f.should_downgrade /\ f.source = "cache" /\ cacheable
                 g == [f EXCEPT !.should_downgrade = FALSE, !.should_cache_rpx = collect,
                                !.headers_only_resp = (collect /\ end)]
      <3>1. stream' = [stream EXCEPT ![s] = EndIf(end, g)]
        BY DEF EncodeHeadersPass
      <3> HIDE DEF end, g
      <3> QED
        BY <3>1
    <2>5. \A total \in Pieces, trailers \in BOOLEAN, sent \in {"oncall", "failed", "over"} :
            EncodeHeadersDowngrade(s, total, trailers, sent) => \E f : stream' = [stream EXCEPT ![s] = f]
      BY DEF EncodeHeadersDowngrade
    <2>6. \A total \in Pieces, trailers \in BOOLEAN, primary, specific \in StaticConfigs :
            EncodeHeadersStatic(s, total, trailers, primary, specific)
              => \E f : stream' = [stream EXCEPT ![s] = f]
      BY ZenonT(60) DEF EncodeHeadersStatic
    <2>7. \A n \in Pieces : OnSuccess(s, n) => \E f : stream' = [stream EXCEPT ![s] = f]
      BY DEF OnSuccess
    <2> QED
      BY <2>1, <2>2, <2>3, <2>4, <2>5, <2>6, <2>7 DEF Step
  <1> QED
    BY <1>1 DEF TypeOK

\* Every step of a stream keeps its filter good and the store sound.
LEMMA StepGood ==
  ASSUME IInv, NEW s \in Streams, Step(s)
  PROVE  /\ stream'[s] \in Filters /\ Good(stream'[s])
         /\ store' \in [body : Pieces, total : Pieces, from : Responses] /\ StoredOriginals'
  <1> DEFINE Kept == store' \in [body : Pieces, total : Pieces, from : Responses] /\ StoredOriginals'
  <1>0. TypeOK /\ Good(stream[s]) /\ StoredOriginals /\ stream[s] \in Filters
    BY DEF IInv, TypeOK
  <1>1. store' = store => Kept
    BY <1>0 DEF TypeOK, StoredOriginals
  <1> SUFFICES stream'[s] \in Filters /\ Good(stream'[s]) /\ Kept
    OBVIOUS
  <1> HIDE DEF Kept
  <1>2. ASSUME NEW source \in Sources, NEW matches \in BOOLEAN, DecodeHeaders(s, source, matches)
        PROVE  stream'[s] \in Filters /\ Good(stream'[s]) /\ Kept
    <2>1. /\ stream'[s] = [Fresh EXCEPT !.pc = "decoding", !.source = source, !.should_downgrade = matches]
          /\ source = "static" => ~matches
          /\ store' = store
      BY SMTT(60), <1>0, <1>2 DEF DecodeHeaders, TypeOK
    <2> QED
      BY <1>1, <2>1, DecodeHeadersGood
  <1>3. CASE DecodeData(s)
    <2> DEFINE n == IF stream[s].should_downgrade /\ stream[s].source \in Fetching \ {"cache"}
                      THEN stream[s].buffered_rqx + 1 ELSE stream[s].buffered_rqx
    <2>1. /\ stream'[s] = [stream[s] EXCEPT !.got = stream[s].got + 1, !.buffered_rqx = n]
          /\ stream[s].got < MaxRequest /\ store' = store
      BY <1>0, <1>3 DEF DecodeData, TypeOK, Filters
    <2>2. n \in {stream[s].buffered_rqx, stream[s].buffered_rqx + 1}
      OBVIOUS
    <2> HIDE DEF n
    <2> QED
      BY <1>0, <1>1, <2>1, <2>2, DecodeDataGood
  <1>4. ASSUME NEW total \in Pieces, NEW trailers \in BOOLEAN, NEW cacheable \in BOOLEAN,
               EncodeHeadersPass(s, total, trailers, cacheable)
        PROVE  stream'[s] \in Filters /\ Good(stream'[s]) /\ Kept
    BY <1>0, <1>4, PassGood DEF Kept
  <1>5. ASSUME NEW total \in Pieces, NEW trailers \in BOOLEAN, NEW sent \in {"oncall", "failed", "over"},
               EncodeHeadersDowngrade(s, total, trailers, sent)
        PROVE  stream'[s] \in Filters /\ Good(stream'[s]) /\ Kept
    <2>1. store' = store
      BY <1>5 DEF EncodeHeadersDowngrade
    <2> QED
      BY <1>0, <1>1, <1>5, <2>1, DowngradeGood
  <1>6. ASSUME NEW total \in Pieces, NEW trailers \in BOOLEAN,
               NEW primary \in StaticConfigs, NEW specific \in StaticConfigs,
               EncodeHeadersStatic(s, total, trailers, primary, specific)
        PROVE  stream'[s] \in Filters /\ Good(stream'[s]) /\ Kept
    <2>1. store' = store
      BY <1>6 DEF EncodeHeadersStatic
    <2> QED
      BY <1>0, <1>1, <1>6, <2>1, StaticGood
  <1>7. CASE EncodeData(s)
    BY <1>0, <1>7, DataGood DEF Kept
  <1>8. CASE EncodeTrailers(s)
    <2>1. store' = store
      BY <1>8 DEF EncodeTrailers
    <2> QED
      BY <1>0, <1>1, <1>8, <2>1, TrailersGood
  <1>9. ASSUME NEW n \in Pieces, OnSuccess(s, n)
        PROVE  stream'[s] \in Filters /\ Good(stream'[s]) /\ Kept
    <2>1. store' = store
      BY <1>9 DEF OnSuccess
    <2> QED
      BY <1>0, <1>1, <1>9, <2>1, SuccessGood
  <1>10. CASE OnFailure(s)
    <2>1. store' = store
      BY <1>10 DEF OnFailure
    <2> QED
      BY <1>0, <1>1, <1>10, <2>1, FailureGood
  <1>11. CASE OnDestroy(s)
    <2>1. stream'[s] = Fresh /\ store' = store
      BY <1>0, <1>11 DEF OnDestroy, TypeOK
    <2> QED
      BY <1>1, <2>1, FreshGood
  <1> QED
    BY <1>2, <1>3, <1>4, <1>5, <1>6, <1>7, <1>8, <1>9, <1>10, <1>11 DEF Step

\* Every filter is in a state its place in the exchange allows, and the cache holds
\* whole originals; what encodeHeaders, encodeData, the callbacks of sendRequest and
\* onDestroy do to a filter keeps it so.
THEOREM DowngradeInvariant == Spec => []IInv
  <1>1. Init => IInv
    BY FreshGood DEF Init, IInv, TypeOK, StoredOriginals, NoEntry, Pieces, Responses
  <1>2. IInv /\ [Next]_vars => IInv'
    <2> SUFFICES ASSUME IInv, [Next]_vars PROVE IInv'
      OBVIOUS
    <2>1. CASE UNCHANGED vars
      <3>1. TypeOK' /\ StoredOriginals' /\ stream' = stream
        BY <2>1 DEF vars, IInv, TypeOK, StoredOriginals
      <3> QED
        BY <3>1 DEF IInv
    <2>2. ASSUME NEW s \in Streams, Step(s) PROVE IInv'
      <3>1. /\ stream'[s] \in Filters /\ Good(stream'[s])
            /\ store' \in [body : Pieces, total : Pieces, from : Responses] /\ StoredOriginals'
        BY <2>2, StepGood
      <3>2. /\ stream' = [t \in Streams |-> stream'[t]]
            /\ \A t \in Streams : t # s => stream'[t] = stream[t]
        BY <2>2, Frame DEF IInv
      <3>3. \A t \in Streams : stream'[t] \in Filters /\ Good(stream'[t])
        BY <3>1, <3>2 DEF IInv, TypeOK
      <3>4. stream' \in [Streams -> Filters]
        BY <3>2, <3>3
      <3> QED
        BY <3>1, <3>3, <3>4 DEF IInv, TypeOK
    <2> QED
      BY <2>1, <2>2 DEF Next
  <1> QED
    BY <1>1, <1>2, PTL DEF Spec

\* Filters and the cache keep their types.
THEOREM TypeCorrect == Spec => []TypeOK
  <1>1. IInv => TypeOK
    BY DEF IInv
  <1> QED
    BY <1>1, DowngradeInvariant, PTL

\* sendRequest owes its callback to exactly the filters that hold a response, however
\* requests are answered, refused, or cancelled by onDestroy.
THEOREM HeldAreOwed == Spec => []CallbackOwedWhileHeld
  <1>1. IInv => CallbackOwedWhileHeld
    BY DEF IInv, Good, Owed, CallbackOwedWhileHeld
  <1> QED
    BY <1>1, DowngradeInvariant, PTL

\* Whatever the lengths of the original and of the substitute, encodeHeaders and
\* encodeData never mix them and never cut one short.
THEOREM ResponsesWhole == Spec => []OneWholeResponse
  <1>1. IInv => OneWholeResponse
    BY DEF IInv, Good, Whole, OneWholeResponse
  <1> QED
    BY <1>1, DowngradeInvariant, PTL

\* insertResponse only ever gets a complete original response.
THEOREM OriginalsStored == Spec => []StoredOriginals
  <1>1. IInv => StoredOriginals
    BY DEF IInv
  <1> QED
    BY <1>1, DowngradeInvariant, PTL

=============================================================================
