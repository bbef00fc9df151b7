-------------------------------- MODULE Waf ---------------------------------
(***************************************************************************)
(* The waf filter on one stream: the listener's and the route's ModSecurity *)
(* transactions see the request and the response phase by phase, and an     *)
(* intervention replaces the exchange by the filter's own reply.            *)
(*                                                                         *)
(* A rule engine is none (no rules: no transaction), detect or on; whether  *)
(* a rule of an engine that is on intervenes is a choice.  A body is a      *)
(* sequence of pieces of one slice each, and a transaction takes as many of *)
(* them as its limit allows.  The filter manager that holds, buffers and    *)
(* releases what the callbacks tell it to is external.                      *)
(***************************************************************************)
EXTENDS Integers, Sequences, SequencesExt

CONSTANTS
  MaxPieces,  \* bound: pieces of a body
  BodyLimit   \* pieces each transaction accepts

Who == {"listener", "route"}
Engines == {"none", "detect", "on"}

ASSUME PiecesAssumption == MaxPieces \in Nat
ASSUME LimitAssumption == BodyLimit \in [Who -> Nat]

VARIABLES
  conf,   \* the rule engine of the listener and of the route
  tx,     \* modsec_transaction_, modsec_transaction_route_: the engine of each
  flags,  \* the filter's members
  len,    \* the pieces each transaction has of the request and of the response
  req,    \* the request on its way through the filter
  resp,   \* the response on its way through the filter
  calls   \* history: the phases each transaction has processed

vars == <<conf, tx, flags, len, req, resp, calls>>

\* A message the filter has not seen: head is the status its headers carry,
\* buf what the filter manager buffers, out what it has passed on.
NoMessage ==
  [pc |-> "idle", head |-> "original", held |-> FALSE, buf |-> <<>>, out |-> <<>>,
   pieces |-> 0, end |-> "none", own |-> FALSE, local |-> FALSE]

Init ==
  /\ conf \in [Who -> Engines]
  /\ tx = [listener |-> conf["listener"], route |-> "none"]
  /\ flags = [intervined |-> FALSE, request_processed |-> FALSE, response_processed |-> FALSE,
              end_stream |-> FALSE, is_send_local_reply |-> FALSE, status |-> "none"]
  /\ len = [request |-> [w \in Who |-> 0], response |-> [w \in Who |-> 0]]
  /\ req = NoMessage
  /\ resp = NoMessage
  /\ calls = <<>>

-----------------------------------------------------------------------------
\* The phases a handler runs, the listener's transaction first, and the part of
\* them that runs when the k-th one intervenes (0: none does).
Phases(t, names) ==
  FlattenSeq([i \in DOMAIN names |->
    SelectSeq(<<<<"listener", names[i]>>, <<"route", names[i]>>>>,
              LAMBDA c : t[c[1]] # "none")])

Intervening(t, cs) == {0} \cup {k \in DOMAIN cs : t[cs[k][1]] = "on"}
Run(cs, k) == IF k = 0 THEN cs ELSE SubSeq(cs, 1, k)

NoTransaction(t) == \A w \in Who : t[w] = "none"

\* enabledRuleEngine: the route's engine state overrides the listener's.
EnabledRuleEngine(t) == IF t["route"] # "none" THEN t["route"] = "on" ELSE t["listener"] = "on"

\* A variant of Intervene that leaves intervined_ as it was.
InterveneUnset(f, c) == [f EXCEPT !.status = c[2]]

\* intervention and interventionRoute, of the phase c that intervened.
Intervene(f, c) == [f EXCEPT !.intervined = TRUE, !.status = c[2]]

\* A variant of RequestStatus that lets the data flow while it is inspected.
RequestStatusFlows(f, t, stopped) == IF f.intervined THEN stopped ELSE "continue"

\* A variant of RequestStatus that holds what has been processed.
RequestStatusHolds(f, t, stopped) ==
  IF f.intervined THEN stopped ELSE IF EnabledRuleEngine(t) THEN "hold" ELSE "continue"

\* getRequestHeadersStatus and getRequestStatus.
RequestStatus(f, t, stopped) ==
  IF f.intervined THEN stopped
  ELSE IF f.request_processed \/ ~EnabledRuleEngine(t) THEN "continue" ELSE "hold"

\* getResponseHeadersStatus and getResponseStatus.
ResponseStatus(f, t) ==
  IF f.intervined \/ f.response_processed \/ ~EnabledRuleEngine(t) THEN "continue" ELSE "hold"

-----------------------------------------------------------------------------
\* The filter manager: what becomes of headers, of data and of trailers.
AfterHeaders(m, status) ==
  IF status = "continue" THEN [m EXCEPT !.out = <<m.head>>] ELSE [m EXCEPT !.held = TRUE]

Released(m, data) ==
  [m EXCEPT !.held = FALSE, !.buf = IF m.held THEN <<>> ELSE m.buf,
            !.out = IF m.held THEN m.out \o <<m.head>> \o m.buf \o data ELSE m.out \o data]

AfterData(m, status, data) ==
  CASE status = "continue" -> Released(m, data)
    [] status = "hold" -> [m EXCEPT !.buf = @ \o data]
    [] status = "drop" -> m

\* One piece is received; end says what its frame ends with.
Piece(m, end) ==
  [m EXCEPT !.pieces = @ + 1, !.end = end, !.pc = IF end = "data" THEN "end" ELSE "body"]

\* Appending a piece stops at the first transaction that is full.
Full(t, l, w) == t[w] # "none" /\ l[w] = BodyLimit[w]
Take(t, l, w) == IF t[w] # "none" THEN [l EXCEPT ![w] = @ + 1] ELSE l
LimitReached(t, l) == \E w \in Who : Full(t, l, w)
AppendPiece(t, l) ==
  IF Full(t, l, "listener") THEN l
  ELSE LET l1 == Take(t, l, "listener")
       IN  IF Full(t, l, "route") THEN l1 ELSE Take(t, l1, "route")

-----------------------------------------------------------------------------
\* sendLocalReply: the reply goes through the filter chain, unless a response
\* is on its way already, in which case the stream is reset.
SendLocalReply ==
  resp' = IF resp.pc = "idle" THEN [resp EXCEPT !.pc = "reply", !.own = TRUE]
                              ELSE [resp EXCEPT !.pc = "reset"]

\* The stream still takes request data: no local reply, nor a whole response.
Decoding ==
  /\ resp.pc \notin {"reply", "reset", "destroyed", "end"}
  /\ resp.pc = "idle" \/ ~resp.local

\* decodeHeaders: the connection, the URI and the headers, for both
\* transactions; k is the phase that intervenes.
DecodeHeaders(end, k) ==
  LET t == [tx EXCEPT !["route"] = conf["route"]]
      cs == Phases(t, <<"connection", "uri", "request_headers">>)
      reached == k = 0 \/ cs[k][2] = "request_headers"
      f == [flags EXCEPT !.request_processed = end /\ reached /\ ~NoTransaction(t)]
      g == IF k > 0 THEN [Intervene(f, cs[k]) EXCEPT !.is_send_local_reply = TRUE] ELSE f
      m == [req EXCEPT !.pc = IF end THEN "end" ELSE "body", !.end = IF end THEN "headers" ELSE "none"]
  IN  /\ req.pc = "idle"
      /\ Decoding
      /\ k \in Intervening(t, cs)
      /\ tx' = t
      /\ calls' = calls \o Run(cs, k)
      /\ flags' = g
      /\ req' = AfterHeaders(m, RequestStatus(g, t, "hold"))
      /\ IF k > 0 THEN SendLocalReply ELSE UNCHANGED resp
      /\ UNCHANGED <<conf, len>>

\* A variant of RequestSettled that forgets request_processed_.
RequestSettledUnlessDone(f, t) == NoTransaction(t) \/ f.intervined

\* decodeData leaves the request alone: it returns the status at once.
RequestSettled(f, t) == NoTransaction(t) \/ f.intervined \/ f.request_processed

\* decodeData: the body phase runs when the body ends or a limit is reached.
DecodeData(end, k) ==
  LET pass == RequestSettled(flags, tx)
      last == ~pass /\ (end = "data" \/ LimitReached(tx, len.request))
      cs == IF last THEN Phases(tx, <<"request_body">>) ELSE <<>>
      f == [flags EXCEPT !.request_processed = @ \/ last]
      g == IF k > 0 THEN [Intervene(f, cs[k]) EXCEPT !.is_send_local_reply = TRUE] ELSE f
  IN  /\ req.pc = "body" /\ req.pieces < MaxPieces
      /\ Decoding
      /\ k \in Intervening(tx, cs)
      /\ len' = IF pass THEN len ELSE [len EXCEPT !.request = AppendPiece(tx, @)]
      /\ calls' = calls \o Run(cs, k)
      /\ flags' = g
      /\ req' = AfterData(Piece(req, end), RequestStatus(g, tx, "drop"), <<"piece">>)
      /\ IF k > 0 THEN SendLocalReply ELSE UNCHANGED resp
      /\ UNCHANGED <<conf, tx>>

\* The filter has no decodeTrailers: trailers pass and release what is held.
DecodeTrailers ==
  /\ req.pc = "body"
  /\ Decoding
  /\ req' = [Released(req, <<"trailers">>) EXCEPT !.pc = "end", !.end = "trailers"]
  /\ UNCHANGED <<conf, tx, flags, len, resp, calls>>

-----------------------------------------------------------------------------
\* sendEncodeReply: the status and the body are replaced, at the end only.
SendEncodeReply(f, m) ==
  IF f.end_stream THEN [m EXCEPT !.head = f.status, !.buf = <<"reply">>] ELSE m

\* encodeHeaders of a response: the filter's own reply, an upstream's, or one
\* that the proxy made before the request left the filter.
EncodeHeaders(end, k) ==
  LET own == resp.pc = "reply"
      pass == NoTransaction(tx) \/ flags.intervined \/ flags.response_processed
      cs == IF pass THEN <<>> ELSE Phases(tx, <<"response_headers">>)
      f == IF pass THEN flags ELSE [flags EXCEPT !.end_stream = end]
      g == IF k > 0 THEN Intervene(f, cs[k]) ELSE f
      m == [resp EXCEPT !.pc = IF end THEN "end" ELSE "body", !.end = IF end THEN "headers" ELSE "none",
                        !.head = IF own THEN flags.status ELSE "original",
                        !.local = req.out = <<>>]
  IN  /\ resp.pc \in {"idle", "reply"}
      /\ own => ~end
      /\ k \in Intervening(tx, cs)
      /\ calls' = calls \o Run(cs, k)
      /\ flags' = g
      /\ resp' = IF k > 0 THEN AfterHeaders(SendEncodeReply(g, m), "hold")
                 ELSE AfterHeaders(m, ResponseStatus(g, tx))
      /\ UNCHANGED <<conf, tx, len, req>>

\* encodeData: of a response already refused everything is drained and the
\* reply added at the end; otherwise the body phase runs at the end or limit.
EncodeData(end, k) ==
  LET pass == NoTransaction(tx) \/ flags.response_processed \/ flags.is_send_local_reply
      refused == ~pass /\ flags.intervined
      last == ~pass /\ ~refused /\ (end = "data" \/ LimitReached(tx, len.response))
      cs == IF last THEN Phases(tx, <<"response_body">>) ELSE <<>>
      f == IF pass THEN flags
           ELSE [flags EXCEPT !.end_stream = end = "data", !.response_processed = @ \/ last]
      g == IF k > 0 THEN Intervene(f, cs[k]) ELSE f
      m == Piece(resp, end)
      piece == <<IF resp.own THEN "reply" ELSE "piece">>
  IN  /\ resp.pc = "body" /\ resp.pieces < MaxPieces
      /\ resp.own => end = "data"
      /\ k \in Intervening(tx, cs)
      /\ len' = IF pass \/ refused THEN len ELSE [len EXCEPT !.response = AppendPiece(tx, @)]
      /\ calls' = calls \o Run(cs, k)
      /\ flags' = g
      /\ resp' = IF refused
                   THEN IF f.end_stream THEN Released(SendEncodeReply(g, m), <<>>) ELSE m
                   ELSE IF k > 0 THEN Released(SendEncodeReply(g, m), piece)
                   ELSE AfterData(m, ResponseStatus(g, tx), piece)
      /\ UNCHANGED <<conf, tx, req>>

EncodeTrailers ==
  /\ resp.pc = "body" /\ ~resp.own
  /\ resp' = [Released(resp, <<"trailers">>) EXCEPT !.pc = "end", !.end = "trailers"]
  /\ UNCHANGED <<conf, tx, flags, len, req, calls>>

\* onDestroy: each transaction logs.
OnDestroy ==
  /\ resp.pc # "destroyed"
  /\ resp' = [resp EXCEPT !.pc = "destroyed"]
  /\ calls' = calls \o Phases(tx, <<"logging">>)
  /\ UNCHANGED <<conf, tx, flags, len, req>>

DataEnds == {"none", "data"}
AnyPhase == 0 .. 6

ClientStep ==
  \/ \E end \in DataEnds, k \in AnyPhase : DecodeData(end, k)
  \/ DecodeTrailers

ResponseStep ==
  \/ \E end \in DataEnds, k \in AnyPhase : EncodeData(end, k)
  \/ EncodeTrailers

Next ==
  \/ \E end \in BOOLEAN, k \in AnyPhase : DecodeHeaders(end, k) \/ EncodeHeaders(end, k)
  \/ ClientStep
  \/ ResponseStep
  \/ OnDestroy

\* A message that has begun goes on to its end: a peer that stalls is cut off
\* by the stream's idle timeout, which is OnDestroy.
Fairness == WF_vars(ClientStep) /\ WF_vars(ResponseStep)

Spec == Init /\ [][Next]_vars /\ Fairness

-----------------------------------------------------------------------------
Called(w, phase) == \E i \in DOMAIN calls : calls[i] = <<w, phase>>
RequestPhases == {"connection", "uri", "request_headers", "request_body"}

\* While the engine in force is on, no part of a request without trailers goes
\* upstream before every transaction has processed it: the headers, and the
\* body as far as the limits let it in; and none goes once a request phase has
\* intervened.
RequestInspected ==
  EnabledRuleEngine(tx) /\ req.out # <<>> /\ req.end # "trailers" =>
    /\ flags.request_processed
    /\ flags.status \notin RequestPhases
    /\ \A w \in Who : tx[w] # "none" =>
         /\ Called(w, "request_headers")
         /\ req.pieces > 0 => Called(w, "request_body")

\* An intervention before the response body replaces the whole response: the
\* client receives the intervention's status and the filter's body and not one
\* piece of the other response, unless trailers end that one.  The filter's own
\* reply passes the filter without being inspected.
InterventionReplaces ==
  /\ resp.own => \A w \in Who : ~Called(w, "response_headers") /\ ~Called(w, "response_body")
  /\ /\ resp.pc = "end" /\ ~resp.held /\ resp.end # "trailers"
     /\ flags.status \in RequestPhases \cup {"response_headers"}
     => resp.out = <<flags.status, "reply">>

Before(w, p, q) ==
  \A i, j \in DOMAIN calls : calls[i] = <<w, p>> /\ calls[j] = <<w, q>> => i < j

\* Whatever the order in which request and response arrive, each transaction
\* processes each phase at most once, the phases of a message in order, and
\* logs last, exactly when the stream is destroyed.
PhasesOnceInOrder ==
  /\ IsInjective(calls)
  /\ \A w \in Who :
       /\ Before(w, "connection", "uri") /\ Before(w, "uri", "request_headers")
       /\ Before(w, "request_headers", "request_body")
       /\ Before(w, "response_headers", "response_body")
       /\ Called(w, "logging") <=> resp.pc = "destroyed" /\ tx[w] # "none"
  /\ \A i \in DOMAIN calls : calls[i][2] = "logging" =>
       \A j \in i .. Len(calls) : calls[j][2] = "logging"

\* Nothing is held for good: a held request moves on or is answered, and a held
\* response whose headers did not end it moves on or is destroyed.
HeldMovesOn ==
  /\ req.held /\ resp.pc = "idle" ~> ~req.held \/ resp.pc # "idle"
  /\ resp.held /\ resp.pc = "body" ~> ~resp.held \/ resp.pc = "destroyed"

=============================================================================
