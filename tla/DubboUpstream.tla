---------------------------- MODULE DubboUpstream ----------------------------
(***************************************************************************)
(* The Dubbo upstream: the router's HTTP request is turned into one Dubbo  *)
(* request on a pooled TCP connection, and the Dubbo answer back into an   *)
(* HTTP response (source/upstreams/http/dubbo/upstream_request.{h,cc}).    *)
(*                                                                         *)
(* One worker thread runs everything, so an action is one callback.  Two   *)
(* connections never share state, so one connection slot carries the       *)
(* requests one after the other: a connection that is still open when its  *)
(* DubboUpstream lets go of it is handed to the next request.              *)
(*                                                                         *)
(* A Dubbo packet is a fixed header followed by a body.  The byte stream   *)
(* is a sequence of those parts, and a read may end after any part.        *)
(***************************************************************************)
EXTENDS Integers, Sequences

CONSTANTS MaxRequests, MaxHeartbeats

ASSUME BoundsAssumption == MaxRequests \in Nat /\ MaxHeartbeats \in Nat

Requests == 1..MaxRequests

\* What the answer packet turns out to be when it is decoded: a value or null, an
\* exception of the service, or one of the forms answered with protocol_error_code_.
Answers == {"value", "exception", "unusable"}

Part(part, kind, r) == [part |-> part, kind |-> kind, of |-> r]
Packet(kind, r) == << Part("head", kind, r), Part("body", kind, r) >>
Parts == { Part(p, k, r) : p \in {"head", "body"}, k \in Answers, r \in Requests }
           \cup { Part(p, "heartbeat", 0) : p \in {"head", "body"} }

\* What the router is given: a response (what it says and whose answer it carries),
\* onResetStream or onPoolFailure.
Verdict(what, r) == [what |-> what, of |-> r]
Verdicts == { Verdict(k, r) : k \in Answers, r \in Requests }
              \cup { Verdict(w, 0) : w \in {"local", "truncated", "misframed", "reset", "failure"} }

VARIABLES
  current,     \* the latest request, 0 before the first
  phase,       \* per request, where the router is with it
  u,           \* the DubboUpstream of the current request
  guard,       \* per request, *upstream_reset_guard_: outlives the object
  posted,      \* requests with a local answer posted to the dispatcher
  conn,        \* the connection, and what its server still has to say on it
  verdicts,    \* per request, what the router was given, in order
  heartbeats   \* heartbeats sent so far

vars == <<current, phase, u, guard, posted, conn, verdicts, heartbeats>>

Phases == {"new", "pooling", "encoding", "sent", "done", "reset"}

\* The object's fields; live says whether the object exists.
NoUpstream == [live |-> FALSE, upstream_request |-> FALSE, conn_data |-> FALSE,
               request_complete |-> FALSE, responded |-> FALSE, to_close |-> FALSE,
               buffer |-> << >>]

Closed == [open |-> FALSE, wire |-> << >>, kept |-> 0, fin |-> FALSE, ended |-> FALSE,
           owed |-> {}]

Init ==
  /\ current = 0
  /\ phase = [r \in Requests |-> "new"]
  /\ u = NoUpstream
  /\ guard = [r \in Requests |-> FALSE]
  /\ posted = {}
  /\ conn = Closed
  /\ verdicts = [r \in Requests |-> << >>]
  /\ heartbeats = 0

Give(v) == verdicts' = [verdicts EXCEPT ![current] = Append(@, v)]
Enter(p) == phase' = [phase EXCEPT ![current] = p]

-----------------------------------------------------------------------------
\* The connection pool.

\* newStream: the router asks the pool for a connection.
NewStream ==
  /\ ~u.live
  /\ current < MaxRequests
  /\ current > 0 => phase[current] \in {"done", "reset"}
  /\ current' = current + 1
  /\ phase' = [phase EXCEPT ![current + 1] = "pooling"]
  /\ UNCHANGED <<u, guard, posted, conn, verdicts, heartbeats>>

\* cancelAnyPendingStream: the router gives up before the pool answered.
CancelAnyPendingStream ==
  /\ current > 0 /\ phase[current] = "pooling"
  /\ Enter("reset")
  /\ UNCHANGED <<current, u, guard, posted, conn, verdicts, heartbeats>>

OnPoolFailure ==
  /\ current > 0 /\ phase[current] = "pooling"
  /\ Enter("reset")
  /\ Give(Verdict("failure", 0))
  /\ UNCHANGED <<current, u, guard, posted, conn, heartbeats>>

\* onPoolReady and the constructor: an open connection is reused.
OnPoolReady ==
  /\ current > 0 /\ phase[current] = "pooling"
  /\ Enter("encoding")
  /\ u' = [NoUpstream EXCEPT !.live = TRUE, !.upstream_request = TRUE, !.conn_data = TRUE]
  /\ guard' = [guard EXCEPT ![current] = TRUE]
  /\ conn' = [conn EXCEPT !.open = TRUE]
  /\ UNCHANGED <<current, posted, verdicts, heartbeats>>

-----------------------------------------------------------------------------
\* Letting go of the connection.

\* A variant that forgets the guard.
CleanupUnguarded(w, close, c) ==
  /\ guard' = guard
  /\ u' = [w EXCEPT !.upstream_request = FALSE, !.conn_data = FALSE]
  /\ conn' = IF close /\ w.conn_data THEN Closed ELSE c

\* cleanup(close_connection), with the object at w and the connection at c.  The
\* close event of its own close() finds upstream_request_ null and does nothing.
Cleanup(w, close, c) ==
  /\ guard' = [guard EXCEPT ![current] = FALSE]
  /\ u' = [w EXCEPT !.upstream_request = FALSE, !.conn_data = FALSE]
  /\ conn' = IF close /\ w.conn_data THEN Closed ELSE c

\* A variant that gives the connection back.
ResetStreamKeeps ==
  /\ u.live
  /\ phase[current] \in {"encoding", "sent"}
  /\ Cleanup(u, FALSE, conn)
  /\ Enter("reset")
  /\ UNCHANGED <<current, posted, verdicts, heartbeats>>

\* resetStream: a timeout, a retry or a downstream that went away.
ResetStream ==
  /\ u.live
  /\ phase[current] \in {"encoding", "sent"}
  /\ Cleanup(u, TRUE, conn)
  /\ Enter("reset")
  /\ UNCHANGED <<current, posted, verdicts, heartbeats>>

\* A variant of CloseOnDestroy that trusts the close flag alone.
CloseOnDestroyFlag(w) == w.to_close

\* The destructor's decision.
CloseOnDestroy(w) == w.to_close \/ ~w.responded

\* The destructor, at any time after the router is done with the request or drops it.
Destroy ==
  /\ u.live
  /\ Cleanup([u EXCEPT !.live = FALSE, !.buffer = << >>], CloseOnDestroy(u), conn)
  /\ Enter(IF phase[current] = "done" THEN "done" ELSE "reset")
  /\ UNCHANGED <<current, posted, verdicts, heartbeats>>

-----------------------------------------------------------------------------
\* The request.

\* writeRequestToUpstream when the conversion works.
WriteRequest ==
  /\ conn' = [conn EXCEPT !.owed = @ \cup {current}]
  /\ posted' = posted

\* writeRequestToUpstream when the route has no conversion or it throws: the local
\* answer is posted, because the router is still inside encode*.
PostLocalAnswer ==
  /\ posted' = posted \cup {current}
  /\ conn' = conn

\* encodeHeaders, encodeData or encodeTrailers with the end of the request.  The earlier
\* pieces only grow bufferd_body_.
EncodeEnd ==
  /\ u.live /\ phase[current] = "encoding"
  /\ ~u.request_complete
  /\ u' = [u EXCEPT !.request_complete = TRUE]
  /\ Enter("sent")
  /\ WriteRequest \/ PostLocalAnswer
  /\ UNCHANGED <<current, guard, verdicts, heartbeats>>

-----------------------------------------------------------------------------
\* The answer.

\* handleRawResponse: marks the answer given, then hands it to the router, which takes it
\* or resets the stream from inside decodeHeaders or decodeData.
HandleRawResponse(v, close, w, c) ==
  LET answered == [w EXCEPT !.responded = TRUE, !.to_close = @ \/ close] IN
  /\ Give(v)
  /\ \/ /\ u' = answered
        /\ conn' = c
        /\ guard' = guard
        /\ Enter("done")
     \/ /\ Cleanup(answered, TRUE, c)
        /\ Enter("reset")

\* The dispatcher runs a posted local answer.  guard[r] FALSE: the object may be gone.
RunPosted(r) ==
  /\ r \in posted
  /\ posted' = posted \ {r}
  /\ IF guard[r]
     THEN HandleRawResponse(Verdict("local", 0), FALSE, u, conn)
     ELSE UNCHANGED <<phase, u, guard, conn, verdicts>>
  /\ UNCHANGED <<current, heartbeats>>

\* The heartbeat loop of readRespnoseFromUpstream: the first n parts are whole heartbeats,
\* and no other whole heartbeat follows.
Drained(buffer, n) ==
  /\ n % 2 = 0
  /\ \A i \in 1..n : /\ buffer[i].kind = "heartbeat"
                     /\ (buffer[i].part = "head") <=> (i % 2 = 1)
  /\ n + 2 <= Len(buffer) =>
       ~(buffer[n + 1].kind = "heartbeat" /\ buffer[n + 1].part = "head")

\* decodeHeader reads sixteen bytes wherever the buffer starts: on the body of a heartbeat,
\* which is shorter than that, it waits, and throws once the next header is there too.
Misframed(buffer) == Len(buffer) > 1 /\ buffer[1].part = "body"

\* A variant that also wants a byte of the next packet.
WholeStrict(buffer) == Len(buffer) > 2 /\ buffer[1].part = "head"

\* The buffer holds the header and the bodySize() bytes it announces.
Whole(buffer) == Len(buffer) > 1 /\ buffer[1].part = "head"

\* The close flag of each handleResponse call.
ClosesAfter(kind) == kind = "unusable"

\* readRespnoseFromUpstream on the buffered parts, with onUpstreamData's two fallbacks:
\* what is left over after an answer is never looked at again.
ReadResponse(buffer, end, c) ==
  \E n \in 0..Len(buffer) :
    LET rest == SubSeq(buffer, n + 1, Len(buffer))
        spent == [u EXCEPT !.buffer = << >>]
    IN /\ Drained(buffer, n)
       /\ \/ /\ Misframed(rest)
             /\ HandleRawResponse(Verdict("misframed", 0), TRUE, spent, c)
          \/ /\ Whole(rest)
             /\ HandleRawResponse(Verdict(rest[1].kind, rest[1].of),
                                  ClosesAfter(rest[1].kind), spent, c)
          \/ /\ ~Misframed(rest) /\ ~Whole(rest) /\ end
             /\ HandleRawResponse(Verdict("truncated", 0), TRUE, spent, c)
          \/ /\ ~Misframed(rest) /\ ~Whole(rest) /\ ~end
             /\ u' = [u EXCEPT !.buffer = rest]
             /\ conn' = c
             /\ UNCHANGED <<phase, guard, verdicts>>

\* onUpstreamData with the first n unread parts.  What it does not take stays in the read
\* buffer of the connection and is part of the next call.
OnUpstreamData(n, end) ==
  /\ u.live /\ u.conn_data
  /\ n \in conn.kept..Len(conn.wire)
  /\ ~conn.ended
  /\ end => conn.fin /\ n = Len(conn.wire)
  /\ end \/ n > conn.kept
  /\ IF ~u.upstream_request \/ u.responded \/ n = 0
     THEN /\ conn' = [conn EXCEPT !.kept = n, !.ended = end]
          /\ UNCHANGED <<phase, u, guard, verdicts>>
     ELSE ReadResponse(u.buffer \o SubSeq(conn.wire, 1, n), end,
                       [conn EXCEPT !.wire = SubSeq(@, n + 1, Len(@)), !.kept = 0,
                                    !.ended = end])
  /\ UNCHANGED <<current, posted, heartbeats>>

\* onEvent with a close: silent once the answer is given.  An idle connection is closed
\* by the pool.
OnEvent ==
  /\ conn.open
  /\ IF u.live /\ u.upstream_request
     THEN /\ Cleanup(u, FALSE, Closed)
          /\ IF u.responded
             THEN UNCHANGED <<phase, verdicts>>
             ELSE /\ Give(Verdict("reset", 0))
                  /\ Enter("reset")
     ELSE /\ conn' = Closed
          /\ UNCHANGED <<phase, u, guard, verdicts>>
  /\ UNCHANGED <<current, posted, heartbeats>>

-----------------------------------------------------------------------------
\* The server: one answer to every request, heartbeats whenever it likes, and the end of
\* its half of the connection.

Answer(r, kind) ==
  /\ r \in conn.owed /\ ~conn.fin
  /\ conn' = [conn EXCEPT !.owed = @ \ {r}, !.wire = @ \o Packet(kind, r)]
  /\ UNCHANGED <<current, phase, u, guard, posted, verdicts, heartbeats>>

SendHeartbeat ==
  /\ conn.open /\ ~conn.fin
  /\ heartbeats < MaxHeartbeats
  /\ heartbeats' = heartbeats + 1
  /\ conn' = [conn EXCEPT !.wire = @ \o Packet("heartbeat", 0)]
  /\ UNCHANGED <<current, phase, u, guard, posted, verdicts>>

EndStream ==
  /\ conn.open /\ ~conn.fin
  /\ conn' = [conn EXCEPT !.fin = TRUE]
  /\ UNCHANGED <<current, phase, u, guard, posted, verdicts, heartbeats>>

MaxUnread == 2 * (MaxHeartbeats + MaxRequests)

Read == \E n \in 0..MaxUnread, end \in BOOLEAN : OnUpstreamData(n, end)
AnyPosted == \E r \in Requests : RunPosted(r)
AnyAnswer == \E r \in Requests, kind \in Answers : Answer(r, kind)

Next ==
  \/ NewStream \/ CancelAnyPendingStream \/ OnPoolFailure \/ OnPoolReady
  \/ EncodeEnd \/ ResetStream \/ Destroy
  \/ Read \/ OnEvent \/ AnyPosted
  \/ AnyAnswer \/ SendHeartbeat \/ EndStream

\* The event loop keeps reading and keeps running what was posted; the server answers.
Fairness == WF_vars(Read) /\ WF_vars(AnyPosted) /\ WF_vars(AnyAnswer)

Spec == Init /\ [][Next]_vars /\ Fairness

-----------------------------------------------------------------------------
\* Properties.

\* Every variable has its type.
TypeOK ==
  /\ current \in 0..MaxRequests
  /\ phase \in [Requests -> Phases]
  /\ u \in [live : BOOLEAN, upstream_request : BOOLEAN, conn_data : BOOLEAN,
            request_complete : BOOLEAN, responded : BOOLEAN, to_close : BOOLEAN,
            buffer : Seq(Parts)]
  /\ guard \in [Requests -> BOOLEAN]
  /\ posted \subseteq Requests
  /\ conn \in [open : BOOLEAN, wire : Seq(Parts), kept : Nat, fin : BOOLEAN,
               ended : BOOLEAN, owed : SUBSET Requests]
  /\ conn.kept <= Len(conn.wire)
  /\ verdicts \in [Requests -> Seq(Verdicts)]
  /\ heartbeats \in 0..MaxHeartbeats

\* The Dubbo request id is never compared with the answer's, so a connection is the only
\* thing that ties an answer to its request: whatever the order of timeouts, retries,
\* errors and reuses, an answer is only ever given to the request it was sent for.
AnswersOwnRequest ==
  \A r \in Requests : \A i \in DOMAIN verdicts[r] : verdicts[r][i].of \in {0, r}

\* A connection no DubboUpstream holds owes nothing to an earlier request: no request
\* written on it is unanswered, and no part of an answer is still on its way.
ReleasedSettled ==
  (conn.open /\ ~u.conn_data) =>
    /\ conn.owed = {}
    /\ \A i \in DOMAIN conn.wire : conn.wire[i].of = 0

\* A posted local answer whose guard still holds finds the object it captured alive, with
\* its router request: the only protection of the raw this in the two posted lambdas.
PostedFindsObject ==
  \A r \in posted : guard[r] => (r = current /\ u.live /\ u.upstream_request)

\* Once the router has reset a stream, or was told of its reset, the upstream gives it
\* nothing more: no late answer, no posted answer, no second onResetStream.
SilentAfterReset ==
  [][\A r \in Requests : phase[r] = "reset" => verdicts'[r] = verdicts[r]]_vars

\* The close of the connection is reported at most once, and never on top of an answer
\* (onEvent after responded_ only lets go of the connection).
CloseReportedAlone ==
  \A r \in Requests :
    (\E i \in DOMAIN verdicts[r] : verdicts[r][i].what = "reset") => Len(verdicts[r]) = 1

\* While its server keeps its half of the connection open, a request that was sent ends:
\* neither heartbeats, nor packets split anywhere, nor parts left by an earlier request
\* leave it waiting.
SentRequestEnds ==
  \A r \in Requests :
    (phase[r] = "sent") ~> (phase[r] \in {"done", "reset"} \/ (r = current /\ conn.fin))

\* handleRawResponse asserts !responded_: no request is answered twice.
RespondsOnce == \A r \in Requests : Len(verdicts[r]) <= 1

=============================================================================
