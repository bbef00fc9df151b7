------------------------- MODULE DubboUpstreamProofs -------------------------
(***************************************************************************)
(* Proofs about DubboUpstream, for any number of requests and heartbeats.  *)
(* The inductive invariant says which packets the connection can still     *)
(* carry: while the request waits, at most its own answer, and nothing     *)
(* after it; once the connection may be handed on, no answer at all.       *)
(***************************************************************************)
EXTENDS DubboUpstream, SequenceTheorems, TLAPS

\* No part of s belongs to an answer.
NoAnswer(s) == \A i \in 1..Len(s) : s[i].of = 0

\* At most one answer, with nothing but heartbeats behind it.
OneAnswer(s) ==
  \A i \in 1..Len(s) : (s[i].of # 0 /\ s[i].part = "head") =>
    \A j \in 1..Len(s) : j > i + 1 => s[j].of = 0

\* Every answer in s answers request r.
Own(s, r) == \A i \in 1..Len(s) : s[i].of \in {0, r}

Settled(c) == c.owed = {} /\ NoAnswer(c.wire)

\* What the object has read and what it can still read.
Stream == u.buffer \o conn.wire

\* The request is not on the connection: not written yet, or answered locally.
Unwritten == ~u.request_complete \/ current \in posted

\* The object, its guard and the router agree on where the request is.
Lifecycle ==
  /\ \A r \in Requests : guard[r] => (r = current /\ u.upstream_request)
  /\ u.upstream_request => (u.conn_data /\ phase[current] \in {"encoding", "sent", "done"})
  /\ u.conn_data => (u.live /\ conn.open /\ u.upstream_request)
  /\ u.live => (current # 0 /\ phase[current] \in {"encoding", "sent", "done", "reset"})
  /\ (u.upstream_request /\ u.responded) => phase[current] = "done"
  /\ (u.upstream_request /\ ~u.responded) => phase[current] \in {"encoding", "sent"}
  /\ (u.live /\ phase[current] \in {"encoding", "sent"}) => u.upstream_request
  /\ ~u.live => u.buffer = << >>
  /\ \A r \in Requests : r > current => phase[r] = "new"
  /\ \A r \in posted : r <= current /\ phase[r] \notin {"new", "pooling"}
  /\ (u.live /\ current \in posted) => u.request_complete

\* What the router was given fits where it is.
Given ==
  \A r \in Requests :
    /\ phase[r] \in {"new", "pooling", "encoding", "sent"} => verdicts[r] = << >>
    /\ (\E i \in 1..Len(verdicts[r]) : verdicts[r][i].what = "reset") =>
         (phase[r] = "reset" /\ Len(verdicts[r]) = 1)
    /\ \A i \in 1..Len(verdicts[r]) : verdicts[r][i].of \in {0, r}

\* While the request waits for its answer.
Waiting ==
  (u.conn_data /\ ~u.responded) =>
    /\ conn.owed \subseteq {current}
    /\ Own(Stream, current)
    /\ OneAnswer(Stream)
    /\ (conn.owed # {} \/ Unwritten) => NoAnswer(Stream)
    /\ Unwritten => conn.owed = {}

\* Once the connection is going to be handed on.
HandedOn ==
  /\ (u.conn_data /\ u.responded /\ ~u.to_close) => Settled(conn)
  /\ ~u.conn_data => Settled(conn)

IInv == TypeOK /\ Lifecycle /\ Given /\ Waiting /\ HandedOn

-----------------------------------------------------------------------------
\* Sequences.

\* The parts of a concatenation.
LEMMA ConcatParts ==
  ASSUME NEW S, NEW s \in Seq(S), NEW t \in Seq(S)
  PROVE  /\ s \o t \in Seq(S)
         /\ Len(s \o t) = Len(s) + Len(t)
         /\ \A i \in 1..Len(s) : (s \o t)[i] = s[i]
         /\ \A i \in 1..Len(t) : (s \o t)[Len(s) + i] = t[i]
  OBVIOUS

\* The parts of a suffix.
LEMMA SuffixParts ==
  ASSUME NEW S, NEW s \in Seq(S), NEW n \in 0..Len(s)
  PROVE  /\ SubSeq(s, n + 1, Len(s)) \in Seq(S)
         /\ Len(SubSeq(s, n + 1, Len(s))) = Len(s) - n
         /\ \A i \in 1..(Len(s) - n) : SubSeq(s, n + 1, Len(s))[i] = s[n + i]
  OBVIOUS

\* The parts of a prefix.
LEMMA PrefixParts ==
  ASSUME NEW S, NEW s \in Seq(S), NEW n \in 0..Len(s)
  PROVE  /\ SubSeq(s, 1, n) \in Seq(S)
         /\ Len(SubSeq(s, 1, n)) = n
         /\ \A i \in 1..n : SubSeq(s, 1, n)[i] = s[i]
  OBVIOUS

-----------------------------------------------------------------------------
\* Types.

UType == [live : BOOLEAN, upstream_request : BOOLEAN, conn_data : BOOLEAN,
          request_complete : BOOLEAN, responded : BOOLEAN, to_close : BOOLEAN,
          buffer : Seq(Parts)]

CType == [open : BOOLEAN, wire : Seq(Parts), kept : Nat, fin : BOOLEAN,
          ended : BOOLEAN, owed : SUBSET Requests]

\* A connection no one has used yet, or any more, is well-typed.
LEMMA ClosedType == Closed \in CType /\ Closed.kept <= Len(Closed.wire)
  BY DEF Closed, CType

\* The object before the first request has its type.
LEMMA NoUpstreamType == NoUpstream \in UType
  BY DEF NoUpstream, UType

\* A part is a heartbeat's or an answer's, by both of its marks.
LEMMA PartFacts ==
  ASSUME NEW x \in Parts
  PROVE  /\ x.part \in {"head", "body"}
         /\ x.of = 0 <=> x.kind = "heartbeat"
         /\ x.of # 0 => (x.kind \in Answers /\ x.of \in Requests)
  BY BoundsAssumption DEF Parts, Part, Answers, Requests

\* The two parts of a packet.
LEMMA PacketFacts ==
  ASSUME NEW kind, NEW r
  PROVE  /\ Len(Packet(kind, r)) = 2
         /\ \A i \in 1..2 : Packet(kind, r)[i].of = r
         /\ Packet(kind, r)[1].part = "head" /\ Packet(kind, r)[2].part = "body"
         /\ (kind \in Answers /\ r \in Requests) => Packet(kind, r) \in Seq(Parts)
         /\ (kind = "heartbeat" /\ r = 0) => Packet(kind, r) \in Seq(Parts)
<1> DEFINE h == Part("head", kind, r)
           b == Part("body", kind, r)
<1>1. Packet(kind, r) = << h, b >>
  BY DEF Packet
<1>2. h.of = r /\ b.of = r /\ h.part = "head" /\ b.part = "body"
  BY DEF Part
<1>3. (kind \in Answers /\ r \in Requests) => (h \in Parts /\ b \in Parts)
  BY DEF Parts, Part
<1>4. (kind = "heartbeat" /\ r = 0) => (h \in Parts /\ b \in Parts)
  BY DEF Parts, Part
<1> HIDE DEF h, b
<1> QED
  BY <1>1, <1>2, <1>3, <1>4

\* The verdicts given for each kind of answer are verdicts.
LEMMA VerdictFacts ==
  /\ \A w \in {"local", "truncated", "misframed", "reset", "failure"} : Verdict(w, 0) \in Verdicts
  /\ \A k \in Answers, r \in Requests : Verdict(k, r) \in Verdicts
  /\ \A w, r : Verdict(w, r).what = w /\ Verdict(w, r).of = r
  BY DEF Verdicts, Verdict

\* Cleanup keeps the types.
LEMMA CleanupType ==
  ASSUME TypeOK, current \in Requests,
         NEW w \in UType, NEW c \in CType, c.kept <= Len(c.wire),
         NEW close \in BOOLEAN, Cleanup(w, close, c)
  PROVE  u' \in UType /\ conn' \in CType /\ conn'.kept <= Len(conn'.wire)
           /\ guard' \in [Requests -> BOOLEAN]
<1>1. u' \in UType
  BY DEF Cleanup, UType
<1>2. conn' \in CType /\ conn'.kept <= Len(conn'.wire)
  BY ClosedType DEF Cleanup
<1>3. guard' \in [Requests -> BOOLEAN]
  BY DEF Cleanup, TypeOK
<1> QED
  BY <1>1, <1>2, <1>3

\* HandleRawResponse keeps the types.
LEMMA RespondType ==
  ASSUME TypeOK, current \in Requests,
         NEW w \in UType, NEW c \in CType, c.kept <= Len(c.wire),
         NEW v \in Verdicts, NEW close \in BOOLEAN,
         HandleRawResponse(v, close, w, c)
  PROVE  /\ u' \in UType /\ conn' \in CType /\ conn'.kept <= Len(conn'.wire)
         /\ guard' \in [Requests -> BOOLEAN]
         /\ phase' \in [Requests -> Phases]
         /\ verdicts' \in [Requests -> Seq(Verdicts)]
<1> DEFINE answered == [w EXCEPT !.responded = TRUE, !.to_close = @ \/ close]
<1>1. answered \in UType
  BY DEF UType
<1>2. verdicts' \in [Requests -> Seq(Verdicts)]
  BY DEF HandleRawResponse, Give, TypeOK
<1>3. CASE u' = answered /\ conn' = c /\ guard' = guard /\ Enter("done")
  BY <1>1, <1>2, <1>3 DEF Enter, TypeOK, Phases
<1>4. CASE Cleanup(answered, TRUE, c) /\ Enter("reset")
  <2> HIDE DEF answered
  <2>1. phase' \in [Requests -> Phases]
    BY <1>4 DEF Enter, TypeOK, Phases
  <2> QED
    BY <1>1, <1>2, <1>4, <2>1, CleanupType
<1> QED
  BY <1>3, <1>4 DEF HandleRawResponse

\* The types, folded.
LEMMA TypeFolded ==
  TypeOK <=>
    /\ current \in 0..MaxRequests
    /\ phase \in [Requests -> Phases]
    /\ u \in UType
    /\ guard \in [Requests -> BOOLEAN]
    /\ posted \subseteq Requests
    /\ conn \in CType
    /\ conn.kept <= Len(conn.wire)
    /\ verdicts \in [Requests -> Seq(Verdicts)]
    /\ heartbeats \in 0..MaxHeartbeats
  BY DEF TypeOK, UType, CType

\* The same of the next state.
LEMMA TypeFoldedNext ==
  TypeOK' <=>
    /\ current' \in 0..MaxRequests
    /\ phase' \in [Requests -> Phases]
    /\ u' \in UType
    /\ guard' \in [Requests -> BOOLEAN]
    /\ posted' \subseteq Requests
    /\ conn' \in CType
    /\ conn'.kept <= Len(conn'.wire)
    /\ verdicts' \in [Requests -> Seq(Verdicts)]
    /\ heartbeats' \in 0..MaxHeartbeats
  BY DEF TypeOK, UType, CType

\* A read that is taken: what the object then holds, and what is left to read.
LEMMA TakenRead ==
  ASSUME TypeOK, NEW n \in Nat, NEW end \in BOOLEAN, n <= Len(conn.wire)
  PROVE  LET b == u.buffer \o SubSeq(conn.wire, 1, n)
             c == [conn EXCEPT !.wire = SubSeq(@, n + 1, Len(@)), !.kept = 0, !.ended = end]
         IN /\ b \in Seq(Parts) /\ c \in CType /\ c.kept <= Len(c.wire)
            /\ c.owed = conn.owed /\ c.open = conn.open
            /\ Stream \in Seq(Parts) /\ Len(Stream) = Len(b) + Len(c.wire)
            /\ \A i \in 1..Len(b) : b[i] = Stream[i]
            /\ \A i \in 1..Len(c.wire) : c.wire[i] = Stream[Len(b) + i]
<1> DEFINE s == u.buffer
           t == conn.wire
           b == s \o SubSeq(t, 1, n)
           w == SubSeq(t, n + 1, Len(t))
           c == [conn EXCEPT !.wire = SubSeq(@, n + 1, Len(@)), !.kept = 0, !.ended = end]
<1>1. s \in Seq(Parts) /\ t \in Seq(Parts) /\ n \in 0..Len(t)
  BY DEF TypeOK
<1>2. /\ b \in Seq(Parts) /\ Len(b) = Len(s) + n
      /\ w \in Seq(Parts) /\ Len(w) = Len(t) - n
      /\ \A i \in 1..Len(b) : b[i] = (s \o t)[i]
      /\ \A i \in 1..Len(w) : w[i] = (s \o t)[Len(b) + i]
  <2> DEFINE p == SubSeq(t, 1, n)
             y == s \o t
  <2>1. p \in Seq(Parts) /\ Len(p) = n /\ \A i \in 1..n : p[i] = t[i]
    <3> HIDE DEF t
    <3> QED
      BY <1>1, PrefixParts
  <2>2. /\ w \in Seq(Parts) /\ Len(w) = Len(t) - n
        /\ \A i \in 1..(Len(t) - n) : w[i] = t[n + i]
    <3> HIDE DEF t
    <3> QED
      BY <1>1, SuffixParts
  <2> HIDE DEF s, t, p, w
  <2>b. b = s \o p
    BY DEF p
  <2> HIDE DEF b
  <2>3. /\ b \in Seq(Parts) /\ Len(b) = Len(s) + n
        /\ \A i \in 1..Len(s) : b[i] = s[i]
        /\ \A i \in 1..n : b[Len(s) + i] = p[i]
    <3>1. s \in Seq(Parts) /\ p \in Seq(Parts) /\ Len(p) = n
      BY <1>1, <2>1
    <3>2. s \o p \in Seq(Parts) /\ Len(s \o p) = Len(s) + Len(p)
      BY <3>1
    <3>3. \A i \in 1..Len(s) : (s \o p)[i] = s[i]
      BY <3>1
    <3>4. ASSUME NEW i \in 1..Len(p)
          PROVE  (s \o p)[Len(s) + i] = p[i]
      BY <3>1
    <3> QED
      BY <3>1, <3>2, <3>3, <3>4, <2>b
  <2>4. /\ \A i \in 1..Len(s) : y[i] = s[i]
        /\ \A i \in 1..Len(t) : y[Len(s) + i] = t[i]
    BY <1>1
  <2> HIDE DEF y
  <2>5. Len(s) \in Nat /\ Len(t) \in Nat
    BY <1>1
  <2>6. /\ \A i \in 1..Len(b) : b[i] = y[i]
        /\ \A i \in 1..Len(w) : w[i] = y[Len(b) + i]
    <3>1. ASSUME NEW i \in 1..Len(b)
          PROVE  b[i] = y[i]
      <4>1. CASE i \in 1..Len(s)
        BY <4>1, <2>3, <2>4
      <4>2. CASE i \notin 1..Len(s)
        <5> DEFINE j == i - Len(s)
        <5>1. j \in 1..n /\ i = Len(s) + j /\ j \in 1..Len(t)
          BY <4>2, <1>1, <2>3, <2>5
        <5> HIDE DEF j
        <5>2. b[i] = t[j] /\ y[i] = t[j]
          BY <5>1, <2>1, <2>3, <2>4
        <5> QED
          BY <5>2
      <4> QED
        BY <4>1, <4>2
    <3>2. ASSUME NEW i \in 1..Len(w)
          PROVE  w[i] = y[Len(b) + i]
      <4>1. /\ i \in 1..(Len(t) - n) /\ n + i \in 1..Len(t)
            /\ Len(b) + i = Len(s) + (n + i)
        BY <1>1, <2>2, <2>3, <2>5
      <4>2. w[i] = t[n + i] /\ y[Len(s) + (n + i)] = t[n + i]
        BY SMTT(60), <4>1, <2>2, <2>4
      <4> QED
        BY <4>1, <4>2
    <3> QED
      BY <3>1, <3>2
  <2> QED
    BY SMTT(60), <2>2, <2>3, <2>6 DEF y
<1>3. s \o t \in Seq(Parts) /\ Len(s \o t) = Len(s) + Len(t)
  BY <1>1
<1>4. /\ c.wire = w /\ c.kept = 0 /\ c.owed = conn.owed /\ c.open = conn.open
      /\ c \in CType
  <2>1. conn \in CType
    BY TypeFolded
  <2>2. c.wire = w /\ c.kept = 0 /\ c.owed = conn.owed /\ c.open = conn.open
    BY SMTT(60), <2>1 DEF CType
  <2>3. w \in Seq(Parts)
    BY <1>2
  <2> HIDE DEF w
  <2>4. c = [conn EXCEPT !.wire = w, !.kept = 0, !.ended = end]
    BY <2>1 DEF CType, w
  <2> QED
    BY <2>1, <2>2, <2>3, <2>4 DEF CType
<1> HIDE DEF b, w, c
<1>5. Stream = s \o t
  BY DEF Stream
<1> HIDE DEF s, t
<1>6. Len(s \o t) = Len(b) + Len(w) /\ c.kept <= Len(w)
  BY <1>1, <1>2, <1>3, <1>4
<1>7. /\ b \in Seq(Parts) /\ c \in CType /\ c.kept <= Len(c.wire)
      /\ c.owed = conn.owed /\ c.open = conn.open
      /\ Stream \in Seq(Parts) /\ Len(Stream) = Len(b) + Len(c.wire)
      /\ \A i \in 1..Len(b) : b[i] = Stream[i]
      /\ \A i \in 1..Len(c.wire) : c.wire[i] = Stream[Len(b) + i]
  BY <1>2, <1>3, <1>4, <1>5, <1>6, Zenon
<1> QED
  BY SMTT(60), <1>7 DEF b, c, s, t

\* A connection that gained a packet.
LEMMA AppendType ==
  ASSUME TypeOK, NEW k \in Seq(Parts), NEW owed \in SUBSET Requests
  PROVE  /\ [conn EXCEPT !.owed = owed, !.wire = @ \o k] \in CType
         /\ [conn EXCEPT !.wire = @ \o k] \in CType
         /\ conn.kept <= Len(conn.wire \o k)
<1>1. conn \in CType /\ conn.kept <= Len(conn.wire)
  BY TypeFolded
<1>2. conn.wire \in Seq(Parts) /\ conn.kept \in Nat
  BY <1>1 DEF CType
<1>3. conn.wire \o k \in Seq(Parts) /\ Len(conn.wire \o k) = Len(conn.wire) + Len(k)
  BY <1>2
<1>4. conn.kept <= Len(conn.wire \o k)
  BY <1>1, <1>2, <1>3
<1> QED
  BY <1>1, <1>3, <1>4 DEF CType

\* What readRespnoseFromUpstream finds in a buffer.
LEMMA RestFacts ==
  ASSUME NEW b \in Seq(Parts), NEW n \in 0..Len(b), Drained(b, n),
         NEW rest, rest = SubSeq(b, n + 1, Len(b))
  PROVE  /\ rest \in Seq(Parts)
         /\ Whole(rest) => /\ n + 2 <= Len(b) /\ rest[1] = b[n + 1]
                           /\ rest[1].part = "head"
                           /\ rest[1].kind \in Answers /\ rest[1].of \in Requests
<1>1. /\ rest \in Seq(Parts) /\ Len(rest) = Len(b) - n
      /\ \A i \in 1..(Len(b) - n) : rest[i] = b[n + i]
  BY SuffixParts
<1>2. ASSUME Whole(rest)
      PROVE  /\ n + 2 <= Len(b) /\ rest[1] = b[n + 1]
             /\ rest[1].part = "head"
             /\ rest[1].kind \in Answers /\ rest[1].of \in Requests
  <2>1. Len(rest) > 1 /\ rest[1].part = "head" /\ Len(b) \in Nat
    BY <1>2 DEF Whole
  <2>2. n + 2 <= Len(b) /\ rest[1] = b[n + 1]
    BY <1>1, <2>1
  <2>3. rest[1].kind # "heartbeat"
    BY <2>1, <2>2 DEF Drained
  <2>4. rest[1] \in Parts
    BY <1>1, <2>1
  <2> QED
    BY <2>1, <2>2, <2>3, <2>4, PartFacts
<1> QED
  BY <1>1, <1>2

\* A read keeps the types, whatever part of the stream it ends at.
LEMMA TypeRead ==
  ASSUME TypeOK, Lifecycle, NEW n \in Nat, NEW end \in BOOLEAN, OnUpstreamData(n, end)
  PROVE  TypeOK'
<1> DEFINE b == u.buffer \o SubSeq(conn.wire, 1, n)
           c == [conn EXCEPT !.wire = SubSeq(@, n + 1, Len(@)), !.kept = 0, !.ended = end]
           spent == [u EXCEPT !.buffer = << >>]
<1>1. n <= Len(conn.wire) /\ current \in Requests
  BY SMTT(60), BoundsAssumption DEF OnUpstreamData, TypeOK, Lifecycle, Requests
<1>2. b \in Seq(Parts) /\ c \in CType /\ c.kept <= Len(c.wire)
  BY <1>1, TakenRead
<1>3. u \in UType /\ spent \in UType
  <2>1. u \in UType
    BY TypeFolded
  <2>2. << >> \in Seq(Parts)
    OBVIOUS
  <2> QED
    BY <2>1, <2>2 DEF UType
<1>4. current' = current /\ posted' = posted /\ heartbeats' = heartbeats
  BY DEF OnUpstreamData
<1>5. CASE ~u.upstream_request \/ u.responded \/ n = 0
  <2>1. /\ conn' = [conn EXCEPT !.kept = n, !.ended = end]
        /\ UNCHANGED <<phase, u, guard, verdicts>>
    BY <1>5 DEF OnUpstreamData
  <2>2. conn' \in CType /\ conn'.kept <= Len(conn'.wire)
    BY <2>1, <1>1, TypeFolded DEF CType
  <2> QED
    BY <1>4, <2>1, <2>2, TypeFolded, TypeFoldedNext
<1>6. CASE ~(~u.upstream_request \/ u.responded \/ n = 0)
  <2>1. ReadResponse(b, end, c)
    BY <1>6 DEF OnUpstreamData
  <2> HIDE DEF b, c
  <2>2. PICK k \in 0..Len(b) :
          LET rest == SubSeq(b, k + 1, Len(b)) IN
          /\ Drained(b, k)
          /\ \/ /\ Misframed(rest)
                /\ HandleRawResponse(Verdict("misframed", 0), TRUE, spent, c)
             \/ /\ Whole(rest)
                /\ HandleRawResponse(Verdict(rest[1].kind, rest[1].of),
                                     ClosesAfter(rest[1].kind), spent, c)
             \/ HandleRawResponse(Verdict("truncated", 0), TRUE, spent, c)
             \/ /\ u' = [u EXCEPT !.buffer = rest]
                /\ conn' = c
                /\ UNCHANGED <<phase, guard, verdicts>>
    BY <2>1 DEF ReadResponse
  <2> DEFINE rest == SubSeq(b, k + 1, Len(b))
  <2>3. /\ rest \in Seq(Parts)
        /\ Whole(rest) => rest[1].kind \in Answers /\ rest[1].of \in Requests
    BY <1>2, <2>2, RestFacts
  <2> HIDE DEF rest, spent
  <2>4. ASSUME NEW v \in Verdicts, NEW close \in BOOLEAN,
               HandleRawResponse(v, close, spent, c)
        PROVE  TypeOK'
    BY <1>1, <1>2, <1>3, <1>4, <2>4, RespondType, TypeFolded, TypeFoldedNext
  <2>5. CASE Misframed(rest) /\ HandleRawResponse(Verdict("misframed", 0), TRUE, spent, c)
    BY <2>4, <2>5, VerdictFacts
  <2>6. CASE /\ Whole(rest)
             /\ HandleRawResponse(Verdict(rest[1].kind, rest[1].of),
                                  ClosesAfter(rest[1].kind), spent, c)
    <3>1. Verdict(rest[1].kind, rest[1].of) \in Verdicts
      BY <2>3, <2>6, VerdictFacts
    <3>2. ClosesAfter(rest[1].kind) \in BOOLEAN
      BY DEF ClosesAfter
    <3> QED
      BY <2>4, <2>6, <3>1, <3>2
  <2>7. CASE HandleRawResponse(Verdict("truncated", 0), TRUE, spent, c)
    BY <2>4, <2>7, VerdictFacts
  <2>8. CASE /\ u' = [u EXCEPT !.buffer = rest]
             /\ conn' = c
             /\ UNCHANGED <<phase, guard, verdicts>>
    <3>1. u' \in UType
      BY SMTT(60), <1>3, <2>3, <2>8 DEF UType
    <3> QED
      BY <1>2, <1>4, <2>8, <3>1, TypeFolded, TypeFoldedNext
  <2> QED
    BY <2>2, <2>5, <2>6, <2>7, <2>8 DEF rest
<1> QED
  BY <1>5, <1>6

\* Every step keeps the types.
LEMMA TypeStep ==
  ASSUME TypeOK, Lifecycle, [Next]_vars
  PROVE  TypeOK'
<1>u. u \in UType /\ conn \in CType /\ conn.kept <= Len(conn.wire)
  BY TypeFolded
<1>1. CASE NewStream
  BY <1>1, BoundsAssumption DEF NewStream, TypeOK, Requests, Phases
<1>2. CASE CancelAnyPendingStream
  BY <1>2 DEF CancelAnyPendingStream, Enter, TypeOK, Phases
<1>3. CASE OnPoolFailure
  <2>1. current \in Requests
    BY <1>3 DEF OnPoolFailure, TypeOK, Requests
  <2>2. Verdict("failure", 0) \in Verdicts
    BY VerdictFacts
  <2> QED
    BY <1>3, <2>1, <2>2 DEF OnPoolFailure, Enter, Give, TypeOK, Phases
<1>4. CASE OnPoolReady
  <2>1. u' \in UType
    BY <1>4, NoUpstreamType DEF OnPoolReady, UType
  <2>2. conn' \in CType /\ conn'.kept <= Len(conn'.wire)
    BY <1>4, <1>u DEF OnPoolReady, CType
  <2>3. phase' \in [Requests -> Phases] /\ guard' \in [Requests -> BOOLEAN]
    BY <1>4 DEF OnPoolReady, Enter, TypeOK, Phases
  <2> QED
    BY <1>4, <2>1, <2>2, <2>3, TypeFolded, TypeFoldedNext DEF OnPoolReady
<1>5. CASE EncodeEnd
  <2>1. current \in Requests
    BY <1>5, BoundsAssumption DEF EncodeEnd, TypeOK, Lifecycle, Requests
  <2>2. u' \in UType
    BY <1>5, <1>u DEF EncodeEnd, UType
  <2>3. phase' \in [Requests -> Phases]
    BY <1>5 DEF EncodeEnd, Enter, TypeOK, Phases
  <2>4. conn' \in CType /\ conn'.kept <= Len(conn'.wire) /\ posted' \subseteq Requests
    <3>1. posted \subseteq Requests
      BY DEF TypeOK
    <3>2. CASE WriteRequest
      BY <3>1, <3>2, <1>u, <2>1 DEF WriteRequest, CType
    <3>3. CASE PostLocalAnswer
      BY <3>1, <3>3, <1>u, <2>1 DEF PostLocalAnswer
    <3> QED
      BY <1>5, <3>2, <3>3 DEF EncodeEnd
  <2> QED
    BY <1>5, <2>2, <2>3, <2>4, TypeFolded, TypeFoldedNext DEF EncodeEnd
<1>6. CASE ResetStream
  <2>1. current \in Requests
    BY <1>6, BoundsAssumption DEF ResetStream, TypeOK, Lifecycle, Requests
  <2>2. phase' \in [Requests -> Phases]
    BY <1>6 DEF ResetStream, Enter, TypeOK, Phases
  <2>3. Cleanup(u, TRUE, conn)
    BY <1>6 DEF ResetStream
  <2> QED
    BY <1>6, <1>u, <2>1, <2>2, <2>3, CleanupType, TypeFolded, TypeFoldedNext DEF ResetStream
<1>7. CASE Destroy
  <2> DEFINE w == [u EXCEPT !.live = FALSE, !.buffer = << >>]
  <2>1. current \in Requests
    BY <1>7, BoundsAssumption DEF Destroy, TypeOK, Lifecycle, Requests
  <2>2. phase' \in [Requests -> Phases]
    BY <1>7 DEF Destroy, Enter, TypeOK, Phases
  <2>3. w \in UType
    <3>1. << >> \in Seq(Parts)
      OBVIOUS
    <3> QED
      BY <3>1, <1>u DEF UType
  <2>4. CloseOnDestroy(u) \in BOOLEAN
    BY DEF CloseOnDestroy
  <2>5. Cleanup(w, CloseOnDestroy(u), conn)
    BY <1>7 DEF Destroy
  <2> HIDE DEF w
  <2> QED
    BY <1>7, <1>u, <2>1, <2>2, <2>3, <2>4, <2>5, CleanupType, TypeFolded, TypeFoldedNext
    DEF Destroy
<1>8. CASE Read
  BY <1>8, TypeRead DEF Read
<1>9. CASE OnEvent
  <2>1. CASE u.live /\ u.upstream_request
    <3>1. current \in Requests
      BY <2>1, BoundsAssumption DEF TypeOK, Lifecycle, Requests
    <3>2. Cleanup(u, FALSE, Closed)
      BY <1>9, <2>1 DEF OnEvent
    <3>3. Verdict("reset", 0) \in Verdicts
      BY VerdictFacts
    <3>4. phase' \in [Requests -> Phases] /\ verdicts' \in [Requests -> Seq(Verdicts)]
      <4>1. CASE u.responded
        BY <1>9, <2>1, <4>1 DEF OnEvent, TypeOK
      <4>2. CASE ~u.responded
        <5>1. Give(Verdict("reset", 0)) /\ Enter("reset")
          BY <1>9, <2>1, <4>2 DEF OnEvent
        <5> QED
          BY <5>1, <3>1, <3>3 DEF Enter, Give, TypeOK, Phases
      <4> QED
        BY <4>1, <4>2
    <3> QED
      BY <1>9, <1>u, <3>1, <3>2, <3>4, ClosedType, CleanupType, TypeFolded, TypeFoldedNext
      DEF OnEvent
  <2>2. CASE ~(u.live /\ u.upstream_request)
    BY <1>9, <2>2, ClosedType, TypeFolded, TypeFoldedNext DEF OnEvent
  <2> QED
    BY <2>1, <2>2
<1>10. CASE AnyPosted
  <2>1. PICK r \in Requests : RunPosted(r)
    BY <1>10 DEF AnyPosted
  <2>2. CASE guard[r]
    <3>1. current \in Requests
      BY <2>2 DEF Lifecycle
    <3>2. Verdict("local", 0) \in Verdicts
      BY VerdictFacts
    <3>3. HandleRawResponse(Verdict("local", 0), FALSE, u, conn)
      BY <2>1, <2>2 DEF RunPosted
    <3>4. /\ u' \in UType /\ conn' \in CType /\ conn'.kept <= Len(conn'.wire)
          /\ guard' \in [Requests -> BOOLEAN]
          /\ phase' \in [Requests -> Phases]
          /\ verdicts' \in [Requests -> Seq(Verdicts)]
      BY <1>u, <3>1, <3>2, <3>3, RespondType
    <3> QED
      BY <2>1, <3>4, TypeFolded, TypeFoldedNext DEF RunPosted
  <2>3. CASE ~guard[r]
    BY <2>1, <2>3, TypeFolded, TypeFoldedNext DEF RunPosted
  <2> QED
    BY <2>2, <2>3
<1>11. CASE AnyAnswer
  <2>1. PICK r \in Requests, kind \in Answers : Answer(r, kind)
    BY <1>11 DEF AnyAnswer
  <2>2. Packet(kind, r) \in Seq(Parts)
    BY PacketFacts
  <2>3. conn' = [conn EXCEPT !.owed = conn.owed \ {r}, !.wire = @ \o Packet(kind, r)]
    BY <2>1 DEF Answer
  <2>4. conn.owed \ {r} \in SUBSET Requests
    BY <1>u DEF CType
  <2>5. conn' \in CType
    BY <2>2, <2>3, <2>4, AppendType
  <2>6. conn'.kept = conn.kept /\ conn'.wire = conn.wire \o Packet(kind, r)
    BY SMTT(60), <1>u, <2>3 DEF CType
  <2>7. conn.kept <= Len(conn.wire \o Packet(kind, r))
    BY <2>2, <2>4, AppendType
  <2> QED
    BY <2>1, <2>5, <2>6, <2>7, TypeFolded, TypeFoldedNext DEF Answer
<1>12. CASE SendHeartbeat
  <2>1. Packet("heartbeat", 0) \in Seq(Parts)
    BY PacketFacts
  <2>2. conn' = [conn EXCEPT !.wire = @ \o Packet("heartbeat", 0)]
    BY <1>12 DEF SendHeartbeat
  <2>3. {} \in SUBSET Requests
    BY SMTT(60)
  <2>4. conn' \in CType
    BY <2>1, <2>2, <2>3, AppendType
  <2>5. conn'.kept = conn.kept /\ conn'.wire = conn.wire \o Packet("heartbeat", 0)
    BY SMTT(60), <1>u, <2>2 DEF CType
  <2>6. conn.kept <= Len(conn.wire \o Packet("heartbeat", 0))
    BY <2>1, <2>3, AppendType
  <2>7. heartbeats' \in 0..MaxHeartbeats
    BY <1>12, BoundsAssumption DEF SendHeartbeat, TypeOK
  <2> QED
    BY <1>12, <2>4, <2>5, <2>6, <2>7, TypeFolded, TypeFoldedNext DEF SendHeartbeat
<1>13. CASE EndStream
  <2>1. conn' \in CType /\ conn'.kept <= Len(conn'.wire)
    BY <1>13, <1>u DEF EndStream, CType
  <2> QED
    BY <1>13, <2>1, TypeFolded, TypeFoldedNext DEF EndStream
<1>14. CASE UNCHANGED vars
  BY <1>14, TypeFolded, TypeFoldedNext DEF vars
<1> QED
  BY <1>1, <1>2, <1>3, <1>4, <1>5, <1>6, <1>7, <1>8, <1>9, <1>10, <1>11, <1>12, <1>13, <1>14
  DEF Next

-----------------------------------------------------------------------------
\* The life of the object, and what the router is given.

\* w is the object, whatever it has buffered.
SameObject(w) ==
  /\ w \in UType
  /\ w.live = u.live /\ w.upstream_request = u.upstream_request /\ w.conn_data = u.conn_data
  /\ w.request_complete = u.request_complete /\ w.responded = u.responded
  /\ w.to_close = u.to_close

\* What an answer changes.
LEMMA RespondShape ==
  ASSUME TypeOK, current \in Requests,
         NEW w, SameObject(w), NEW c \in CType, NEW v, NEW close \in BOOLEAN,
         HandleRawResponse(v, close, w, c)
  PROVE  /\ verdicts' = [verdicts EXCEPT ![current] = Append(@, v)]
         /\ u'.live = u.live /\ u'.responded = TRUE
         /\ u'.request_complete = u.request_complete
         /\ u'.to_close = (u.to_close \/ close)
         /\ \/ /\ u'.upstream_request = u.upstream_request /\ u'.conn_data = u.conn_data
               /\ conn' = c /\ guard' = guard
               /\ phase' = [phase EXCEPT ![current] = "done"]
            \/ /\ u'.upstream_request = FALSE /\ u'.conn_data = FALSE
               /\ conn' = (IF u.conn_data THEN Closed ELSE c)
               /\ guard' = [guard EXCEPT ![current] = FALSE]
               /\ phase' = [phase EXCEPT ![current] = "reset"]
  BY DEF HandleRawResponse, Cleanup, Give, Enter, SameObject, UType

\* An answer keeps the lifecycle.
LEMMA RespondLifecycle ==
  ASSUME TypeOK, Lifecycle, u.upstream_request,
         NEW w, SameObject(w), NEW c \in CType, c.open = conn.open,
         NEW v, NEW close \in BOOLEAN, HandleRawResponse(v, close, w, c),
         current' = current, posted' \subseteq posted
  PROVE  Lifecycle'
<1>1. current \in Requests /\ u.live /\ u.conn_data /\ conn.open
  BY BoundsAssumption DEF Lifecycle, TypeOK, Requests
<1>2. /\ u'.live = u.live /\ u'.responded = TRUE
      /\ u'.request_complete = u.request_complete
      /\ \/ /\ u'.upstream_request = u.upstream_request /\ u'.conn_data = u.conn_data
            /\ conn' = c /\ guard' = guard
            /\ phase' = [phase EXCEPT ![current] = "done"]
         \/ /\ u'.upstream_request = FALSE /\ u'.conn_data = FALSE
            /\ guard' = [guard EXCEPT ![current] = FALSE]
            /\ phase' = [phase EXCEPT ![current] = "reset"]
  BY <1>1, RespondShape
<1>3. /\ phase \in [Requests -> Phases] /\ guard \in [Requests -> BOOLEAN]
      /\ posted \subseteq Requests
  BY DEF TypeOK
<1>4. CASE /\ u'.upstream_request = u.upstream_request /\ u'.conn_data = u.conn_data
           /\ conn' = c /\ guard' = guard
           /\ phase' = [phase EXCEPT ![current] = "done"]
  BY <1>1, <1>2, <1>3, <1>4 DEF Lifecycle
<1>5. CASE /\ u'.upstream_request = FALSE /\ u'.conn_data = FALSE
           /\ guard' = [guard EXCEPT ![current] = FALSE]
           /\ phase' = [phase EXCEPT ![current] = "reset"]
  BY <1>1, <1>2, <1>3, <1>5 DEF Lifecycle
<1> QED
  BY <1>2, <1>4, <1>5

\* A verdict that answers no other request keeps Given, given to a router that has not
\* reset; onResetStream and onPoolFailure come first and leave the stream reset.
LEMMA GiveVerdict ==
  ASSUME TypeOK, Given, current \in Requests,
         NEW v \in Verdicts, v.of \in {0, current}, NEW p \in Phases,
         verdicts' = [verdicts EXCEPT ![current] = Append(@, v)],
         phase' = [phase EXCEPT ![current] = p],
         p \in {"done", "reset"},
         phase[current] # "reset",
         v.what = "reset" => (p = "reset" /\ phase[current] \in {"encoding", "sent"})
  PROVE  Given'
<1> SUFFICES ASSUME NEW r \in Requests
             PROVE  /\ phase'[r] \in {"new", "pooling", "encoding", "sent"} =>
                         verdicts'[r] = << >>
                    /\ (\E i \in 1..Len(verdicts'[r]) : verdicts'[r][i].what = "reset") =>
                         (phase'[r] = "reset" /\ Len(verdicts'[r]) = 1)
                    /\ \A i \in 1..Len(verdicts'[r]) : verdicts'[r][i].of \in {0, r}
  BY DEF Given
<1>1. CASE r # current
  <2>1. verdicts'[r] = verdicts[r] /\ phase'[r] = phase[r]
    BY <1>1 DEF TypeOK
  <2> DEFINE s == verdicts[r]
  <2>2. /\ phase[r] \in {"new", "pooling", "encoding", "sent"} => s = << >>
        /\ (\E i \in 1..Len(s) : s[i].what = "reset") => (phase[r] = "reset" /\ Len(s) = 1)
        /\ \A i \in 1..Len(s) : s[i].of \in {0, r}
    BY DEF Given
  <2>3. verdicts'[r] = s
    BY <2>1
  <2> HIDE DEF s
  <2> QED
    BY SMTT(60), <2>1, <2>2, <2>3
<1>2. CASE r = current
  <2> DEFINE s == verdicts[current]
  <2>1. verdicts'[r] = Append(s, v) /\ phase'[r] = p /\ s \in Seq(Verdicts)
    BY <1>2 DEF TypeOK
  <2>2. /\ \A i \in 1..Len(s) : s[i].of \in {0, current}
        /\ \A i \in 1..Len(s) : s[i].what # "reset"
        /\ phase[current] \in {"encoding", "sent"} => s = << >>
    BY DEF Given
  <2> HIDE DEF s
  <2>3. /\ Len(Append(s, v)) = Len(s) + 1 /\ Len(s) \in Nat
        /\ \A i \in 1..Len(s) : Append(s, v)[i] = s[i]
        /\ Append(s, v)[Len(s) + 1] = v
    BY <2>1
  <2>4. \A i \in 1..(Len(s) + 1) : Append(s, v)[i].of \in {0, current}
    BY <2>2, <2>3
  <2>5. ASSUME NEW i \in 1..(Len(s) + 1), Append(s, v)[i].what = "reset"
        PROVE  p = "reset" /\ Len(s) = 0
    <3>1. i = Len(s) + 1
      BY <2>2, <2>3, <2>5
    <3>2. v.what = "reset"
      BY <2>3, <2>5, <3>1
    <3>3. s = << >>
      BY <2>2, <3>2
    <3> QED
      BY <3>2, <3>3
  <2>6. /\ p \notin {"new", "pooling", "encoding", "sent"}
        /\ (\E i \in 1..Len(Append(s, v)) : Append(s, v)[i].what = "reset") =>
             (p = "reset" /\ Len(Append(s, v)) = 1)
        /\ \A i \in 1..Len(Append(s, v)) : Append(s, v)[i].of \in {0, current}
    <3>1. Len(s) = 0 => Len(Append(s, v)) = 1
      BY <2>3
    <3>2. Len(Append(s, v)) = Len(s) + 1
      BY <2>3
    <3>3. p \notin {"new", "pooling", "encoding", "sent"}
      OBVIOUS
    <3> QED
      BY <3>1, <3>2, <3>3, <2>4, <2>5, Zenon
  <2> QED
    BY <1>2, <2>1, <2>6, Zenon
<1> QED
  BY <1>1, <1>2

\* What a read does.  It is not taken; or it brings an answer, which is the next packet of
\* the stream or else closes the connection; or it leaves the request waiting for the rest.
Ignored ==
  /\ \E n \in Nat, end \in BOOLEAN : conn' = [conn EXCEPT !.kept = n, !.ended = end]
  /\ UNCHANGED <<phase, u, guard, verdicts>>

Splits(b, c) ==
  /\ b \in Seq(Parts) /\ c \in CType
  /\ c.owed = conn.owed /\ c.open = conn.open
  /\ Stream \in Seq(Parts) /\ Len(Stream) = Len(b) + Len(c.wire)
  /\ \A i \in 1..Len(b) : b[i] = Stream[i]
  /\ \A i \in 1..Len(c.wire) : c.wire[i] = Stream[Len(b) + i]

Answered(b, k, c) ==
  \E v \in Verdicts, close \in BOOLEAN, w \in UType :
    /\ SameObject(w) /\ HandleRawResponse(v, close, w, c)
    /\ v.what # "reset"
    /\ v.of # 0 => (k + 2 <= Len(b) /\ b[k + 1].part = "head" /\ b[k + 1].of = v.of)
    /\ v.of = 0 => close

StillWaiting(b, k, c) ==
  /\ u' = [u EXCEPT !.buffer = SubSeq(b, k + 1, Len(b))]
  /\ conn' = c
  /\ UNCHANGED <<phase, guard, verdicts>>

\* A read is ignored, ends with an answer, or waits for more of the stream.
LEMMA ReadCases ==
  ASSUME TypeOK, Lifecycle, NEW n \in Nat, NEW end \in BOOLEAN, OnUpstreamData(n, end)
  PROVE  /\ UNCHANGED <<current, posted, heartbeats>>
         /\ \/ Ignored
            \/ /\ u.upstream_request /\ ~u.responded
               /\ \E b \in Seq(Parts), c \in CType : \E k \in 0..Len(b) :
                    Splits(b, c) /\ (Answered(b, k, c) \/ StillWaiting(b, k, c))
<1> DEFINE b == u.buffer \o SubSeq(conn.wire, 1, n)
           c == [conn EXCEPT !.wire = SubSeq(@, n + 1, Len(@)), !.kept = 0, !.ended = end]
           spent == [u EXCEPT !.buffer = << >>]
<1>1. n <= Len(conn.wire) /\ current \in Requests
  BY BoundsAssumption DEF OnUpstreamData, TypeOK, Lifecycle, Requests
<1>2. Splits(b, c)
  BY <1>1, TakenRead DEF Splits
<1>3. spent \in UType /\ SameObject(spent)
  <2>1. u \in UType
    BY TypeFolded
  <2>2. << >> \in Seq(Parts)
    OBVIOUS
  <2> QED
    BY <2>1, <2>2 DEF UType, SameObject
<1>4. UNCHANGED <<current, posted, heartbeats>>
  BY DEF OnUpstreamData
<1>5. CASE ~u.upstream_request \/ u.responded \/ n = 0
  BY <1>4, <1>5 DEF OnUpstreamData, Ignored
<1>6. CASE ~(~u.upstream_request \/ u.responded \/ n = 0)
  <2>1. ReadResponse(b, end, c)
    BY <1>6 DEF OnUpstreamData
  <2> HIDE DEF b, c, spent
  <2>2. PICK k \in 0..Len(b) :
          LET rest == SubSeq(b, k + 1, Len(b)) IN
          /\ Drained(b, k)
          /\ \/ HandleRawResponse(Verdict("misframed", 0), TRUE, spent, c)
             \/ /\ Whole(rest)
                /\ HandleRawResponse(Verdict(rest[1].kind, rest[1].of),
                                     ClosesAfter(rest[1].kind), spent, c)
             \/ HandleRawResponse(Verdict("truncated", 0), TRUE, spent, c)
             \/ StillWaiting(b, k, c)
    BY <2>1 DEF ReadResponse, StillWaiting, spent
  <2> DEFINE rest == SubSeq(b, k + 1, Len(b))
  <2>3. Whole(rest) => /\ k + 2 <= Len(b) /\ rest[1] = b[k + 1]
                       /\ rest[1].part = "head"
                       /\ rest[1].kind \in Answers /\ rest[1].of \in Requests
    BY <1>2, <2>2, RestFacts DEF Splits
  <2> HIDE DEF rest
  <2>4. ASSUME NEW what \in {"misframed", "truncated"},
               HandleRawResponse(Verdict(what, 0), TRUE, spent, c)
        PROVE  Answered(b, k, c)
    <3> DEFINE v == Verdict(what, 0)
    <3>1. v \in Verdicts /\ v.of = 0 /\ v.what # "reset"
      BY VerdictFacts
    <3> HIDE DEF v
    <3>2. HandleRawResponse(v, TRUE, spent, c)
      BY <2>4 DEF v
    <3> QED
      BY <1>3, <3>1, <3>2 DEF Answered
  <2>5. ASSUME Whole(rest),
               HandleRawResponse(Verdict(rest[1].kind, rest[1].of),
                                 ClosesAfter(rest[1].kind), spent, c)
        PROVE  Answered(b, k, c)
    <3> DEFINE v == Verdict(rest[1].kind, rest[1].of)
               close == ClosesAfter(rest[1].kind)
    <3>1. v \in Verdicts /\ v.of = rest[1].of /\ v.what = rest[1].kind
      BY <2>3, <2>5, VerdictFacts
    <3>2. v.what # "reset" /\ v.of # 0
      BY <2>3, <2>5, <3>1, BoundsAssumption DEF Answers, Requests
    <3>3. close \in BOOLEAN
      BY DEF ClosesAfter
    <3>4. HandleRawResponse(v, close, spent, c)
      BY <2>5
    <3> HIDE DEF v, close
    <3>5. k + 2 <= Len(b) /\ b[k + 1].part = "head" /\ b[k + 1].of = v.of
      BY <2>3, <2>5, <3>1
    <3> QED
      BY <1>3, <3>1, <3>2, <3>3, <3>4, <3>5 DEF Answered
  <2>6. Answered(b, k, c) \/ StillWaiting(b, k, c)
    BY <2>2, <2>4, <2>5 DEF rest
  <2>7. b \in Seq(Parts) /\ c \in CType
    BY <1>2 DEF Splits
  <2> QED
    BY <1>2, <1>4, <1>6, <2>6, <2>7
<1> QED
  BY SMTT(60), <1>5, <1>6

\* Every step keeps the lifecycle.
LEMMA LifecycleStep ==
  ASSUME TypeOK, Lifecycle, [Next]_vars
  PROVE  Lifecycle'
<1>t. /\ u \in UType /\ conn \in CType
      /\ phase \in [Requests -> Phases] /\ guard \in [Requests -> BOOLEAN]
      /\ posted \subseteq Requests /\ current \in 0..MaxRequests
      /\ Requests = 1..MaxRequests /\ MaxRequests \in Nat
  BY TypeFolded, BoundsAssumption DEF Requests
<1>1. CASE NewStream
  BY <1>1, <1>t DEF NewStream, Lifecycle
<1>2. CASE CancelAnyPendingStream
  BY <1>2, <1>t DEF CancelAnyPendingStream, Enter, Lifecycle
<1>3. CASE OnPoolFailure
  BY <1>3, <1>t DEF OnPoolFailure, Enter, Lifecycle
<1>4. CASE OnPoolReady
  <2>1. current \in Requests /\ phase[current] = "pooling"
    BY <1>4, <1>t DEF OnPoolReady
  <2>2. /\ u'.live /\ u'.upstream_request /\ u'.conn_data
        /\ ~u'.responded /\ ~u'.request_complete
    BY <1>4 DEF OnPoolReady, NoUpstream
  <2>3. conn'.open /\ current' = current /\ posted' = posted
    BY <1>4, <1>t DEF OnPoolReady, CType
  <2>4. current \notin posted /\ \A r \in Requests : ~guard[r]
    BY <2>1 DEF Lifecycle
  <2>5. /\ phase' = [phase EXCEPT ![current] = "encoding"]
        /\ guard' = [guard EXCEPT ![current] = TRUE]
    BY <1>4 DEF OnPoolReady, Enter
  <2>6. \A r \in Requests : guard'[r] => r = current
    BY <1>t, <2>1, <2>4, <2>5
  <2>7. /\ phase'[current] = "encoding"
        /\ \A r \in Requests : r # current => phase'[r] = phase[r]
    BY <1>t, <2>1, <2>5
  <2>8. /\ \A r \in Requests : r > current => phase'[r] = "new"
        /\ \A r \in posted : r <= current /\ phase'[r] \notin {"new", "pooling"}
    BY <1>t, <2>1, <2>4, <2>7 DEF Lifecycle
  <2>9. current # 0
    BY <1>t, <2>1
  <2> QED
    BY <2>2, <2>3, <2>4, <2>6, <2>7, <2>8, <2>9 DEF Lifecycle
<1>5. CASE EncodeEnd
  <2>1. /\ u'.live = u.live /\ u'.upstream_request = u.upstream_request
        /\ u'.conn_data = u.conn_data /\ u'.request_complete
        /\ u'.responded = u.responded /\ u'.buffer = u.buffer
    BY <1>5, <1>t DEF EncodeEnd, UType
  <2>2. conn'.open = conn.open /\ posted' \subseteq posted \cup {current}
    <3>1. CASE WriteRequest
      BY <3>1, <1>t DEF WriteRequest, CType
    <3>2. CASE PostLocalAnswer
      BY <3>2 DEF PostLocalAnswer
    <3> QED
      BY <1>5, <3>1, <3>2 DEF EncodeEnd
  <2>3. /\ u.live /\ phase[current] = "encoding" /\ current' = current /\ guard' = guard
        /\ phase' = [phase EXCEPT ![current] = "sent"]
    BY <1>5 DEF EncodeEnd, Enter
  <2> QED
    BY <1>t, <2>1, <2>2, <2>3 DEF Lifecycle
<1>6. CASE ResetStream
  <2>1. /\ u'.live = u.live /\ ~u'.upstream_request /\ ~u'.conn_data
        /\ u'.request_complete = u.request_complete
    BY <1>6, <1>t DEF ResetStream, Cleanup, UType
  <2>2. /\ u.live /\ guard' = [guard EXCEPT ![current] = FALSE]
        /\ phase' = [phase EXCEPT ![current] = "reset"]
        /\ current' = current /\ posted' = posted
    BY <1>6 DEF ResetStream, Cleanup, Enter
  <2> QED
    BY <1>t, <2>1, <2>2 DEF Lifecycle
<1>7. CASE Destroy
  <2>1. ~u'.live /\ ~u'.upstream_request /\ ~u'.conn_data /\ u'.buffer = << >>
    BY <1>7, <1>t DEF Destroy, Cleanup, UType
  <2>2. /\ u.live /\ guard' = [guard EXCEPT ![current] = FALSE]
        /\ phase' = [phase EXCEPT ![current] = IF phase[current] = "done" THEN "done"
                                               ELSE "reset"]
        /\ current' = current /\ posted' = posted
    BY <1>7 DEF Destroy, Cleanup, Enter
  <2> QED
    BY <1>t, <2>1, <2>2 DEF Lifecycle
<1>8. CASE Read
  <2>1. PICK n \in Nat, end \in BOOLEAN : OnUpstreamData(n, end)
    BY <1>8, BoundsAssumption DEF Read, MaxUnread
  <2>2. current' = current /\ posted' = posted
    BY <2>1, ReadCases
  <2>3. CASE Ignored
    <3>1. conn'.open = conn.open
      BY <2>3, <1>t DEF Ignored, CType
    <3> QED
      BY <2>2, <2>3, <3>1 DEF Ignored, Lifecycle
  <2>4. ASSUME u.upstream_request, ~u.responded,
               NEW b \in Seq(Parts), NEW c \in CType, NEW k \in 0..Len(b), Splits(b, c)
        PROVE  /\ Answered(b, k, c) => Lifecycle'
               /\ StillWaiting(b, k, c) => Lifecycle'
    <3>1. ASSUME Answered(b, k, c) PROVE Lifecycle'
      <4>1. c.open = conn.open
        BY <2>4 DEF Splits
      <4>2. PICK v \in Verdicts, close \in BOOLEAN, w \in UType :
              SameObject(w) /\ HandleRawResponse(v, close, w, c)
        BY <3>1 DEF Answered
      <4> QED
        BY <2>2, <2>4, <4>1, <4>2, RespondLifecycle
    <3>2. ASSUME StillWaiting(b, k, c) PROVE Lifecycle'
      <4>1. /\ u'.live = u.live /\ u'.upstream_request = u.upstream_request
            /\ u'.conn_data = u.conn_data /\ u'.responded = u.responded
            /\ u'.request_complete = u.request_complete
        BY <3>2, <1>t DEF StillWaiting, UType
      <4>2. conn'.open = conn.open /\ phase' = phase /\ guard' = guard
        BY <2>4, <3>2 DEF StillWaiting, Splits
      <4>3. u.live
        BY <2>4 DEF Lifecycle
      <4> QED
        BY <2>2, <4>1, <4>2, <4>3 DEF Lifecycle
    <3> QED
      BY <3>1, <3>2
  <2> QED
    BY <2>1, <2>3, <2>4, ReadCases
<1>9. CASE OnEvent
  <2>1. CASE u.live /\ u.upstream_request
    <3>1. /\ u'.live = u.live /\ ~u'.upstream_request /\ ~u'.conn_data
          /\ u'.request_complete = u.request_complete
      BY <1>9, <2>1, <1>t DEF OnEvent, Cleanup, UType
    <3>2. /\ guard' = [guard EXCEPT ![current] = FALSE]
          /\ current' = current /\ posted' = posted
          /\ \/ u.responded /\ phase' = phase
             \/ phase' = [phase EXCEPT ![current] = "reset"]
      BY <1>9, <2>1 DEF OnEvent, Cleanup, Enter
    <3> QED
      BY <1>t, <2>1, <3>1, <3>2 DEF Lifecycle
  <2>2. CASE ~(u.live /\ u.upstream_request)
    <3>1. UNCHANGED <<phase, u, guard, current, posted>>
      BY <1>9, <2>2 DEF OnEvent
    <3>2. ~u.conn_data
      BY <2>2 DEF Lifecycle
    <3> QED
      BY <3>1, <3>2 DEF Lifecycle
  <2> QED
    BY <2>1, <2>2
<1>10. CASE AnyPosted
  <2>1. PICK r \in Requests : RunPosted(r)
    BY <1>10 DEF AnyPosted
  <2>2. current' = current /\ posted' \subseteq posted
    BY <2>1 DEF RunPosted
  <2>3. CASE guard[r]
    <3>1. u.upstream_request
      BY <2>3 DEF Lifecycle
    <3>2. HandleRawResponse(Verdict("local", 0), FALSE, u, conn)
      BY <2>1, <2>3 DEF RunPosted
    <3>3. SameObject(u)
      BY <1>t DEF SameObject
    <3> QED
      BY ZenonT(60), <1>t, <2>2, <3>1, <3>2, <3>3, RespondLifecycle
  <2>4. CASE ~guard[r]
    <3>1. UNCHANGED <<phase, u, guard, conn>>
      BY <2>1, <2>4 DEF RunPosted
    <3> QED
      BY <2>2, <3>1 DEF Lifecycle
  <2> QED
    BY <2>3, <2>4
<1>11. CASE AnyAnswer \/ SendHeartbeat \/ EndStream
  <2>1. UNCHANGED <<phase, u, guard, current, posted>>
    BY <1>11 DEF AnyAnswer, Answer, SendHeartbeat, EndStream
  <2>2. conn'.open = conn.open
    BY <1>11, <1>t DEF AnyAnswer, Answer, SendHeartbeat, EndStream, CType
  <2> QED
    BY <2>1, <2>2 DEF Lifecycle
<1>12. CASE UNCHANGED vars
  BY <1>12 DEF vars, Lifecycle
<1> QED
  BY <1>1, <1>2, <1>3, <1>4, <1>5, <1>6, <1>7, <1>8, <1>9, <1>10, <1>11, <1>12 DEF Next

Early == {"new", "pooling", "encoding", "sent"}

\* A step that gives nothing, never starts a request over and never revives a reset one.
LEMMA GiveNothing ==
  ASSUME Given, verdicts' = verdicts,
         \A r \in Requests : /\ phase'[r] \in Early => phase[r] \in Early
                             /\ phase[r] = "reset" => phase'[r] = "reset"
  PROVE  Given'
  BY Zenon DEF Given, Early

\* Every step keeps Given, and none gives anything to a router that has reset.
LEMMA GivenStep ==
  ASSUME TypeOK, Lifecycle, Given, Waiting, [Next]_vars
  PROVE  /\ Given'
         /\ \A r \in Requests : phase[r] = "reset" => verdicts'[r] = verdicts[r]
<1>t. /\ u \in UType /\ conn \in CType
      /\ phase \in [Requests -> Phases] /\ verdicts \in [Requests -> Seq(Verdicts)]
      /\ current \in 0..MaxRequests /\ Requests = 1..MaxRequests /\ MaxRequests \in Nat
  BY TypeFolded, BoundsAssumption DEF Requests
<1>g. ASSUME current \in Requests,
             NEW v \in Verdicts, v.of \in {0, current},
             NEW p \in {"done", "reset"},
             verdicts' = [verdicts EXCEPT ![current] = Append(@, v)],
             phase' = [phase EXCEPT ![current] = p],
             phase[current] # "reset",
             v.what = "reset" => (p = "reset" /\ phase[current] \in {"encoding", "sent"})
      PROVE  /\ Given'
             /\ \A r \in Requests : phase[r] = "reset" => verdicts'[r] = verdicts[r]
  <2>1. p \in Phases
    BY <1>g DEF Phases
  <2>2. Given'
    BY <1>g, <2>1, GiveVerdict
  <2> QED
    BY <1>g, <1>t, <2>2
<1>n. ASSUME verdicts' = verdicts,
             \A r \in Requests : /\ phase'[r] \in Early => phase[r] \in Early
                                 /\ phase[r] = "reset" => phase'[r] = "reset"
      PROVE  /\ Given'
             /\ \A r \in Requests : phase[r] = "reset" => verdicts'[r] = verdicts[r]
  BY <1>n, GiveNothing
<1>h. ASSUME u.upstream_request, NEW v \in Verdicts, NEW close \in BOOLEAN,
             NEW w, SameObject(w), NEW c \in CType, HandleRawResponse(v, close, w, c),
             v.of \in {0, current}, v.what # "reset"
      PROVE  /\ Given'
             /\ \A r \in Requests : phase[r] = "reset" => verdicts'[r] = verdicts[r]
  <2>1. current \in Requests /\ phase[current] # "reset"
    BY <1>h, <1>t DEF Lifecycle
  <2>2. /\ verdicts' = [verdicts EXCEPT ![current] = Append(@, v)]
        /\ \/ phase' = [phase EXCEPT ![current] = "done"]
           \/ phase' = [phase EXCEPT ![current] = "reset"]
    BY <1>h DEF HandleRawResponse, Give, Enter
  <2>3. CASE phase' = [phase EXCEPT ![current] = "done"]
    BY <1>g, <1>h, <2>1, <2>2, <2>3
  <2>4. CASE phase' = [phase EXCEPT ![current] = "reset"]
    BY <1>g, <1>h, <2>1, <2>2, <2>4
  <2> QED
    BY <2>2, <2>3, <2>4
<1>1. CASE NewStream
  <2>1. phase[current + 1] = "new" /\ current + 1 \in Requests
    BY <1>1, <1>t DEF NewStream, Lifecycle
  <2>2. verdicts' = verdicts /\ phase' = [phase EXCEPT ![current + 1] = "pooling"]
    BY <1>1 DEF NewStream
  <2>3. \A r \in Requests : /\ phase'[r] \in Early => phase[r] \in Early
                            /\ phase[r] = "reset" => phase'[r] = "reset"
    BY <1>t, <2>1, <2>2 DEF Early
  <2> QED
    BY <1>n, <2>2, <2>3
<1>2. CASE CancelAnyPendingStream \/ ResetStream
  <2>1. verdicts' = verdicts /\ phase' = [phase EXCEPT ![current] = "reset"]
    BY <1>2 DEF CancelAnyPendingStream, ResetStream, Enter
  <2>2. \A r \in Requests : /\ phase'[r] \in Early => phase[r] \in Early
                            /\ phase[r] = "reset" => phase'[r] = "reset"
    BY <1>t, <2>1 DEF Early
  <2> QED
    BY <1>n, <2>1, <2>2
<1>3. CASE OnPoolFailure
  <2> DEFINE v == Verdict("failure", 0)
  <2>1. v \in Verdicts /\ v.of = 0 /\ v.what # "reset"
    BY VerdictFacts
  <2>2. /\ verdicts' = [verdicts EXCEPT ![current] = Append(@, v)]
        /\ phase' = [phase EXCEPT ![current] = "reset"]
        /\ current \in Requests /\ phase[current] # "reset"
    BY <1>3, <1>t DEF OnPoolFailure, Give, Enter
  <2> HIDE DEF v
  <2> QED
    BY <1>g, <2>1, <2>2
<1>4. CASE OnPoolReady \/ EncodeEnd
  <2>1. /\ verdicts' = verdicts /\ phase[current] \in Early
        /\ \E p \in Early : phase' = [phase EXCEPT ![current] = p]
    BY <1>4 DEF OnPoolReady, EncodeEnd, Enter, Early
  <2>2. \A r \in Requests : /\ phase'[r] \in Early => phase[r] \in Early
                            /\ phase[r] = "reset" => phase'[r] = "reset"
    BY <1>t, <2>1 DEF Early
  <2> QED
    BY <1>n, <2>1, <2>2
<1>5. CASE Destroy
  <2>1. /\ verdicts' = verdicts
        /\ phase' = [phase EXCEPT ![current] = IF phase[current] = "done" THEN "done"
                                               ELSE "reset"]
    BY <1>5 DEF Destroy, Enter
  <2>2. \A r \in Requests : /\ phase'[r] \in Early => phase[r] \in Early
                            /\ phase[r] = "reset" => phase'[r] = "reset"
    BY <1>t, <2>1 DEF Early
  <2> QED
    BY <1>n, <2>1, <2>2
<1>6. CASE Read
  <2>1. PICK n \in Nat, end \in BOOLEAN : OnUpstreamData(n, end)
    BY <1>6, BoundsAssumption DEF Read, MaxUnread
  <2>2. CASE Ignored
    BY <1>n, <2>2 DEF Ignored
  <2>3. ASSUME u.upstream_request, ~u.responded,
               NEW b \in Seq(Parts), NEW c \in CType, NEW k \in 0..Len(b), Splits(b, c),
               Answered(b, k, c) \/ StillWaiting(b, k, c)
        PROVE  /\ Given'
               /\ \A r \in Requests : phase[r] = "reset" => verdicts'[r] = verdicts[r]
    <3>1. CASE Answered(b, k, c)
      <4>1. PICK v \in Verdicts, close \in BOOLEAN, w \in UType :
              /\ SameObject(w) /\ HandleRawResponse(v, close, w, c)
              /\ v.what # "reset"
              /\ v.of # 0 => (k + 2 <= Len(b) /\ b[k + 1].part = "head" /\ b[k + 1].of = v.of)
              /\ v.of = 0 => close
        BY SMTT(60), <3>1 DEF Answered
      <4>2. Own(Stream, current)
        BY SMTT(60), <2>3 DEF Waiting, Lifecycle
      <4>3. CASE v.of # 0
        <5>1. k + 1 \in 1..Len(b) /\ Len(b) \in Nat /\ Len(c.wire) \in Nat
          BY <2>3, <4>1, <4>3 DEF CType
        <5>2. b[k + 1] = Stream[k + 1] /\ k + 1 \in 1..Len(Stream)
          BY <2>3, <5>1 DEF Splits
        <5>3. v.of \in {0, current}
          BY <4>1, <4>2, <4>3, <5>2 DEF Own
        <5> QED
          BY <1>h, <2>3, <4>1, <5>3
      <4>4. CASE v.of = 0
        BY <1>h, <2>3, <4>1, <4>4
      <4> QED
        BY <4>3, <4>4
    <3>2. CASE StillWaiting(b, k, c)
      BY <1>n, <3>2 DEF StillWaiting
    <3> QED
      BY <2>3, <3>1, <3>2
  <2> QED
    BY <2>1, <2>2, <2>3, ReadCases
<1>7. CASE OnEvent
  <2>1. CASE u.live /\ u.upstream_request /\ ~u.responded
    <3> DEFINE v == Verdict("reset", 0)
    <3>1. v \in Verdicts /\ v.of = 0
      BY VerdictFacts
    <3>2. /\ verdicts' = [verdicts EXCEPT ![current] = Append(@, v)]
          /\ phase' = [phase EXCEPT ![current] = "reset"]
      BY <1>7, <2>1 DEF OnEvent, Give, Enter
    <3>3. current \in Requests /\ phase[current] \in {"encoding", "sent"}
      BY <1>t, <2>1 DEF Lifecycle
    <3> HIDE DEF v
    <3> QED
      BY <1>g, <3>1, <3>2, <3>3
  <2>2. CASE ~(u.live /\ u.upstream_request /\ ~u.responded)
    <3>1. verdicts' = verdicts /\ phase' = phase
      BY <1>7, <2>2 DEF OnEvent
    <3> QED
      BY <1>n, <3>1
  <2> QED
    BY <2>1, <2>2
<1>8. CASE AnyPosted
  <2>1. PICK r \in Requests : RunPosted(r)
    BY <1>8 DEF AnyPosted
  <2>2. CASE guard[r]
    <3> DEFINE v == Verdict("local", 0)
    <3>1. v \in Verdicts /\ v.of = 0 /\ v.what # "reset"
      BY VerdictFacts
    <3>2. u.upstream_request
      BY <2>2 DEF Lifecycle
    <3>3. HandleRawResponse(v, FALSE, u, conn)
      BY <2>1, <2>2 DEF RunPosted
    <3>4. SameObject(u)
      BY <1>t DEF SameObject
    <3> HIDE DEF v
    <3> QED
      BY <1>h, <1>t, <3>1, <3>2, <3>3, <3>4
  <2>3. CASE ~guard[r]
    <3>1. verdicts' = verdicts /\ phase' = phase
      BY <2>1, <2>3 DEF RunPosted
    <3> QED
      BY <1>n, <3>1
  <2> QED
    BY <2>2, <2>3
<1>9. CASE AnyAnswer \/ SendHeartbeat \/ EndStream \/ UNCHANGED vars
  <2>1. verdicts' = verdicts /\ phase' = phase
    BY <1>9 DEF AnyAnswer, Answer, SendHeartbeat, EndStream, vars
  <2> QED
    BY <1>n, <2>1
<1> QED
  BY <1>1, <1>2, <1>3, <1>4, <1>5, <1>6, <1>7, <1>8, <1>9 DEF Next

-----------------------------------------------------------------------------
\* The connection.

\* The stream after a packet was appended to it.
LEMMA StreamAppend ==
  ASSUME TypeOK, NEW k \in Seq(Parts), u' = u, conn'.wire = conn.wire \o k
  PROVE  /\ Stream \in Seq(Parts) /\ Stream' \in Seq(Parts)
         /\ Len(Stream') = Len(Stream) + Len(k)
         /\ \A i \in 1..Len(Stream) : Stream'[i] = Stream[i]
         /\ \A i \in 1..Len(k) : Stream'[Len(Stream) + i] = k[i]
<1>1. u.buffer \in Seq(Parts) /\ conn.wire \in Seq(Parts)
  BY DEF TypeOK
<1> DEFINE x == u.buffer \o conn.wire
<1>2. x \in Seq(Parts)
  BY <1>1
<1>3. Stream = x
  BY DEF Stream
<1>4. Stream' = x \o k
  <2>1. Stream' = u.buffer \o (conn.wire \o k)
    BY DEF Stream
  <2>2. \A p, q \in Seq(Parts) : (p \o q) \o k = p \o (q \o k)
    BY ConcatAssociative
  <2> QED
    BY <1>1, <2>1, <2>2, Zenon
<1> HIDE DEF x
<1>5. x \o k \in Seq(Parts) /\ Len(x \o k) = Len(x) + Len(k)
  BY <1>2
<1>6. \A i \in 1..Len(x) : (x \o k)[i] = x[i]
  BY <1>2
<1>7. ASSUME NEW i \in 1..Len(k)
      PROVE  (x \o k)[Len(x) + i] = k[i]
  BY <1>2
<1> QED
  BY <1>2, <1>3, <1>4, <1>5, <1>6, <1>7

\* Heartbeats behind a stream leave what is said of it.
LEMMA HeartbeatBehind ==
  ASSUME NEW r, NEW s \in Seq(Parts), NEW t \in Seq(Parts), NEW k \in Seq(Parts),
         Len(t) = Len(s) + Len(k),
         \A i \in 1..Len(s) : t[i] = s[i],
         \A i \in 1..Len(k) : t[Len(s) + i] = k[i],
         NoAnswer(k)
  PROVE  /\ NoAnswer(s) => NoAnswer(t)
         /\ Own(s, r) => Own(t, r)
         /\ OneAnswer(s) => OneAnswer(t)
<1>1. Len(s) \in Nat /\ Len(k) \in Nat
  OBVIOUS
<1>2. ASSUME NEW i \in 1..Len(t)
      PROVE  (i \in 1..Len(s) /\ t[i] = s[i]) \/ (i \notin 1..Len(s) /\ t[i].of = 0)
  <2>1. CASE i \in 1..Len(s)
    BY <2>1
  <2>2. CASE i \notin 1..Len(s)
    <3> DEFINE j == i - Len(s)
    <3>1. j \in 1..Len(k) /\ i = Len(s) + j
      BY <1>1, <2>2
    <3> HIDE DEF j
    <3>2. t[i] = k[j]
      BY <3>1
    <3> QED
      BY <2>2, <3>1, <3>2 DEF NoAnswer
  <2> QED
    BY <2>1, <2>2
<1>3. NoAnswer(s) => NoAnswer(t)
  BY <1>2 DEF NoAnswer
<1>4. Own(s, r) => Own(t, r)
  BY <1>2 DEF Own
<1>5. OneAnswer(s) => OneAnswer(t)
  BY <1>2 DEF OneAnswer
<1> QED
  BY <1>3, <1>4, <1>5

\* The first answer behind a stream that has none.
LEMMA AnswerBehind ==
  ASSUME NEW r, NEW s \in Seq(Parts), NEW t \in Seq(Parts),
         Len(t) = Len(s) + 2,
         \A i \in 1..Len(s) : t[i] = s[i],
         t[Len(s) + 1].of = r, t[Len(s) + 2].of = r, t[Len(s) + 2].part = "body",
         NoAnswer(s)
  PROVE  Own(t, r) /\ OneAnswer(t)
<1>1. Len(s) \in Nat
  OBVIOUS
<1>2. ASSUME NEW i \in 1..Len(t)
      PROVE  \/ t[i].of = 0
             \/ i = Len(s) + 1 /\ t[i].of = r
             \/ i = Len(s) + 2 /\ t[i].of = r /\ t[i].part = "body"
  <2>1. CASE i \in 1..Len(s)
    BY <2>1 DEF NoAnswer
  <2> QED
    BY <1>1, <2>1
<1>3. Own(t, r)
  BY <1>2 DEF Own
<1>4. OneAnswer(t)
  <2> SUFFICES ASSUME NEW i \in 1..Len(t), t[i].of # 0, t[i].part = "head",
                      NEW j \in 1..Len(t), j > i + 1
               PROVE  t[j].of = 0
    BY DEF OneAnswer
  <2>1. i = Len(s) + 1
    BY <1>2
  <2> QED
    BY <1>1, <2>1
<1> QED
  BY <1>3, <1>4

\* The stream is made of what was read and what was not.
LEMMA StreamParts ==
  ASSUME TypeOK
  PROVE  /\ Stream \in Seq(Parts) /\ Len(Stream) = Len(u.buffer) + Len(conn.wire)
         /\ NoAnswer(Stream) => NoAnswer(conn.wire)
         /\ (u.buffer = << >> /\ NoAnswer(conn.wire)) => NoAnswer(Stream)
<1> DEFINE s == u.buffer
           t == conn.wire
<1>1. s \in Seq(Parts) /\ t \in Seq(Parts)
  BY DEF TypeOK
<1>2. Stream = s \o t
  BY DEF Stream
<1> HIDE DEF s, t
<1>3. s \o t \in Seq(Parts) /\ Len(s \o t) = Len(s) + Len(t)
  BY <1>1
<1>4. ASSUME NEW i \in 1..Len(t)
      PROVE  (s \o t)[Len(s) + i] = t[i] /\ Len(s) + i \in 1..Len(s \o t)
  BY <1>1, <1>3
<1>5. NoAnswer(s \o t) => NoAnswer(t)
  <2> SUFFICES ASSUME NoAnswer(s \o t), NEW i \in 1..Len(t)
               PROVE  t[i].of = 0
    BY DEF NoAnswer
  <2> QED
    BY <1>4 DEF NoAnswer
<1>6. (s = << >> /\ NoAnswer(t)) => NoAnswer(s \o t)
  <2> SUFFICES ASSUME s = << >>, NoAnswer(t)
               PROVE  NoAnswer(s \o t)
    OBVIOUS
  <2>1. s \o t = t
    BY <1>1
  <2> QED
    BY <2>1
<1> QED
  BY <1>2, <1>3, <1>5, <1>6 DEF s, t

\* Without an answer there is at most one, and none of another request.
LEMMA NoneIsFine ==
  ASSUME NEW s, NEW r, NoAnswer(s)
  PROVE  Own(s, r) /\ OneAnswer(s)
  BY DEF NoAnswer, Own, OneAnswer

\* A closed connection owes nothing.
LEMMA ClosedSettled == Settled(Closed)
  BY DEF Settled, Closed, NoAnswer

\* A read that brings the answer leaves nothing of it behind.
LEMMA AnswerTaken ==
  ASSUME TypeOK, Waiting, u.conn_data, ~u.responded,
         NEW b \in Seq(Parts), NEW c \in CType, NEW k \in 0..Len(b), Splits(b, c),
         k + 2 <= Len(b), b[k + 1].part = "head", b[k + 1].of # 0
  PROVE  Settled(c)
<1>1. /\ OneAnswer(Stream) /\ (conn.owed # {} => NoAnswer(Stream))
      /\ Len(b) \in Nat /\ Len(c.wire) \in Nat
  BY DEF Waiting, CType
<1>2. k + 1 \in 1..Len(b) /\ Len(Stream) = Len(b) + Len(c.wire)
  BY <1>1 DEF Splits
<1>3. /\ k + 1 \in 1..Len(Stream) /\ Stream[k + 1].part = "head"
      /\ Stream[k + 1].of # 0
  BY <1>1, <1>2 DEF Splits
<1>4. c.owed = {}
  BY <1>1, <1>3 DEF NoAnswer, Splits
<1>5. ASSUME NEW i \in 1..Len(c.wire)
      PROVE  c.wire[i].of = 0
  <2>1. Len(b) + i \in 1..Len(Stream) /\ Len(b) + i > (k + 1) + 1
    BY <1>1, <1>2
  <2>2. Stream[Len(b) + i].of = 0
    BY <1>1, <1>3, <2>1 DEF OneAnswer
  <2> QED
    BY <2>2 DEF Splits
<1> QED
  BY <1>4, <1>5 DEF Settled, NoAnswer

\* A read that leaves the request waiting drops only heartbeats' places from the stream.
LEMMA WaitingKept ==
  ASSUME TypeOK, Waiting, u.conn_data, ~u.responded,
         NEW b \in Seq(Parts), NEW c \in CType, NEW k \in 0..Len(b), Splits(b, c),
         StillWaiting(b, k, c), current' = current, posted' = posted
  PROVE  Waiting'
<1>1. /\ u'.request_complete = u.request_complete
      /\ u'.buffer = SubSeq(b, k + 1, Len(b))
      /\ conn' = c /\ c.owed = conn.owed
  BY SMTT(60), TypeFolded DEF StillWaiting, UType, Splits
<1>2. Stream' = SubSeq(b, k + 1, Len(b)) \o c.wire
  BY <1>1 DEF Stream
<1>3. /\ Stream \in Seq(Parts) /\ c.wire \in Seq(Parts) /\ Len(Stream) = Len(b) + Len(c.wire)
      /\ \A i \in 1..Len(b) : b[i] = Stream[i]
      /\ \A i \in 1..Len(c.wire) : c.wire[i] = Stream[Len(b) + i]
  BY DEF Splits, CType
<1>4. /\ Len(Stream') = Len(Stream) - k
      /\ \A i \in 1..Len(Stream') : Stream'[i] = Stream[k + i]
  <2> DEFINE w == c.wire
             y == Stream
             q == SubSeq(b, k + 1, Len(b))
  <2>1. /\ y \in Seq(Parts) /\ w \in Seq(Parts) /\ Len(y) = Len(b) + Len(w)
        /\ \A i \in 1..Len(b) : b[i] = y[i]
        /\ \A i \in 1..Len(w) : w[i] = y[Len(b) + i]
    BY <1>3
  <2>2. Stream' = q \o w
    BY <1>2
  <2> HIDE DEF w, y
  <2>3. Len(q \o w) = Len(y) - k /\ \A i \in 1..Len(q \o w) : (q \o w)[i] = y[k + i]
    <3>1. q \in Seq(Parts) /\ Len(q) = Len(b) - k /\ \A i \in 1..(Len(b) - k) : q[i] = b[k + i]
      BY SuffixParts
    <3> HIDE DEF q
    <3>2. Len(q \o w) = Len(q) + Len(w)
      BY <2>1, <3>1
    <3>3. \A i \in 1..Len(q) : (q \o w)[i] = q[i]
      BY <2>1, <3>1
    <3>4. ASSUME NEW i \in 1..Len(w)
          PROVE  (q \o w)[Len(q) + i] = w[i]
      BY SMTT(60), <2>1, <3>1
    <3>5. Len(b) \in Nat /\ Len(w) \in Nat /\ Len(q) \in Nat
      BY <2>1, <3>1
    <3>6. ASSUME NEW i \in 1..Len(q \o w)
          PROVE  (q \o w)[i] = y[k + i]
      <4>1. CASE i \in 1..Len(q)
        <5>1. k + i \in 1..Len(b) /\ (q \o w)[i] = b[k + i]
          BY <3>1, <3>3, <3>5, <4>1
        <5> QED
          BY <2>1, <5>1
      <4>2. CASE i \notin 1..Len(q)
        <5> DEFINE j == i - Len(q)
        <5>1. j \in 1..Len(w) /\ i = Len(q) + j /\ k + i = Len(b) + j
          BY <3>1, <3>2, <3>5, <4>2
        <5> HIDE DEF j
        <5>2. (q \o w)[i] = w[j]
          BY <3>4, <5>1
        <5> QED
          BY <2>1, <5>1, <5>2
      <4> QED
        BY <4>1, <4>2
    <3>7. Len(q \o w) = Len(y) - k
      BY <2>1, <3>1, <3>2, <3>5
    <3> QED
      BY <3>6, <3>7
  <2> QED
    BY <2>2, <2>3 DEF y
<1>5. ASSUME NEW i \in 1..Len(Stream')
      PROVE  k + i \in 1..Len(Stream) /\ Stream'[i] = Stream[k + i]
  BY <1>3, <1>4
<1>6. /\ Own(Stream, current) => Own(Stream', current)
      /\ NoAnswer(Stream) => NoAnswer(Stream')
  BY <1>5 DEF Own, NoAnswer
<1>7. OneAnswer(Stream) => OneAnswer(Stream')
  <2> SUFFICES ASSUME OneAnswer(Stream), NEW i \in 1..Len(Stream'), Stream'[i].of # 0,
                      Stream'[i].part = "head", NEW j \in 1..Len(Stream'), j > i + 1
               PROVE  Stream'[j].of = 0
    BY DEF OneAnswer
  <2>1. k + j > (k + i) + 1
    BY <1>4
  <2> QED
    BY <1>5, <2>1 DEF OneAnswer
<1> QED
  BY <1>1, <1>6, <1>7 DEF Waiting, Unwritten

\* A step that leaves the object, what it read and what it can read, as they were.
LEMMA ExchangeKept ==
  ASSUME Waiting, HandedOn,
         u' = u, conn'.wire = conn.wire, conn'.owed = conn.owed,
         current' = current \/ ~u.conn_data,
         posted' \subseteq posted
  PROVE  Waiting' /\ HandedOn'
<1>1. Stream' = Stream
  BY DEF Stream
<1>2. Settled(conn') <=> Settled(conn)
  BY DEF Settled
<1>3. HandedOn'
  BY <1>2 DEF HandedOn
<1>4. Waiting'
  BY <1>1 DEF Waiting, Unwritten
<1> QED
  BY <1>3, <1>4

\* An answer leaves the connection settled, or about to close.
LEMMA ExchangeAnswered ==
  ASSUME TypeOK, current \in Requests, u.conn_data,
         NEW w, SameObject(w), NEW c \in CType, NEW v, NEW close \in BOOLEAN,
         HandleRawResponse(v, close, w, c),
         u.to_close \/ close \/ Settled(c)
  PROVE  Waiting' /\ HandedOn'
<1>1. /\ u'.responded = TRUE
      /\ u'.to_close = (u.to_close \/ close)
      /\ \/ u'.conn_data = u.conn_data /\ conn' = c
         \/ u'.conn_data = FALSE /\ conn' = Closed
  BY TypeFolded DEF HandleRawResponse, Cleanup, SameObject, UType
<1>2. Waiting'
  BY <1>1 DEF Waiting
<1>3. HandedOn'
  BY <1>1, ClosedSettled DEF HandedOn
<1> QED
  BY <1>2, <1>3

\* Every step keeps what is said of the connection.
LEMMA ExchangeStep ==
  ASSUME TypeOK, Lifecycle, Waiting, HandedOn, [Next]_vars
  PROVE  Waiting' /\ HandedOn'
<1>t. /\ u \in UType /\ conn \in CType
      /\ current \in 0..MaxRequests /\ Requests = 1..MaxRequests /\ MaxRequests \in Nat
  BY TypeFolded, BoundsAssumption DEF Requests
<1>1. CASE NewStream \/ CancelAnyPendingStream \/ OnPoolFailure
  <2>1. /\ u' = u /\ conn' = conn /\ posted' = posted
        /\ current' = current \/ ~u.live
    BY <1>1 DEF NewStream, CancelAnyPendingStream, OnPoolFailure
  <2>2. current' = current \/ ~u.conn_data
    BY <2>1 DEF Lifecycle
  <2> QED
    BY <2>1, <2>2, ExchangeKept
<1>2. CASE OnPoolReady
  <2>1. phase[current] = "pooling" /\ ~u.conn_data
    BY <1>2 DEF OnPoolReady, Lifecycle
  <2>2. /\ u'.conn_data /\ ~u'.responded /\ u'.buffer = << >>
        /\ conn'.wire = conn.wire /\ conn'.owed = conn.owed
    BY <1>2, <1>t DEF OnPoolReady, NoUpstream, CType
  <2>3. conn.owed = {} /\ NoAnswer(conn.wire) /\ conn.wire \in Seq(Parts)
    BY <1>t, <2>1 DEF HandedOn, Settled, CType
  <2>4. Stream' = conn.wire
    BY <2>2, <2>3 DEF Stream
  <2>5. NoAnswer(Stream')
    BY <2>3, <2>4
  <2>6. Own(Stream', current') /\ OneAnswer(Stream')
    BY <2>5, NoneIsFine
  <2>7. Waiting'
    BY <2>2, <2>3, <2>5, <2>6 DEF Waiting
  <2>8. HandedOn'
    BY <2>2 DEF HandedOn
  <2> QED
    BY <2>7, <2>8
<1>3. CASE EncodeEnd
  <2>1. u.conn_data /\ ~u.responded /\ ~u.request_complete /\ current \notin posted
    BY <1>3 DEF EncodeEnd, Lifecycle
  <2>2. NoAnswer(Stream) /\ conn.owed = {}
    BY <2>1 DEF Waiting, Unwritten
  <2>3. /\ u'.conn_data = u.conn_data /\ u'.responded = u.responded /\ u'.buffer = u.buffer
        /\ u'.request_complete /\ current' = current
    BY <1>3, <1>t DEF EncodeEnd, UType
  <2>4. /\ conn'.wire = conn.wire
        /\ \/ conn'.owed = {current} /\ posted' = posted
           \/ conn'.owed = {}
    <3>1. CASE WriteRequest
      BY <3>1, <1>t, <2>2 DEF WriteRequest, CType
    <3>2. CASE PostLocalAnswer
      BY <3>2, <2>2 DEF PostLocalAnswer
    <3> QED
      BY <1>3, <3>1, <3>2 DEF EncodeEnd
  <2>5. Stream' = Stream
    BY <2>3, <2>4 DEF Stream
  <2>6. NoAnswer(Stream') /\ Own(Stream', current) /\ OneAnswer(Stream')
    BY <2>2, <2>5, NoneIsFine
  <2>7. Waiting'
    BY <2>1, <2>3, <2>4, <2>6 DEF Waiting, Unwritten
  <2>8. HandedOn'
    BY SMTT(60), <2>1, <2>3 DEF HandedOn
  <2> QED
    BY <2>7, <2>8
<1>4. CASE ResetStream
  <2>1. /\ ~u'.conn_data
        /\ conn' = IF u.conn_data THEN Closed ELSE conn
    BY <1>4, <1>t DEF ResetStream, Cleanup, UType
  <2> QED
    BY <2>1, ClosedSettled DEF Waiting, HandedOn
<1>5. CASE Destroy
  <2>1. /\ ~u'.conn_data
        /\ conn' = IF (u.to_close \/ ~u.responded) /\ u.conn_data THEN Closed ELSE conn
    BY <1>5, <1>t DEF Destroy, Cleanup, CloseOnDestroy, UType
  <2> QED
    BY <2>1, ClosedSettled DEF Waiting, HandedOn
<1>6. CASE Read
  <2>1. PICK n \in Nat, end \in BOOLEAN : OnUpstreamData(n, end)
    BY <1>6, BoundsAssumption DEF Read, MaxUnread
  <2>2. current' = current /\ posted' = posted
    BY <2>1, ReadCases
  <2>3. CASE Ignored
    <3>1. u' = u /\ conn'.wire = conn.wire /\ conn'.owed = conn.owed
      BY <1>t, <2>3 DEF Ignored, CType
    <3> QED
      BY <2>2, <3>1, ExchangeKept
  <2>4. ASSUME u.upstream_request, ~u.responded,
               NEW b \in Seq(Parts), NEW c \in CType, NEW k \in 0..Len(b), Splits(b, c),
               Answered(b, k, c) \/ StillWaiting(b, k, c)
        PROVE  Waiting' /\ HandedOn'
    <3>1. current \in Requests /\ u.conn_data
      BY <1>t, <2>4 DEF Lifecycle
    <3>2. CASE Answered(b, k, c)
      <4>1. PICK v \in Verdicts, close \in BOOLEAN, w \in UType :
              /\ SameObject(w) /\ HandleRawResponse(v, close, w, c)
              /\ v.what # "reset"
              /\ v.of # 0 => (k + 2 <= Len(b) /\ b[k + 1].part = "head" /\ b[k + 1].of = v.of)
              /\ v.of = 0 => close
        BY <3>2 DEF Answered
      <4>2. close \/ Settled(c)
        BY <2>4, <3>1, <4>1, AnswerTaken
      <4> QED
        BY SMTT(60), <3>1, <4>1, <4>2, ExchangeAnswered
    <3>3. CASE StillWaiting(b, k, c)
      <4>1. Waiting'
        BY <2>2, <2>4, <3>1, <3>3, WaitingKept
      <4>2. u'.conn_data /\ ~u'.responded
        BY <1>t, <2>4, <3>1, <3>3 DEF StillWaiting, UType
      <4> QED
        BY <4>1, <4>2 DEF HandedOn
    <3> QED
      BY <2>4, <3>2, <3>3
  <2> QED
    BY <2>1, <2>3, <2>4, ReadCases
<1>7. CASE OnEvent
  <2>1. conn' = Closed /\ ~u'.conn_data
    <3>1. CASE u.live /\ u.upstream_request
      BY <1>7, <1>t, <3>1 DEF OnEvent, Cleanup, UType
    <3>2. CASE ~(u.live /\ u.upstream_request)
      BY <1>7, <3>2 DEF OnEvent, Lifecycle
    <3> QED
      BY <3>1, <3>2
  <2> QED
    BY <2>1, ClosedSettled DEF Waiting, HandedOn
<1>8. CASE AnyPosted
  <2>1. PICK r \in Requests : RunPosted(r)
    BY <1>8 DEF AnyPosted
  <2>2. CASE guard[r]
    <3>1. /\ r = current /\ u.upstream_request /\ u.conn_data /\ current \in Requests
          /\ r \in posted
      BY <2>1, <2>2 DEF Lifecycle, RunPosted
    <3>2. HandleRawResponse(Verdict("local", 0), FALSE, u, conn)
      BY <2>1, <2>2 DEF RunPosted
    <3>3. SameObject(u)
      BY <1>t DEF SameObject
    <3>4. u.to_close \/ Settled(conn)
      <4>1. CASE u.responded
        BY <3>1, <4>1 DEF HandedOn
      <4>2. CASE ~u.responded
        <5>1. conn.owed = {} /\ NoAnswer(Stream)
          BY <3>1, <4>2 DEF Waiting, Unwritten
        <5> QED
          BY <5>1, StreamParts DEF Settled
      <4> QED
        BY <4>1, <4>2
    <3> QED
      BY <1>t, <3>1, <3>2, <3>3, <3>4, ExchangeAnswered
  <2>3. CASE ~guard[r]
    <3>1. u' = u /\ conn' = conn /\ current' = current /\ posted' \subseteq posted
      BY <2>1, <2>3 DEF RunPosted
    <3> QED
      BY <3>1, ExchangeKept
  <2> QED
    BY <2>2, <2>3
<1>9. CASE AnyAnswer
  <2>1. PICK r \in Requests, kind \in Answers : Answer(r, kind)
    BY <1>9 DEF AnyAnswer
  <2> DEFINE k == Packet(kind, r)
  <2>2. /\ r \in conn.owed /\ u' = u /\ current' = current /\ posted' = posted
        /\ conn'.owed = conn.owed \ {r} /\ conn'.wire = conn.wire \o k
    BY <1>t, <2>1 DEF Answer, CType
  <2>3. k \in Seq(Parts)
    BY PacketFacts
  <2> HIDE DEF k
  <2>4. CASE u.conn_data /\ ~u.responded
    <3>1. conn.owed = {r} /\ r = current /\ NoAnswer(Stream) /\ ~Unwritten
      BY <2>2, <2>4 DEF Waiting
    <3>2. /\ Stream \in Seq(Parts) /\ Stream' \in Seq(Parts)
          /\ Len(Stream') = Len(Stream) + Len(k)
          /\ \A i \in 1..Len(Stream) : Stream'[i] = Stream[i]
          /\ \A i \in 1..Len(k) : Stream'[Len(Stream) + i] = k[i]
      BY <2>2, <2>3, StreamAppend
    <3>3. /\ Len(k) = 2 /\ k[1].of = r /\ k[2].of = r /\ k[2].part = "body"
          /\ Len(Stream) \in Nat
      BY <3>2, PacketFacts DEF k
    <3>4. /\ Stream'[Len(Stream) + 1] = k[1] /\ Stream'[Len(Stream) + 2] = k[2]
      BY <3>2, <3>3
    <3>5. Own(Stream', r) /\ OneAnswer(Stream')
      <4> DEFINE t == Stream'
      <4>1. /\ t \in Seq(Parts) /\ Len(t) = Len(Stream) + 2
            /\ \A i \in 1..Len(Stream) : t[i] = Stream[i]
            /\ t[Len(Stream) + 1].of = r /\ t[Len(Stream) + 2].of = r
            /\ t[Len(Stream) + 2].part = "body"
        BY <3>2, <3>3, <3>4
      <4> HIDE DEF t
      <4>2. Own(t, r) /\ OneAnswer(t)
        BY <3>1, <3>2, <4>1, AnswerBehind
      <4> QED
        BY <4>2 DEF t
    <3>6. Unwritten' = Unwritten /\ conn'.owed = {}
      BY <2>2, <3>1 DEF Unwritten
    <3>7. Waiting'
      BY <2>2, <3>1, <3>5, <3>6 DEF Waiting
    <3>8. HandedOn'
      BY <2>2, <2>4 DEF HandedOn
    <3> QED
      BY <3>7, <3>8
  <2>5. CASE ~(u.conn_data /\ ~u.responded)
    <3>1. u.conn_data /\ u.responded /\ u.to_close
      BY <2>2, <2>5 DEF HandedOn, Settled
    <3> QED
      BY <2>2, <3>1 DEF Waiting, HandedOn
  <2> QED
    BY <2>4, <2>5
<1>10. CASE SendHeartbeat
  <2> DEFINE k == Packet("heartbeat", 0)
  <2>1. /\ u' = u /\ current' = current /\ posted' = posted
        /\ conn'.owed = conn.owed /\ conn'.wire = conn.wire \o k
    BY <1>t, <1>10 DEF SendHeartbeat, CType
  <2>2. k \in Seq(Parts) /\ NoAnswer(k)
    BY PacketFacts DEF NoAnswer
  <2> HIDE DEF k
  <2>3. /\ Stream \in Seq(Parts) /\ Stream' \in Seq(Parts)
        /\ Len(Stream') = Len(Stream) + Len(k)
        /\ \A i \in 1..Len(Stream) : Stream'[i] = Stream[i]
        /\ \A i \in 1..Len(k) : Stream'[Len(Stream) + i] = k[i]
    BY <2>1, <2>2, StreamAppend
  <2>4. /\ NoAnswer(Stream) => NoAnswer(Stream')
        /\ Own(Stream, current) => Own(Stream', current)
        /\ OneAnswer(Stream) => OneAnswer(Stream')
    BY <2>2, <2>3, HeartbeatBehind
  <2>5. Waiting'
    BY <2>1, <2>4 DEF Waiting, Unwritten
  <2>6. NoAnswer(conn.wire) => NoAnswer(conn'.wire)
    <3> DEFINE s == conn.wire
    <3>1. s \in Seq(Parts)
      BY <1>t DEF CType
    <3> HIDE DEF s
    <3>2. s \o k \in Seq(Parts) /\ Len(s \o k) = Len(s) + Len(k)
      BY <2>2, <3>1
    <3>3. \A i \in 1..Len(s) : (s \o k)[i] = s[i]
      BY <2>2, <3>1
    <3>4. ASSUME NEW i \in 1..Len(k)
          PROVE  (s \o k)[Len(s) + i] = k[i]
      BY <2>2, <3>1
    <3>5. NoAnswer(s) => NoAnswer(s \o k)
      BY <2>2, <3>1, <3>2, <3>3, <3>4, HeartbeatBehind
    <3> QED
      BY <2>1, <3>5 DEF s
  <2>7. HandedOn'
    BY <2>1, <2>6 DEF HandedOn, Settled
  <2> QED
    BY <2>5, <2>7
<1>11. CASE EndStream
  <2>1. /\ u' = u /\ conn'.wire = conn.wire /\ conn'.owed = conn.owed
        /\ current' = current /\ posted' = posted
    BY <1>t, <1>11 DEF EndStream, CType
  <2> QED
    BY <2>1, ExchangeKept
<1>12. CASE UNCHANGED vars
  BY <1>12, ExchangeKept DEF vars
<1> QED
  BY <1>1, <1>2, <1>3, <1>4, <1>5, <1>6, <1>7, <1>8, <1>9, <1>10, <1>11, <1>12 DEF Next

-----------------------------------------------------------------------------
\* The theorems.

\* The invariant holds before the first request.
LEMMA InitIInv == Init => IInv
<1> SUFFICES ASSUME Init
             PROVE  IInv
  OBVIOUS
<1>1. TypeOK
  <2>1. << >> \in Seq(Verdicts)
    OBVIOUS
  <2> QED
    BY <2>1, TypeFolded, ClosedType, NoUpstreamType, BoundsAssumption
       DEF Init, Closed, Phases, Requests
<1>2. Lifecycle
  BY BoundsAssumption DEF Init, Lifecycle, NoUpstream, Closed, Requests
<1>3. Given
  BY SMTT(60) DEF Init, Given
<1>4. Waiting /\ HandedOn
  BY ClosedSettled DEF Init, Waiting, HandedOn, NoUpstream
<1> QED
  BY <1>1, <1>2, <1>3, <1>4 DEF IInv

\* Every step keeps it.
LEMMA StepIInv == IInv /\ [Next]_vars => IInv'
  BY TypeStep, LifecycleStep, GivenStep, ExchangeStep DEF IInv

\* The invariant of the exchange: where the request is, what the router was given and
\* what is still on the connection fit together in every reachable state.
THEOREM ExchangeInvariant == Spec => []IInv
  BY InitIInv, StepIInv, PTL DEF Spec

\* Every variable of the Dubbo upstream keeps its type.
THEOREM TypeCorrect == Spec => []TypeOK
<1>1. IInv => TypeOK
  BY SMTT(60) DEF IInv
<1> QED
  BY <1>1, ExchangeInvariant, PTL

\* A request is only ever given its own answer, for any number of requests on the
\* connection and any number of heartbeats between their answers.
THEOREM OwnAnswerOnly == Spec => []AnswersOwnRequest
<1>1. IInv => AnswersOwnRequest
  <2> SUFFICES ASSUME IInv, NEW r \in Requests
               PROVE  \A i \in DOMAIN verdicts[r] : verdicts[r][i].of \in {0, r}
    BY DEF AnswersOwnRequest
  <2>1. DOMAIN verdicts[r] = 1..Len(verdicts[r])
    BY DEF IInv, TypeOK
  <2> QED
    BY <2>1 DEF IInv, Given
<1> QED
  BY <1>1, ExchangeInvariant, PTL

\* The connection that goes back to the pool owes nothing to the request that used it.
THEOREM PoolGetsSettled == Spec => []ReleasedSettled
<1>1. IInv => ReleasedSettled
  <2> SUFFICES ASSUME IInv, ~u.conn_data
               PROVE  /\ conn.owed = {}
                      /\ \A i \in DOMAIN conn.wire : conn.wire[i].of = 0
    BY DEF ReleasedSettled
  <2>1. DOMAIN conn.wire = 1..Len(conn.wire)
    BY TypeFolded DEF IInv, CType
  <2> QED
    BY <2>1 DEF IInv, HandedOn, Settled, NoAnswer
<1> QED
  BY <1>1, ExchangeInvariant, PTL

\* The lambda posted for a local answer never runs on an object that is gone.
THEOREM PostedObjectAlive == Spec => []PostedFindsObject
<1>1. IInv => PostedFindsObject
  <2> SUFFICES ASSUME IInv, NEW r \in posted, guard[r]
               PROVE  r = current /\ u.live /\ u.upstream_request
    BY DEF PostedFindsObject
  <2>1. r \in Requests
    BY DEF IInv, TypeOK
  <2> QED
    BY <2>1 DEF IInv, Lifecycle
<1> QED
  BY <1>1, ExchangeInvariant, PTL

\* A close of the connection is reported once, and only to a request with no answer.
THEOREM CloseAlone == Spec => []CloseReportedAlone
<1>1. IInv => CloseReportedAlone
  <2> SUFFICES ASSUME IInv, NEW r \in Requests,
                      \E i \in DOMAIN verdicts[r] : verdicts[r][i].what = "reset"
               PROVE  Len(verdicts[r]) = 1
    BY DEF CloseReportedAlone
  <2>1. DOMAIN verdicts[r] = 1..Len(verdicts[r])
    BY DEF IInv, TypeOK
  <2> QED
    BY <2>1 DEF IInv, Given
<1> QED
  BY <1>1, ExchangeInvariant, PTL

\* The router hears nothing of a stream after its reset.
THEOREM SilentOnceReset == Spec => SilentAfterReset
<1>1. IInv /\ [Next]_vars =>
        [\A r \in Requests : phase[r] = "reset" => verdicts'[r] = verdicts[r]]_vars
  BY GivenStep DEF IInv
<1> QED
  BY <1>1, ExchangeInvariant, PTL DEF Spec, SilentAfterReset

=============================================================================
