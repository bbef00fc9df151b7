-------------------------- MODULE SuperCacheProofs ---------------------------
(***************************************************************************)
(* Proofs about SuperCache, for any streams, keys, levels, lifetimes and    *)
(* responses: what a level holds is complete and filed under its own key,   *)
(* a held request is owed an answer, and x-cache-status tells the truth.    *)
(***************************************************************************)
EXTENDS SuperCache, SequenceTheorems, WellFoundedInduction, TLAPS

USE KeysAssumption, TimeAssumption

\* A response that may be stored for k, and one that is stored.
Storable(e, k) ==
  /\ e \in Entries /\ e.key = k /\ e.cacheable /\ e.body = e.total
  /\ e.marks \in Seq({"HIT"})
Stored(e, k) == Storable(e, k) /\ e.body <= LargestBody

\* An answer of a level to a lookup of k.
Answer(e, k) == e \in {None, Empty} \/ Stored(e, k)

\* What is collected of a response on its way to the client.
Partial(f) ==
  /\ f.resp \in Responses /\ f.sent <= f.resp.total
  /\ \/ f.to_cache = None
     \/ /\ f.to_cache \in Entries /\ f.to_cache.key = f.key /\ f.to_cache.cacheable
        /\ f.to_cache.body = f.sent /\ f.to_cache.total = f.resp.total
        /\ f.to_cache.marks \in Seq({"HIT"})

Marked(f) ==
  /\ f.hit => f.marks \in Seq({"HIT"}) /\ f.marks # <<>>
  /\ ~f.hit => f.marks \in Seq({"MISS"})

Pending(f) ==
  /\ Answer(f.pending.entry, f.key)
  /\ f.pending.state # "none" => f.current \in Levels

Good(f) ==
  /\ f.callback <=> f.pc = "lookup"
  /\ f.callback => f.pending.state # "none"
  /\ Pending(f) /\ Marked(f)
  /\ f.pc # "done" => ~f.hit
  /\ f.pc # "body" => f.to_cache = None /\ f.sent = 0
  /\ f.pc = "body" => Partial(f)

Caches == [Levels -> [Keys -> Entries \cup {None}]]
CacheGood(c) ==
  /\ c \in Caches
  /\ \A l \in Levels, k \in Keys : c[l][k] # None => Stored(c[l][k], k)

IInv == TypeOK /\ (\A s \in Streams : Good(stream[s])) /\ CacheGood(cache)

-----------------------------------------------------------------------------
\* The marks for no entry and for an empty one are no entries.
LEMMA NoneIsNoEntry == None \notin Entries /\ Empty \notin Entries /\ None # Empty
  BY DEF None, Empty, Entries

\* The least element of a set of natural numbers is in it.
LEMMA MinIn ==
  ASSUME NEW S, S \subseteq Nat, S # {}
  PROVE  Min(S) \in S
  <1>1. PICK x \in S : \A y \in S : ~(<<y, x>> \in OpToRel(<, Nat))
    BY WFMin, NatLessThanWellFounded
  <1>2. \A y \in S : x <= y
    <2> SUFFICES ASSUME NEW y \in S, y < x PROVE FALSE
      OBVIOUS
    <2> DEFINE p == <<y, x>>
    <2>1. p \in Nat \X Nat /\ p[1] < p[2]
      OBVIOUS
    <2> HIDE DEF p
    <2>2. p \in OpToRel(<, Nat)
      BY <2>1 DEF OpToRel
    <2> QED
      BY <1>1, <2>2 DEF p
  <1> QED
    BY <1>2 DEF Min

\* A time to live is a number.
LEMMA CacheTTLNat ==
  ASSUME NEW l \in Levels, NEW code
  PROVE  CacheTTL(l, code) \in Nat
  <1> DEFINE matching == {i \in DOMAIN TTL[l].customs : code \in TTL[l].customs[i].codes}
  <1>1. CASE matching = {}
    BY <1>1, TTLAssumption DEF CacheTTL
  <1>2. CASE matching # {}
    <2>1. Min(matching) \in matching
      <3> HIDE DEF matching
      <3>1. matching \subseteq Nat
        BY TTLAssumption DEF matching
      <3> QED
        BY <1>2, <3>1, MinIn
    <2> QED
      BY <1>2, <2>1, TTLAssumption DEF CacheTTL
  <1> QED
    BY <1>1, <1>2

\* A new filter is good.
LEMMA FreshGood == Fresh \in Filters /\ Good(Fresh)
  <1>1. NoReply \in Replies /\ NoReply.entry = None /\ NoReply.state = "none"
    BY DEF NoReply, Replies
  <1>2. (CHOOSE k \in Keys : TRUE) \in Keys
    OBVIOUS
  <1>3. <<>> \in Seq(Marks) /\ <<>> \in Seq({"MISS"})
    OBVIOUS
  <1>4. Fresh \in Filters
    BY <1>1, <1>2, <1>3 DEF Fresh, Filters
  <1>5. Good(Fresh)
    BY <1>1, <1>3 DEF Fresh, Good, Pending, Marked, Answer
  <1> QED
    BY <1>4, <1>5

\* insertResponse keeps what every level holds complete.
LEMMA InsertGood ==
  ASSUME CacheGood(cache), now \in Nat, NEW f \in Filters, NEW e, Storable(e, f.key),
         NEW lost, NEW c, c = InsertResponse(f, e, lost)
  PROVE  CacheGood(c)
  <1>1. CASE e.body > LargestBody
    BY <1>1 DEF InsertResponse
  <1>2. CASE ~(e.body > LargestBody)
    <2> DEFINE new(l) == [e EXCEPT !.expire = now + CacheTTL(l, e.code)]
    <2>1. \A l \in Levels : Stored(new(l), f.key)
      <3> SUFFICES ASSUME NEW l \in Levels PROVE Stored(new(l), f.key)
        OBVIOUS
      <3>1. now + CacheTTL(l, e.code) \in Nat
        BY CacheTTLNat
      <3>2. new(l) \in Entries
        BY <3>1 DEF Storable, Entries
      <3>3. /\ new(l).key = f.key /\ new(l).cacheable = e.cacheable /\ new(l).body = e.body
            /\ new(l).total = e.total /\ new(l).marks = e.marks /\ e.body \in Nat
        BY DEF Storable, Entries
      <3> QED
        BY <1>2, <3>2, <3>3 DEF Stored, Storable
    <2>2. f.key \in Keys
      BY DEF Filters
    <2>3. c = [l \in Levels |->
                 IF (f.hit_in_cache = 0 \/ l < f.hit_in_cache) /\ l \notin lost /\ CacheTTL(l, e.code) > 0
                   THEN [cache[l] EXCEPT ![f.key] = new(l)]
                   ELSE cache[l]]
      BY <1>2 DEF InsertResponse, InsertCache
    <2> HIDE DEF new
    <2>4. \A l \in Levels : /\ c[l] \in [Keys -> Entries \cup {None}]
                            /\ \A k \in Keys : c[l][k] # None => Stored(c[l][k], k)
      <3> SUFFICES ASSUME NEW l \in Levels
                   PROVE  /\ c[l] \in [Keys -> Entries \cup {None}]
                          /\ \A k \in Keys : c[l][k] # None => Stored(c[l][k], k)
        OBVIOUS
      <3>1. new(l) \in Entries /\ Stored(new(l), f.key)
        BY <2>1 DEF Stored, Storable
      <3>2. c[l] = cache[l] \/ c[l] = [cache[l] EXCEPT ![f.key] = new(l)]
        BY <2>3
      <3> QED
        BY <2>2, <3>1, <3>2 DEF CacheGood, Caches
    <2>5. c \in Caches
      BY <2>3, <2>4 DEF Caches
    <2> QED
      BY <2>4, <2>5 DEF CacheGood
  <1> QED
    BY <1>1, <1>2

\* A filter that is destroyed is good.
LEMMA DestroyedGood ==
  ASSUME NEW f \in Filters, Pending(f), Marked(f)
  PROVE  Destroyed(f) \in Filters /\ Good(Destroyed(f))
  <1>1. Destroyed(f) \in Filters
    BY FreshGood DEF Destroyed, Remains, Filters
  <1>2. /\ Destroyed(f).pc = "done" /\ ~Destroyed(f).callback /\ Destroyed(f).to_cache = None
        /\ Destroyed(f).sent = 0
        /\ Destroyed(f).key = f.key /\ Destroyed(f).current = f.current
        /\ Destroyed(f).pending = f.pending /\ Destroyed(f).hit = f.hit /\ Destroyed(f).marks = f.marks
    BY DEF Destroyed, Remains, Fresh
  <1> QED
    BY <1>1, <1>2 DEF Good, Pending, Marked

\* A stream whose response ends leaves good remains and a good cache.
LEMMA EndGood ==
  ASSUME TypeOK, CacheGood(cache), NEW s \in Streams,
         NEW f \in Filters, Pending(f), Marked(f), f.to_cache = None \/ Storable(f.to_cache, f.key),
         EndOfResponse(s, f)
  PROVE  stream'[s] \in Filters /\ Good(stream'[s]) /\ CacheGood(cache')
  <1>1. stream'[s] = Destroyed(f)
    BY DEF EndOfResponse, TypeOK
  <1>2. CacheGood(cache')
    <2>1. CASE f.to_cache = None
      BY <2>1 DEF EndOfResponse
    <2>2. CASE f.to_cache # None
      <3>1. PICK lost \in LostLevels : cache' = InsertResponse(f, f.to_cache, lost)
        BY <2>2 DEF EndOfResponse
      <3>2. now \in Nat
        BY DEF TypeOK
      <3> QED
        BY <2>2, <3>1, <3>2, InsertGood
    <2> QED
      BY <2>1, <2>2
  <1> QED
    BY <1>1, <1>2, DestroyedGood

-----------------------------------------------------------------------------
\* encodeHeaders of the filter marks the response and copies what may be stored.
LEMMA HeadersGood ==
  ASSUME NEW f \in Filters, Pending(f), f.to_cache = None, NEW e \in Entries,
         f.hit => e.marks \in Seq({"HIT"}) /\ e.marks # <<>>, ~f.hit => e.marks = <<>>,
         NEW g, g = AfterHeaders(f, e)
  PROVE  /\ g \in Filters /\ Pending(g) /\ Marked(g)
         /\ g.pc = f.pc /\ g.key = f.key /\ g.hit = f.hit /\ g.sent = f.sent /\ g.callback = f.callback
         /\ g.pending = f.pending
         /\ g.to_cache = None \/ (g.to_cache = e /\ e.cacheable)
  <1> DEFINE marks == e.marks \o IF f.hit THEN <<>> ELSE <<"MISS">>
             copy == IF LowLevelFill \/ ~f.hit THEN e ELSE None
  <1>0. /\ marks \in Seq(Marks)
        /\ f.hit => marks = e.marks
        /\ ~f.hit => marks = <<"MISS">>
    <2>1. CASE f.hit
      <3>1. marks = e.marks
        BY <2>1, ConcatEmptySeq DEF Entries
      <3> QED
        BY <2>1, <3>1 DEF Entries
    <2>2. CASE ~f.hit
      <3>1. <<"MISS">> \in Seq(Marks)
        BY DEF Marks
      <3>2. marks = <<"MISS">>
        BY <2>2, <3>1, ConcatEmptySeq
      <3> QED
        BY <2>2, <3>1, <3>2
    <2> QED
      BY <2>1, <2>2
  <1>m. <<>> \in Seq({"MISS"}) /\ <<"MISS">> \in Seq({"MISS"})
    OBVIOUS
  <1>1. copy \in Entries \cup {None} /\ (copy = None \/ copy = e)
    OBVIOUS
  <1>2. CASE ~f.enable \/ ~e.cacheable
    <2>1. g = [f EXCEPT !.enable = FALSE, !.marks = e.marks]
      BY <1>2 DEF AfterHeaders
    <2>2. g \in Filters
      BY <2>1 DEF Filters, Entries
    <2>3. /\ g.pc = f.pc /\ g.key = f.key /\ g.hit = f.hit /\ g.sent = f.sent /\ g.callback = f.callback
          /\ g.to_cache = None /\ g.marks = e.marks /\ g.pending = f.pending /\ g.current = f.current
      BY <2>1 DEF Filters
    <2>4. Marked(g)
      BY <2>3, <1>m DEF Marked
    <2>5. Pending(g)
      BY <2>3 DEF Pending
    <2> QED
      BY <2>2, <2>3, <2>4, <2>5
  <1>3. CASE f.enable /\ e.cacheable
    <2>1. g = [f EXCEPT !.to_cache = copy, !.marks = marks]
      BY <1>3 DEF AfterHeaders
    <2> HIDE DEF copy, marks
    <2>2. g \in Filters
      BY <1>0, <1>1, <2>1 DEF Filters
    <2>3. /\ g.pc = f.pc /\ g.key = f.key /\ g.hit = f.hit /\ g.sent = f.sent /\ g.callback = f.callback
          /\ g.to_cache = copy /\ g.marks = marks /\ g.pending = f.pending /\ g.current = f.current
      BY <2>1 DEF Filters
    <2>4. Marked(g)
      BY <1>0, <1>m, <2>3 DEF Marked
    <2>5. Pending(g)
      BY <2>3 DEF Pending
    <2> QED
      BY <1>1, <1>3, <2>2, <2>3, <2>4, <2>5
  <1> QED
    BY <1>2, <1>3 DEF Filters, Entries

\* What a level answers, and how the answer is on its way.
LEMMA HeldGood ==
  ASSUME CacheGood(cache), NEW l \in Levels, NEW k \in Keys
  PROVE  /\ Held(l, k) = None \/ Stored(Held(l, k), k)
         /\ Held(l, k) \in Entries \cup {None}
  BY DEF Held, CacheGood, Stored, Storable

\* What a cache level answers is for the key that was asked.
LEMMA AskGood ==
  ASSUME CacheGood(cache), NEW l \in Levels, NEW k \in Keys
  PROVE  Ask(l, k) \in Replies /\ Ask(l, k).state # "none" /\ Answer(Ask(l, k).entry, k)
  BY HeldGood DEF Ask, Posted, Asked, Replies, Answer

\* The record of an entry, field by field.
LEMMA EntryIn ==
  ASSUME NEW c \in Codes, NEW a \in BOOLEAN, NEW k \in Keys, NEW b \in Nat, NEW t \in Nat,
         NEW m \in Seq(Marks), NEW born \in Nat, NEW expire \in Nat
  PROVE  [code |-> c, cacheable |-> a, key |-> k, body |-> b, total |-> t, marks |-> m,
          born |-> born, expire |-> expire] \in Entries
  BY DEF Entries

\* A response as it arrives.
Arriving(k, r) == [Collected(k, r) EXCEPT !.born = now]

\* The entry that is collected from a response starts empty.
LEMMA CollectedGood ==
  ASSUME NEW k \in Keys, NEW r \in Responses, now \in Nat,
         NEW e, e = Arriving(k, r)
  PROVE  /\ e \in Entries /\ e.key = k /\ e.cacheable = r.cacheable /\ e.body = 0
         /\ e.total = r.total /\ e.marks = <<>> /\ r.total \in Nat /\ r.trailers \in BOOLEAN
  <1>1. r.code \in Codes /\ r.total \in Nat /\ r.trailers \in BOOLEAN /\ r.cacheable \in BOOLEAN
    BY ResponsesAssumption DEF Codes
  <1>2. e = [code |-> r.code, cacheable |-> r.cacheable, key |-> k, body |-> 0, total |-> r.total,
             marks |-> <<>>, born |-> now, expire |-> 0]
    BY DEF Collected, Arriving
  <1>3. <<>> \in Seq(Marks)
    OBVIOUS
  <1>4. e \in Entries
    <2>1. 0 \in Nat
      OBVIOUS
    <2>2. [code |-> r.code, cacheable |-> r.cacheable, key |-> k, body |-> 0, total |-> r.total,
           marks |-> <<>>, born |-> now, expire |-> 0] \in Entries
      BY ONLY <1>1, <1>3, <2>1, now \in Nat, k \in Keys, EntryIn, Zenon
    <2> QED
      BY <1>2, <2>2, Zenon
  <1> QED
    BY <1>1, <1>2, <1>4

\* The request headers keep the filter good.
LEMMA DecodeHeadersGood ==
  ASSUME TypeOK, CacheGood(cache), NEW s \in Streams, NEW k \in Keys, NEW enabled \in BOOLEAN,
         DecodeHeaders(s, k, enabled)
  PROVE  stream'[s] \in Filters /\ Good(stream'[s])
  <1> DEFINE lookup == enabled /\ Levels # {}
             pc == IF lookup THEN "lookup" ELSE "upstream"
             pending == IF lookup THEN Ask(1, k) ELSE NoReply
             g == [Fresh EXCEPT !.pc = pc, !.key = k, !.enable = enabled, !.callback = lookup,
                                !.pending = pending]
  <1>1. stream'[s] = g
    BY DEF DecodeHeaders, TypeOK
  <1>2. lookup => 1 \in Levels
    BY KindsAssumption DEF Levels
  <1>3. /\ pending \in Replies /\ Answer(pending.entry, k)
        /\ lookup => pending.state # "none"
        /\ ~lookup => pending.state = "none"
    BY <1>2, AskGood DEF NoReply, Replies, Answer
  <1>4. lookup \in BOOLEAN /\ pc \in {"lookup", "upstream"} /\ (pc = "lookup" <=> lookup)
    OBVIOUS
  <1> HIDE DEF lookup, pc, pending
  <1>5. g \in Filters
    BY <1>3, <1>4, FreshGood DEF Filters
  <1>6. /\ g.pc = pc /\ g.key = k /\ g.callback = lookup /\ g.pending = pending
        /\ ~g.hit /\ g.to_cache = None /\ g.sent = 0 /\ g.marks = <<>> /\ g.current = 1
    BY DEF Fresh
  <1>7. <<>> \in Seq({"MISS"})
    OBVIOUS
  <1> HIDE DEF g
  <1> QED
    BY <1>1, <1>2, <1>3, <1>4, <1>5, <1>6, <1>7 DEF Good, Pending, Marked

\* An answer of a level that arrives keeps the filter good.
LEMMA ResolveGood ==
  ASSUME TypeOK, CacheGood(cache), NEW s \in Streams, Good(stream[s]), Resolve(s)
  PROVE  stream'[s] \in Filters /\ Good(stream'[s])
  <1> DEFINE f == stream[s]
             e == Held(f.current, f.key)
  <1>1. f \in Filters /\ Good(f) /\ f.pending = Asked
    BY DEF Resolve, TypeOK
  <1>2. PICK answer \in {e, None} \cup (IF e = None THEN {} ELSE {Empty}) :
          stream'[s] = [f EXCEPT !.pending = Posted(answer)]
    BY <1>1 DEF Resolve, TypeOK, Filters
  <1>3. f.current \in Levels /\ f.key \in Keys
    BY <1>1 DEF Good, Pending, Asked, Filters
  <1>4. Answer(answer, f.key) /\ answer \in Entries \cup {None, Empty}
    BY <1>3, HeldGood DEF Answer
  <1>5. Posted(answer) \in Replies /\ Posted(answer).entry = answer /\ Posted(answer).state = "posted"
    BY <1>4 DEF Posted, Replies
  <1> DEFINE g == [f EXCEPT !.pending = Posted(answer)]
  <1> HIDE DEF f, e
  <1>6. g \in Filters /\ g.pending = Posted(answer)
    BY <1>1, <1>5 DEF Filters
  <1>7. /\ g.pc = f.pc /\ g.key = f.key /\ g.callback = f.callback /\ g.hit = f.hit
        /\ g.to_cache = f.to_cache /\ g.marks = f.marks /\ g.current = f.current
        /\ g.resp = f.resp /\ g.sent = f.sent
    BY <1>1 DEF Filters
  <1> HIDE DEF g
  <1> QED
    BY <1>1, <1>2, <1>3, <1>4, <1>5, <1>6, <1>7 DEF Good, Pending, Marked, Partial, g

\* So does one that is dropped.
LEMMA DroppedGood ==
  ASSUME TypeOK, NEW s \in Streams, Good(stream[s]), LookupDropped(s)
  PROVE  stream'[s] \in Filters /\ Good(stream'[s])
  <1> DEFINE f == stream[s]
             g == [f EXCEPT !.pending = NoReply]
  <1>1. f \in Filters /\ Good(f) /\ ~f.callback /\ stream'[s] = g
    BY DEF LookupDropped, TypeOK, Filters
  <1>2. NoReply \in Replies /\ NoReply.entry = None /\ NoReply.state = "none"
    BY DEF NoReply, Replies
  <1> HIDE DEF f
  <1>3. g \in Filters /\ g.pending = NoReply
    BY <1>1, <1>2 DEF Filters
  <1>4. /\ g.pc = f.pc /\ g.key = f.key /\ g.callback = f.callback /\ g.hit = f.hit
        /\ g.to_cache = f.to_cache /\ g.marks = f.marks /\ g.current = f.current
        /\ g.resp = f.resp /\ g.sent = f.sent
    BY <1>1 DEF Filters
  <1> HIDE DEF g
  <1> QED
    BY <1>1, <1>2, <1>3, <1>4 DEF Good, Pending, Marked, Partial, Answer

\* A held request is resumed without an answer.
LEMMA ResumedGood ==
  ASSUME NEW f \in Filters, Good(f), f.callback, NEW h \in Levels \cup {0},
         NEW g, g = [f EXCEPT !.pc = "upstream", !.callback = FALSE, !.pending = NoReply,
                              !.hit_in_cache = h]
  PROVE  g \in Filters /\ Good(g)
  <1>1. NoReply \in Replies /\ NoReply.entry = None /\ NoReply.state = "none"
    BY DEF NoReply, Replies
  <1>2. g \in Filters
    BY <1>1 DEF Filters
  <1>3. /\ g.pc = "upstream" /\ g.key = f.key /\ ~g.callback /\ g.hit = f.hit
        /\ g.to_cache = f.to_cache /\ g.sent = f.sent /\ g.marks = f.marks /\ g.pending = NoReply
    BY DEF Filters
  <1> QED
    BY <1>1, <1>2, <1>3 DEF Good, Pending, Marked, Answer

\* So does the question to the next level.
LEMMA NextGood ==
  ASSUME TypeOK, CacheGood(cache), NEW s \in Streams, Good(stream[s]), LookupNext(s)
  PROVE  stream'[s] \in Filters /\ Good(stream'[s])
  <1> DEFINE f == stream[s]
             n == f.current + 1
             asking == [f EXCEPT !.current = n, !.pending = Ask(n, f.key)]
             resumed == [f EXCEPT !.pc = "upstream", !.callback = FALSE, !.pending = NoReply]
  <1>1. /\ f \in Filters /\ Good(f) /\ f.callback
        /\ stream'[s] = IF f.current < Len(Kinds) THEN asking ELSE resumed
    BY DEF LookupNext, TypeOK
  <1> HIDE DEF f
  <1>2. CASE f.current < Len(Kinds)
    <2>1. n \in Levels /\ f.key \in Keys
      BY <1>1, <1>2, KindsAssumption DEF Good, Pending, Levels, Filters
    <2>2. Ask(n, f.key) \in Replies /\ Ask(n, f.key).state # "none" /\ Answer(Ask(n, f.key).entry, f.key)
      BY <2>1, AskGood
    <2> HIDE DEF n
    <2>3. asking \in Filters
      BY <1>1, <2>1, <2>2 DEF Filters
    <2>4. /\ asking.pc = f.pc /\ asking.key = f.key /\ asking.callback = f.callback
          /\ asking.hit = f.hit /\ asking.to_cache = f.to_cache /\ asking.marks = f.marks
          /\ asking.sent = f.sent /\ asking.pending = Ask(n, f.key) /\ asking.current = n
      BY <1>1 DEF Filters
    <2> HIDE DEF asking
    <2> QED
      BY <1>1, <1>2, <2>1, <2>2, <2>3, <2>4 DEF Good, Pending, Marked
  <1>3. CASE ~(f.current < Len(Kinds))
    <2>1. f.hit_in_cache \in Levels \cup {0}
      BY <1>1 DEF Filters
    <2>2. resumed = [f EXCEPT !.pc = "upstream", !.callback = FALSE, !.pending = NoReply,
                              !.hit_in_cache = f.hit_in_cache]
      BY <1>1 DEF Filters
    <2> HIDE DEF resumed
    <2> QED
      BY <1>1, <1>3, <2>1, <2>2, ResumedGood
  <1> QED
    BY <1>2, <1>3

\* So does a miss of the last level.
LEMMA EmptyGood ==
  ASSUME TypeOK, NEW s \in Streams, Good(stream[s]), LookupEmpty(s)
  PROVE  stream'[s] \in Filters /\ Good(stream'[s])
  <1>1. /\ stream[s] \in Filters /\ stream[s].callback
        /\ stream'[s] = [stream[s] EXCEPT !.pc = "upstream", !.callback = FALSE, !.pending = NoReply,
                                          !.hit_in_cache = stream[s].current]
    BY DEF LookupEmpty, TypeOK
  <1>2. stream[s].current \in Levels
    BY <1>1 DEF Good, Pending
  <1> QED
    BY <1>1, <1>2, ResumedGood

\* So does a hit, which fills the faster levels soundly.
LEMMA HitGood ==
  ASSUME TypeOK, CacheGood(cache), NEW s \in Streams, Good(stream[s]), LookupHit(s)
  PROVE  stream'[s] \in Filters /\ Good(stream'[s]) /\ CacheGood(cache')
  <1> DEFINE f == stream[s]
             e == f.pending.entry
             longer == Append(e.marks, "HIT")
             marked == [e EXCEPT !.marks = longer]
             hit == [f EXCEPT !.hit = TRUE, !.hit_in_cache = f.current, !.callback = FALSE,
                              !.pending = NoReply]
  <1>1. /\ f \in Filters /\ Good(f) /\ f.callback /\ e \notin {None, Empty}
        /\ f.pending.state = "posted" /\ EndOfResponse(s, AfterHeaders(hit, marked))
    BY DEF LookupHit, TypeOK
  <1>2. Stored(e, f.key) /\ f.current \in Levels
    BY <1>1 DEF Good, Pending, Answer
  <1> HIDE DEF e
  <1>3. longer \in Seq({"HIT"}) /\ longer \in Seq(Marks) /\ longer # <<>>
    <2>1. e.marks \in Seq({"HIT"}) /\ e.marks \in Seq(Marks)
      BY <1>2 DEF Stored, Storable, Entries
    <2>2. "HIT" \in Marks
      BY DEF Marks
    <2> QED
      BY <2>1, <2>2, AppendProperties
  <1> HIDE DEF longer
  <1>4. Storable(marked, f.key)
    <2>1. marked \in Entries
      BY SMTT(60), <1>2, <1>3 DEF Stored, Storable, Entries
    <2>2. /\ marked.key = e.key /\ marked.cacheable = e.cacheable /\ marked.body = e.body
          /\ marked.total = e.total /\ marked.marks = longer
      BY <1>2 DEF Stored, Storable, Entries
    <2> QED
      BY <1>2, <1>3, <2>1, <2>2 DEF Stored, Storable
  <1>5. marked.marks = longer /\ marked \in Entries
    BY <1>2, <1>4 DEF Stored, Storable, Entries
  <1>6. NoReply \in Replies /\ NoReply.entry = None /\ NoReply.state = "none"
    BY DEF NoReply, Replies
  <1> HIDE DEF f
  <1>7. hit \in Filters
    BY <1>1, <1>2, <1>6 DEF Filters
  <1>8. hit.hit /\ hit.key = f.key /\ hit.to_cache = f.to_cache /\ hit.pending = NoReply
    BY <1>1 DEF Filters
  <1> HIDE DEF hit, marked
  <1>9. Pending(hit) /\ hit.to_cache = None
    BY <1>1, <1>6, <1>8 DEF Good, Pending, Answer
  <1> DEFINE g == AfterHeaders(hit, marked)
  <1>10. /\ g \in Filters /\ Pending(g) /\ Marked(g) /\ g.key = hit.key
         /\ g.to_cache = None \/ g.to_cache = marked
    BY <1>3, <1>5, <1>7, <1>8, <1>9, HeadersGood
  <1> HIDE DEF g
  <1>11. g.to_cache = None \/ Storable(g.to_cache, g.key)
    BY <1>4, <1>8, <1>10
  <1> QED
    BY <1>1, <1>10, <1>11, EndGood DEF g

-----------------------------------------------------------------------------
\* The response headers keep the filter and the caches good.
LEMMA EncodeHeadersGood ==
  ASSUME TypeOK, CacheGood(cache), NEW s \in Streams, Good(stream[s]), NEW r \in Responses,
         EncodeHeaders(s, r)
  PROVE  stream'[s] \in Filters /\ Good(stream'[s]) /\ CacheGood(cache')
  <1> DEFINE f == stream[s]
             e == [Collected(f.key, r) EXCEPT !.born = now]
             g == AfterHeaders(f, e)
             body == [g EXCEPT !.pc = "body", !.resp = r]
  <1>1. f \in Filters /\ Good(f) /\ f.pc = "upstream" /\ now \in Nat /\ f.key \in Keys
    BY DEF EncodeHeaders, TypeOK, Filters
  <1>2. \/ EndOfResponse(s, g) /\ r.total = 0
        \/ stream'[s] = body /\ cache' = cache
    BY DEF EncodeHeaders, TypeOK
  <1>3. /\ e \in Entries /\ e.key = f.key /\ e.cacheable = r.cacheable /\ e.body = 0
        /\ e.total = r.total /\ e.marks = <<>> /\ r.total \in Nat
    <2>1. e = Arriving(f.key, r)
      BY DEF Arriving
    <2> HIDE DEF e, f
    <2> QED
      BY <1>1, <2>1, CollectedGood
  <1> HIDE DEF f, e
  <1>4. Pending(f) /\ f.to_cache = None /\ ~f.hit
    BY <1>1 DEF Good
  <1>5. /\ g \in Filters /\ Pending(g) /\ Marked(g) /\ g.pc = f.pc /\ g.key = f.key /\ g.hit = f.hit
        /\ g.sent = f.sent /\ g.callback = f.callback
        /\ g.to_cache = None \/ (g.to_cache = e /\ e.cacheable)
    BY <1>1, <1>3, <1>4, HeadersGood
  <1>6. <<>> \in Seq({"HIT"})
    OBVIOUS
  <1> HIDE DEF g
  <1>7. CASE EndOfResponse(s, g) /\ r.total = 0
    <2>1. g.to_cache = None \/ Storable(g.to_cache, g.key)
      BY <1>3, <1>5, <1>6, <1>7 DEF Storable
    <2> QED
      BY <1>5, <1>7, <2>1, EndGood
  <1>8. CASE stream'[s] = body /\ cache' = cache
    <2>1. body \in Filters
      BY <1>5 DEF Filters
    <2>2. /\ body.pc = "body" /\ body.key = g.key /\ body.callback = g.callback /\ body.hit = g.hit
          /\ body.to_cache = g.to_cache /\ body.marks = g.marks /\ body.current = g.current
          /\ body.resp = r /\ body.sent = g.sent /\ body.pending = g.pending
      BY <1>5 DEF Filters
    <2> HIDE DEF body
    <2>3. body.sent = 0
      BY <1>1, <1>5, <2>2 DEF Good
    <2>4. Partial(body)
      <3>1. body.resp \in Responses /\ body.sent <= body.resp.total
        BY <1>3, <2>2, <2>3
      <3>2. CASE g.to_cache = None
        BY <2>2, <3>1, <3>2 DEF Partial
      <3>3. CASE g.to_cache = e /\ e.cacheable
        BY <1>3, <1>5, <1>6, <2>2, <2>3, <3>1, <3>3 DEF Partial
      <3> QED
        BY <1>5, <3>2, <3>3
    <2> QED
      BY <1>1, <1>4, <1>5, <1>8, <2>1, <2>2, <2>4 DEF Good, Pending, Marked
  <1> QED
    BY <1>2, <1>7, <1>8

\* So does a piece of the response.
LEMMA EncodeDataGood ==
  ASSUME TypeOK, CacheGood(cache), NEW s \in Streams, Good(stream[s]), EncodeData(s)
  PROVE  stream'[s] \in Filters /\ Good(stream'[s]) /\ CacheGood(cache')
  <1> DEFINE f == stream[s]
             sent == f.sent + 1
             copy == IF f.to_cache = None THEN None
                     ELSE [f.to_cache EXCEPT !.body = sent, !.born = now]
             g == [f EXCEPT !.sent = sent, !.to_cache = copy]
  <1>1. f \in Filters /\ Good(f) /\ f.pc = "body" /\ f.sent < f.resp.total /\ now \in Nat
    BY DEF EncodeData, TypeOK
  <1>2. \/ EndOfResponse(s, g) /\ sent = f.resp.total
        \/ stream'[s] = g /\ cache' = cache
    BY DEF EncodeData, TypeOK
  <1> HIDE DEF f
  <1>3. Partial(f) /\ f.sent \in Nat /\ sent \in Nat /\ f.resp.total \in Nat
    BY <1>1, ResponsesAssumption DEF Good, Partial, Filters
  <1>4. \/ copy = None
        \/ /\ copy \in Entries /\ copy.key = f.key /\ copy.cacheable /\ copy.body = sent
           /\ copy.total = f.resp.total /\ copy.marks \in Seq({"HIT"})
    <2>1. CASE f.to_cache = None
      BY <2>1
    <2>2. CASE f.to_cache # None
      <3> DEFINE e == f.to_cache
      <3>1. /\ e \in Entries /\ e.key = f.key /\ e.cacheable
            /\ e.total = f.resp.total /\ e.marks \in Seq({"HIT"})
        BY <1>3, <2>2 DEF Partial
      <3>2. copy = [e EXCEPT !.body = sent, !.born = now]
        BY <2>2
      <3> HIDE DEF e, copy, sent
      <3>3. copy \in Entries
        BY <1>1, <1>3, <3>1, <3>2 DEF Entries
      <3>4. /\ copy.key = e.key /\ copy.cacheable = e.cacheable /\ copy.body = sent
            /\ copy.total = e.total /\ copy.marks = e.marks
        BY <3>1, <3>2 DEF Entries
      <3> QED
        BY <3>1, <3>3, <3>4
    <2> QED
      BY <2>1, <2>2
  <1>5. sent <= f.resp.total
    BY <1>1, <1>3
  <1> HIDE DEF copy, sent
  <1>6. g \in Filters
    BY <1>1, <1>3, <1>4 DEF Filters
  <1>7. /\ g.pc = f.pc /\ g.key = f.key /\ g.callback = f.callback /\ g.hit = f.hit
        /\ g.to_cache = copy /\ g.marks = f.marks /\ g.current = f.current
        /\ g.resp = f.resp /\ g.sent = sent /\ g.pending = f.pending
    BY <1>1 DEF Filters
  <1> HIDE DEF g
  <1>8. Pending(g) /\ Marked(g)
    BY <1>1, <1>7 DEF Good, Pending, Marked
  <1>9. Partial(g)
    BY <1>3, <1>4, <1>5, <1>7 DEF Partial
  <1>10. CASE EndOfResponse(s, g) /\ sent = f.resp.total
    <2>1. g.to_cache = None \/ Storable(g.to_cache, g.key)
      BY <1>4, <1>7, <1>10 DEF Storable
    <2> QED
      BY <1>6, <1>8, <1>10, <2>1, EndGood
  <1>11. CASE stream'[s] = g /\ cache' = cache
    BY <1>1, <1>6, <1>7, <1>8, <1>9, <1>11 DEF Good
  <1> QED
    BY <1>2, <1>10, <1>11

\* So does a reply of another filter.
LEMMA LocalReplyGood ==
  ASSUME TypeOK, CacheGood(cache), NEW s \in Streams, Good(stream[s]), NEW r \in Responses,
         LocalReply(s, r)
  PROVE  stream'[s] \in Filters /\ Good(stream'[s]) /\ CacheGood(cache')
  <1> DEFINE f == stream[s]
             c == [Collected(f.key, r) EXCEPT !.born = now]
             e == [c EXCEPT !.body = r.total]
             g == AfterHeaders(f, e)
  <1>1. f \in Filters /\ Good(f) /\ f.pc = "lookup" /\ now \in Nat /\ f.key \in Keys
    BY DEF LocalReply, TypeOK, Filters
  <1>2. EndOfResponse(s, g)
    <2>1. [Collected(f.key, r) EXCEPT !.born = now, !.body = r.total] = e
      BY DEF Collected
    <2> QED
      BY <2>1 DEF LocalReply
  <1>3. /\ c \in Entries /\ c.key = f.key /\ c.cacheable = r.cacheable
        /\ c.total = r.total /\ c.marks = <<>> /\ r.total \in Nat
    <2>1. c = Arriving(f.key, r)
      BY DEF Arriving
    <2> HIDE DEF c, f
    <2> QED
      BY <1>1, <2>1, CollectedGood
  <1> HIDE DEF f, c
  <1>4. /\ e \in Entries /\ e.key = f.key /\ e.body = r.total /\ e.total = r.total /\ e.marks = <<>>
        /\ e.cacheable = r.cacheable
    BY <1>3 DEF Entries
  <1>5. Pending(f) /\ f.to_cache = None /\ ~f.hit
    BY <1>1 DEF Good
  <1> HIDE DEF e
  <1>6. /\ g \in Filters /\ Pending(g) /\ Marked(g) /\ g.key = f.key
        /\ g.to_cache = None \/ (g.to_cache = e /\ e.cacheable)
    BY <1>1, <1>4, <1>5, HeadersGood
  <1>7. <<>> \in Seq({"HIT"})
    OBVIOUS
  <1> HIDE DEF g
  <1>8. g.to_cache = None \/ Storable(g.to_cache, g.key)
    BY <1>4, <1>6, <1>7 DEF Storable
  <1> QED
    BY <1>2, <1>6, <1>8, EndGood

-----------------------------------------------------------------------------
\* A step of one stream leaves the other streams, the admin request and the
\* clock as they are.
LEMMA Frame ==
  ASSUME TypeOK, NEW s \in Streams, Step(s)
  PROVE  /\ stream' = [t \in Streams |-> stream'[t]]
         /\ \A t \in Streams : t # s => stream'[t] = stream[t]
         /\ UNCHANGED <<removing, now>>
  <1>1. UNCHANGED <<removing, now>>
    BY DEF Step, DecodeHeaders, Resolve, LookupDropped, LookupNext, LookupEmpty, LookupHit,
           EncodeHeaders, LocalReply, EncodeData, EncodeTrailers, Reset
  <1>2. \/ \E f : stream' = [stream EXCEPT ![s] = f]
        \/ \E p : stream' = [stream EXCEPT ![s].pending = p]
    <2>1. \A f : EndOfResponse(s, f) => \E g : stream' = [stream EXCEPT ![s] = g]
      BY DEF EndOfResponse
    <2>2. \A k \in Keys, enabled \in BOOLEAN :
            DecodeHeaders(s, k, enabled) => \E f : stream' = [stream EXCEPT ![s] = f]
      BY DEF DecodeHeaders
    <2>3. Resolve(s) \/ LookupDropped(s) => \E p : stream' = [stream EXCEPT ![s].pending = p]
      BY DEF Resolve, LookupDropped
    <2>4. LookupNext(s) \/ LookupEmpty(s) \/ EncodeTrailers(s) \/ Reset(s)
            => \E f : stream' = [stream EXCEPT ![s] = f]
      BY DEF LookupNext, LookupEmpty, EncodeTrailers, Reset
    <2>5. LookupHit(s) => \E f : stream' = [stream EXCEPT ![s] = f]
      BY <2>1, Zenon DEF LookupHit
    <2>6. \A r \in Responses : LocalReply(s, r) => \E f : stream' = [stream EXCEPT ![s] = f]
      BY <2>1, Zenon DEF LocalReply
    <2>7. \A r \in Responses : EncodeHeaders(s, r) => \E f : stream' = [stream EXCEPT ![s] = f]
      BY <2>1, Zenon DEF EncodeHeaders
    <2>8. EncodeData(s) => \E f : stream' = [stream EXCEPT ![s] = f]
      BY <2>1, Zenon DEF EncodeData
    <2> QED
      BY <2>2, <2>3, <2>4, <2>5, <2>6, <2>7, <2>8 DEF Step
  <1> QED
    BY <1>1, <1>2 DEF TypeOK

\* Every step of a stream keeps its filter and the caches good.
LEMMA StepGood ==
  ASSUME IInv, NEW s \in Streams, Step(s)
  PROVE  stream'[s] \in Filters /\ Good(stream'[s]) /\ CacheGood(cache')
  <1>0. TypeOK /\ Good(stream[s]) /\ CacheGood(cache) /\ stream[s] \in Filters
    BY SMTT(60) DEF IInv, TypeOK
  <1>1. ASSUME NEW k \in Keys, NEW enabled \in BOOLEAN, DecodeHeaders(s, k, enabled)
        PROVE  stream'[s] \in Filters /\ Good(stream'[s]) /\ CacheGood(cache')
    BY <1>0, <1>1, DecodeHeadersGood DEF DecodeHeaders
  <1>2. CASE Resolve(s)
    <2>1. cache' = cache
      BY <1>2 DEF Resolve
    <2> QED
      BY <1>0, <1>2, <2>1, ResolveGood
  <1>3. CASE LookupDropped(s)
    BY <1>0, <1>3, DroppedGood DEF LookupDropped
  <1>4. CASE LookupNext(s)
    <2>1. cache' = cache
      BY <1>4 DEF LookupNext
    <2> QED
      BY <1>0, <1>4, <2>1, NextGood
  <1>5. CASE LookupEmpty(s)
    <2>1. cache' = cache
      BY <1>5 DEF LookupEmpty
    <2> QED
      BY <1>0, <1>5, <2>1, EmptyGood
  <1>6. CASE LookupHit(s)
    BY <1>0, <1>6, HitGood
  <1>7. ASSUME NEW r \in Responses, EncodeHeaders(s, r)
        PROVE  stream'[s] \in Filters /\ Good(stream'[s]) /\ CacheGood(cache')
    BY <1>0, <1>7, EncodeHeadersGood
  <1>8. ASSUME NEW r \in Responses, LocalReply(s, r)
        PROVE  stream'[s] \in Filters /\ Good(stream'[s]) /\ CacheGood(cache')
    BY <1>0, <1>8, LocalReplyGood
  <1>9. CASE EncodeData(s)
    BY <1>0, <1>9, EncodeDataGood
  <1>10. CASE EncodeTrailers(s) \/ Reset(s)
    <2>1. stream'[s] = Destroyed(stream[s]) /\ cache' = cache
      BY <1>0, <1>10 DEF EncodeTrailers, Reset, TypeOK
    <2>2. Pending(stream[s]) /\ Marked(stream[s])
      BY <1>0 DEF Good
    <2> QED
      BY <1>0, <2>1, <2>2, DestroyedGood
  <1> QED
    BY <1>1, <1>2, <1>3, <1>4, <1>5, <1>6, <1>7, <1>8, <1>9, <1>10 DEF Step

\* What is removed or evicted is gone; the rest of the cache is as good as it was.
LEMMA RemovedGood ==
  ASSUME CacheGood(cache), NEW l \in Levels, NEW k \in Keys,
         NEW c, c = [cache EXCEPT ![l][k] = None]
  PROVE  CacheGood(c)
  <1>1. c = [cache EXCEPT ![l] = [cache[l] EXCEPT ![k] = None]]
    BY DEF CacheGood, Caches
  <1>2. [cache[l] EXCEPT ![k] = None] \in [Keys -> Entries \cup {None}]
    BY DEF CacheGood, Caches
  <1>3. c \in Caches
    BY <1>1, <1>2 DEF CacheGood, Caches
  <1>4. \A m \in Levels, j \in Keys : c[m][j] = None \/ c[m][j] = cache[m][j]
    BY <1>1 DEF CacheGood, Caches
  <1> QED
    BY <1>3, <1>4 DEF CacheGood

\* The admin handler, evictions and the clock.
LEMMA OthersGood ==
  ASSUME IInv,
         \/ \E k \in Keys : AdminRemove(k)
         \/ RemoveFromLevel
         \/ \E l \in Levels, k \in Keys : Evict(l, k)
         \/ Tick
  PROVE  /\ stream' = stream /\ CacheGood(cache')
         /\ removing' \in [key : Keys, level : Levels] \cup {None} /\ now' \in 0 .. MaxTime
  <1>1. CacheGood(cache) /\ removing \in [key : Keys, level : Levels] \cup {None} /\ now \in 0 .. MaxTime
    BY DEF IInv, TypeOK
  <1>2. ASSUME NEW k \in Keys, AdminRemove(k)
        PROVE  /\ stream' = stream /\ CacheGood(cache')
               /\ removing' \in [key : Keys, level : Levels] \cup {None} /\ now' \in 0 .. MaxTime
    <2>1. 1 \in Levels
      BY <1>2, KindsAssumption DEF AdminRemove, Levels
    <2> QED
      BY <1>1, <1>2, <2>1 DEF AdminRemove
  <1>3. CASE RemoveFromLevel
    <2>1. removing # None /\ removing \in [key : Keys, level : Levels] /\ stream' = stream /\ now' = now
      BY <1>1, <1>3 DEF RemoveFromLevel
    <2>2. CacheGood(cache')
      <3>1. cache' = cache \/ cache' = [cache EXCEPT ![removing.level][removing.key] = None]
        BY <1>3 DEF RemoveFromLevel
      <3>2. removing.level \in Levels /\ removing.key \in Keys
        BY <2>1
      <3> QED
        BY <1>1, <3>1, <3>2, RemovedGood
    <2>3. removing' \in [key : Keys, level : Levels] \cup {None}
      <3>1. CASE removing.level < Len(Kinds)
        <4>1. removing.level + 1 \in Levels
          BY <2>1, <3>1, KindsAssumption DEF Levels
        <4> QED
          BY <1>3, <2>1, <3>1, <4>1 DEF RemoveFromLevel
      <3>2. CASE ~(removing.level < Len(Kinds))
        BY <1>3, <3>2 DEF RemoveFromLevel
      <3> QED
        BY <3>1, <3>2
    <2> QED
      BY <1>1, <2>1, <2>2, <2>3
  <1>4. ASSUME NEW l \in Levels, NEW k \in Keys, Evict(l, k)
        PROVE  /\ stream' = stream /\ CacheGood(cache')
               /\ removing' \in [key : Keys, level : Levels] \cup {None} /\ now' \in 0 .. MaxTime
    <2>1. cache' = [cache EXCEPT ![l][k] = None]
      BY <1>4 DEF Evict
    <2>2. CacheGood(cache')
      BY <1>1, <2>1, RemovedGood
    <2> QED
      BY <1>1, <1>4, <2>2 DEF Evict
  <1>5. CASE Tick
    BY <1>1, <1>5 DEF Tick
  <1> QED
    BY <1>2, <1>3, <1>4, <1>5

\* Every filter, with its request sender, and every entry of every level is as its
\* place in the exchange allows; decodeHeaders, the lookup's callbacks, encodeHeaders,
\* encodeData, onDestroy, the admin handler and evictions keep them so.
THEOREM SuperCacheInvariant == Spec => []IInv
  <1>1. Init => IInv
    <2> SUFFICES ASSUME Init PROVE IInv
      OBVIOUS
    <2>1. TypeOK
      BY FreshGood DEF Init, TypeOK
    <2>2. CacheGood(cache)
      BY DEF Init, CacheGood, Caches
    <2> QED
      BY <2>1, <2>2, FreshGood DEF IInv, Init
  <1>2. IInv /\ [Next]_vars => IInv'
    <2> SUFFICES ASSUME IInv, [Next]_vars PROVE IInv'
      OBVIOUS
    <2>1. CASE UNCHANGED vars
      <3>1. TypeOK' /\ stream' = stream /\ cache' = cache
        BY <2>1 DEF vars, IInv, TypeOK
      <3> QED
        BY <3>1 DEF IInv, CacheGood, Caches
    <2>2. ASSUME NEW s \in Streams, Step(s) PROVE IInv'
      <3>1. stream'[s] \in Filters /\ Good(stream'[s]) /\ CacheGood(cache')
        BY <2>2, StepGood
      <3>2. /\ stream' = [t \in Streams |-> stream'[t]]
            /\ \A t \in Streams : t # s => stream'[t] = stream[t]
            /\ UNCHANGED <<removing, now>>
        BY <2>2, Frame DEF IInv
      <3>3. \A t \in Streams : stream'[t] \in Filters /\ Good(stream'[t])
        BY <3>1, <3>2 DEF IInv, TypeOK
      <3>4. TypeOK'
        BY <3>1, <3>2, <3>3 DEF IInv, TypeOK, CacheGood, Caches
      <3> QED
        BY <3>1, <3>3, <3>4 DEF IInv
    <2>3. CASE \/ \E k \in Keys : AdminRemove(k)
               \/ RemoveFromLevel
               \/ \E l \in Levels, k \in Keys : Evict(l, k)
               \/ Tick
      <3>1. /\ stream' = stream /\ CacheGood(cache')
            /\ removing' \in [key : Keys, level : Levels] \cup {None} /\ now' \in 0 .. MaxTime
        BY <2>3, OthersGood
      <3>2. TypeOK'
        BY <3>1 DEF IInv, TypeOK, CacheGood, Caches
      <3> QED
        BY <3>1, <3>2 DEF IInv
    <2> QED
      BY <2>1, <2>2, <2>3 DEF Next
  <1> QED
    BY <1>1, <1>2, PTL DEF Spec

\* Filters, entries and the clock keep their types.
THEOREM TypeCorrect == Spec => []TypeOK
  <1>1. IInv => TypeOK
    BY DEF IInv
  <1> QED
    BY <1>1, SuperCacheInvariant, PTL

\* The request sender calls back exactly the filters that hold their request, and is
\* asked for an answer all the while.
THEOREM HeldAreAsked == Spec => []CallbackOnlyWhileHeld
  <1>1. IInv => CallbackOnlyWhileHeld
    BY DEF IInv, Good, CallbackOnlyWhileHeld
  <1> QED
    BY <1>1, SuperCacheInvariant, PTL

\* Whatever trailers, local replies, resets and removals do meanwhile, insertResponse
\* stores complete cacheable responses that fit, each under the key it answered.
THEOREM OnlyWholeStored == Spec => []StoredSound
  <1>1. IInv => StoredSound
    BY DEF IInv, CacheGood, Stored, Storable, StoredSound
  <1> QED
    BY <1>1, SuperCacheInvariant, PTL

\* x-cache-status says HIT for replayed responses only, even for those refilled from
\* a lower level.
THEOREM StatusIsTruthful == Spec => []StatusTruthful
  <1>1. IInv => StatusTruthful
    <2> SUFFICES ASSUME IInv, NEW s \in Streams
                 PROVE  LET f == stream[s]
                            said == {f.marks[i] : i \in 1 .. Len(f.marks)}
                        IN  /\ f.hit => said = {"HIT"}
                            /\ ~f.hit => "HIT" \notin said
      BY DEF StatusTruthful
    <2> DEFINE m == stream[s].marks
               said == {m[i] : i \in 1 .. Len(m)}
    <2>1. Marked(stream[s])
      BY DEF IInv, Good
    <2>2. CASE stream[s].hit
      <3>1. m \in Seq({"HIT"}) /\ m # <<>>
        BY <2>1, <2>2 DEF Marked
      <3> HIDE DEF m
      <3>2. Len(m) \in Nat \ {0} /\ \A i \in 1 .. Len(m) : m[i] = "HIT"
        BY <3>1, EmptySeq
      <3>3. said = {"HIT"}
        <4>1. 1 \in 1 .. Len(m)
          BY <3>2
        <4> QED
          BY <3>2, <4>1
      <3> QED
        BY <2>2, <3>3 DEF m
    <2>3. CASE ~stream[s].hit
      <3>1. m \in Seq({"MISS"})
        BY <2>1, <2>3 DEF Marked
      <3> HIDE DEF m
      <3>2. \A i \in 1 .. Len(m) : m[i] = "MISS"
        BY <3>1
      <3>3. "HIT" \notin said
        BY <3>2
      <3> QED
        BY <2>3, <3>3 DEF m
    <2> QED
      BY <2>2, <2>3
  <1> QED
    BY <1>1, SuperCacheInvariant, PTL

=============================================================================
