-------------------------- MODULE LocalCacheProofs ---------------------------
(***************************************************************************)
(* The local cache implements CacheContract, for any keys, entries, shards  *)
(* and sizes: whatever eviction, expiry and the repair of checkMemory do,   *)
(* an LRU cache only ever forgets.  The loops of drainNumber and of the     *)
(* reclaim are recursive functions; what holds after every round is shown   *)
(* by looking at the first round after which it would not.                  *)
(***************************************************************************)
EXTENDS LocalCache, SequenceTheorems, WellFoundedInduction, TLAPS

\* The LRU cache d holds nothing that c does not hold.
Forgets(d, c) ==
  /\ c.list \in Seq(Keys) => d.list \in Seq(Keys)
  /\ DOMAIN d.dict \subseteq DOMAIN c.dict
  /\ \A k \in DOMAIN d.dict : d.dict[k] = c.dict[k]

\* A set of numbers has a least element: the induction used here.
LEMMA LeastIn ==
  ASSUME NEW S, S \subseteq Nat, S # {}
  PROVE  \E x \in S : \A y \in S : x <= y
  <1>1. PICK x \in S : \A y \in S : ~(<<y, x>> \in OpToRel(<, Nat))
    BY WFMin, NatLessThanWellFounded
  <1>2. \A y \in S : x <= y
    <2> SUFFICES ASSUME NEW y \in S, y < x PROVE FALSE
      OBVIOUS
    <2> DEFINE p == <<y, x>>
    <2>1. p \in Nat \X Nat /\ p[1] < p[2]
      OBVIOUS
    <2> HIDE DEF p
    <2>2. p \in OpToRel(<, Nat)
      BY <2>1 DEF OpToRel
    <2> QED
      BY <1>1, <2>2 DEF p
  <1> QED
    BY <1>2

\* Forgetting twice is forgetting.
LEMMA ForgetsTransitive ==
  ASSUME NEW a, NEW b, NEW c, Forgets(a, b), Forgets(b, c)
  PROVE  Forgets(a, c)
  BY DEF Forgets

\* Erasing from the list leaves a list.
LEMMA ErasedSeq ==
  ASSUME NEW S, NEW s \in Seq(S), NEW e
  PROVE  RemoveFirst(s, e) \in Seq(S)
  <1>1. CASE \E i \in 1 .. Len(s) : s[i] = e
    <2> DEFINE I == {i \in 1 .. Len(s) : s[i] = e}
    <2>1. RemoveFirst(s, e) = RemoveAt(s, Min(I))
      BY <1>1 DEF RemoveFirst, SelectInSeq
    <2>2. Min(I) \in 1 .. Len(s)
      <3>1. I \subseteq Nat /\ I # {} /\ I \subseteq 1 .. Len(s)
        BY <1>1
      <3> HIDE DEF I
      <3>2. \E x \in I : \A y \in I : x <= y
        BY <3>1, LeastIn
      <3> QED
        BY <3>1, <3>2 DEF Min
    <2> HIDE DEF I
    <2> DEFINE a == SubSeq(s, 1, Min(I) - 1)
               b == SubSeq(s, Min(I) + 1, Len(s))
    <2>3. a \in Seq(S) /\ b \in Seq(S)
      BY <2>2, SubSeqProperties
    <2> HIDE DEF a, b
    <2>4. a \o b \in Seq(S)
      BY <2>3, ConcatProperties
    <2> QED
      BY <2>1, <2>4 DEF RemoveAt, a, b
  <1>2. CASE ~\E i \in 1 .. Len(s) : s[i] = e
    BY <1>2 DEF RemoveFirst
  <1> QED
    BY <1>1, <1>2

\* removeImpl forgets its key and changes no other.
LEMMA RemoveForgets ==
  ASSUME NEW c, NEW k
  PROVE  Forgets(RemoveImpl(c, k), c) /\ k \notin DOMAIN RemoveImpl(c, k).dict
  <1>1. CASE k \notin DOMAIN c.dict
    BY <1>1 DEF RemoveImpl, Forgets
  <1>2. CASE k \in DOMAIN c.dict
    <2> DEFINE d == RemoveImpl(c, k)
    <2>1. d.dict = WithoutKey(c.dict, k) /\ d.list = RemoveFirst(c.list, k)
      BY <1>2 DEF RemoveImpl
    <2> HIDE DEF d
    <2>2. c.list \in Seq(Keys) => d.list \in Seq(Keys)
      BY <2>1, ErasedSeq
    <2>3. Forgets(d, c) /\ k \notin DOMAIN d.dict
      BY <2>1, <2>2 DEF WithoutKey, Forgets
    <2> QED
      BY <2>3 DEF d
  <1> QED
    BY <1>1, <1>2

\* One turn of drainNumber's loop.
DrainOne(d) == IF DOMAIN d.dict = {} THEN d ELSE RemoveImpl(d, Last(d.list))

\* One round of draining only forgets.
LEMMA DrainOneForgets ==
  ASSUME NEW d
  PROVE  Forgets(DrainOne(d), d)
  BY RemoveForgets DEF DrainOne, Forgets

\* g is the run of n turns from c.
DrainRun(g, c, n) == g = [i \in 0 .. n |-> IF i = 0 THEN c ELSE DrainOne(g[i - 1])]

\* The rounds of draining exist for every number of them.
LEMMA DrainRunExists ==
  ASSUME NEW c, NEW n \in Nat
  PROVE  \E g : DrainRun(g, c, n)
  <1> DEFINE Bad == {m \in Nat : ~\E g : DrainRun(g, c, m)}
  <1> SUFFICES Bad = {}
    OBVIOUS
  <1> SUFFICES ASSUME Bad # {} PROVE FALSE
    OBVIOUS
  <1>1. PICK m \in Bad : \A y \in Bad : m <= y
    <2>1. Bad \subseteq Nat
      OBVIOUS
    <2> HIDE DEF Bad
    <2> QED
      BY <2>1, LeastIn
  <1>2. m # 0
    <2>1. DrainRun([i \in 0 .. 0 |-> c], c, 0)
      BY DEF DrainRun
    <2> QED
      BY <2>1
  <1>3. m - 1 \in Nat /\ m - 1 \notin Bad
    BY <1>1, <1>2
  <1>4. PICK g : DrainRun(g, c, m - 1)
    BY <1>3
  <1> DEFINE h == [i \in 0 .. m |-> IF i = m THEN DrainOne(g[m - 1]) ELSE g[i]]
  <1>5. DrainRun(h, c, m)
    <2>1. \A i \in 0 .. m : h[i] = IF i = 0 THEN c ELSE DrainOne(h[i - 1])
      <3> SUFFICES ASSUME NEW i \in 0 .. m PROVE h[i] = IF i = 0 THEN c ELSE DrainOne(h[i - 1])
        OBVIOUS
      <3>1. CASE i = m
        <4>1. h[i] = DrainOne(g[m - 1]) /\ h[i - 1] = g[m - 1]
          BY <1>2, <1>3, <3>1
        <4> QED
          BY <1>2, <3>1, <4>1
      <3>2. CASE i # m
        <4>1. i \in 0 .. (m - 1) /\ h[i] = g[i] /\ (i # 0 => h[i - 1] = g[i - 1])
          BY <1>1, <3>2
        <4>2. g[i] = IF i = 0 THEN c ELSE DrainOne(g[i - 1])
          BY <1>4, <4>1 DEF DrainRun
        <4> QED
          BY <4>1, <4>2
      <3> QED
        BY <3>1, <3>2
    <2>2. h = [i \in 0 .. m |-> h[i]]
      OBVIOUS
    <2> HIDE DEF h
    <2> QED
      BY <2>1, <2>2 DEF DrainRun
  <1> QED
    BY <1>1, <1>5

\* After any number of turns the cache holds nothing new.
LEMMA DrainForgets ==
  ASSUME NEW c, NEW number \in Nat
  PROVE  Forgets(DrainNumber(c, number), c)
  <1> DEFINE gone[i \in 0 .. number] ==
               IF i = 0 THEN c
               ELSE LET d == gone[i - 1]
                    IN  IF DOMAIN d.dict = {} THEN d ELSE RemoveImpl(d, Last(d.list))
  <1>1. DrainNumber(c, number) = gone[number]
    BY DEF DrainNumber
  <1>2. DrainRun(gone, c, number)
    <2>1. PICK g : DrainRun(g, c, number)
      BY DrainRunExists
    <2>2. g = [i \in 0 .. number |->
                 IF i = 0 THEN c
                 ELSE LET d == g[i - 1]
                      IN  IF DOMAIN d.dict = {} THEN d ELSE RemoveImpl(d, Last(d.list))]
      BY <2>1 DEF DrainRun, DrainOne
    <2>3. gone = [i \in 0 .. number |->
                    IF i = 0 THEN c
                    ELSE LET d == gone[i - 1]
                         IN  IF DOMAIN d.dict = {} THEN d ELSE RemoveImpl(d, Last(d.list))]
      BY <2>2
    <2> HIDE DEF gone
    <2> QED
      BY <2>3 DEF DrainRun, DrainOne
  <1> HIDE DEF gone
  <1>3. \A i \in 0 .. number : Forgets(gone[i], c)
    <2> DEFINE Bad == {i \in 0 .. number : ~Forgets(gone[i], c)}
    <2> SUFFICES ASSUME Bad # {} PROVE FALSE
      OBVIOUS
    <2>1. PICK m \in Bad : \A y \in Bad : m <= y
      <3>1. Bad \subseteq Nat
        OBVIOUS
      <3> HIDE DEF Bad
      <3> QED
        BY <3>1, LeastIn
    <2>2. m # 0
      BY <1>2 DEF DrainRun, Forgets
    <2>3. m - 1 \in 0 .. number /\ Forgets(gone[m - 1], c)
      BY <2>1, <2>2
    <2>4. gone[m] = DrainOne(gone[m - 1])
      BY <1>2, <2>1, <2>2 DEF DrainRun
    <2> QED
      BY <2>1, <2>3, <2>4, DrainOneForgets, ForgetsTransitive
  <1> QED
    BY <1>1, <1>3

\* One round of the reclaim loop.
ReclaimOne(d, max) == IF d.length <= max THEN d ELSE DrainNumber(d, BatchOf(Len(d.list)))

\* One round of reclaiming only forgets.
LEMMA ReclaimOneForgets ==
  ASSUME NEW d, NEW max, d.list \in Seq(Keys)
  PROVE  Forgets(ReclaimOne(d, max), d)
  <1>1. BatchOf(Len(d.list)) \in Nat
    <2>1. Len(d.list) \in Nat
      OBVIOUS
    <2>2. \A n \in Nat : n \div Share \in Int
      BY ShareAssumption
    <2>3. \A n \in Nat : BatchOf(n) \in Nat
      BY <2>2 DEF BatchOf
    <2> QED
      BY <2>1, <2>3
  <1> QED
    BY <1>1, DrainForgets DEF ReclaimOne, Forgets

\* g is the run of n rounds from c.
ReclaimRun(g, c, max, n) == g = [i \in 0 .. n |-> IF i = 0 THEN c ELSE ReclaimOne(g[i - 1], max)]

\* The rounds of reclaiming exist for every number of them.
LEMMA ReclaimRunExists ==
  ASSUME NEW c, NEW max, NEW n \in Nat
  PROVE  \E g : ReclaimRun(g, c, max, n)
  <1> DEFINE Bad == {m \in Nat : ~\E g : ReclaimRun(g, c, max, m)}
  <1> SUFFICES Bad = {}
    OBVIOUS
  <1> SUFFICES ASSUME Bad # {} PROVE FALSE
    OBVIOUS
  <1>1. PICK m \in Bad : \A y \in Bad : m <= y
    <2>1. Bad \subseteq Nat
      OBVIOUS
    <2> HIDE DEF Bad
    <2> QED
      BY <2>1, LeastIn
  <1>2. m # 0
    <2>1. ReclaimRun([i \in 0 .. 0 |-> c], c, max, 0)
      BY DEF ReclaimRun
    <2> QED
      BY <2>1
  <1>3. m - 1 \in Nat /\ m - 1 \notin Bad
    BY <1>1, <1>2
  <1>4. PICK g : ReclaimRun(g, c, max, m - 1)
    BY <1>3
  <1> DEFINE h == [i \in 0 .. m |-> IF i = m THEN ReclaimOne(g[m - 1], max) ELSE g[i]]
  <1>5. ReclaimRun(h, c, max, m)
    <2>1. \A i \in 0 .. m : h[i] = IF i = 0 THEN c ELSE ReclaimOne(h[i - 1], max)
      <3> SUFFICES ASSUME NEW i \in 0 .. m PROVE h[i] = IF i = 0 THEN c ELSE ReclaimOne(h[i - 1], max)
        OBVIOUS
      <3>1. CASE i = m
        <4>1. h[i] = ReclaimOne(g[m - 1], max) /\ h[i - 1] = g[m - 1]
          BY <1>2, <1>3, <3>1
        <4> QED
          BY <1>2, <3>1, <4>1
      <3>2. CASE i # m
        <4>1. i \in 0 .. (m - 1) /\ h[i] = g[i] /\ (i # 0 => h[i - 1] = g[i - 1])
          BY <1>1, <3>2
        <4>2. g[i] = IF i = 0 THEN c ELSE ReclaimOne(g[i - 1], max)
          BY <1>4, <4>1 DEF ReclaimRun
        <4> QED
          BY <4>1, <4>2
      <3> QED
        BY <3>1, <3>2
    <2>2. h = [i \in 0 .. m |-> h[i]]
      OBVIOUS
    <2> HIDE DEF h
    <2> QED
      BY <2>1, <2>2 DEF ReclaimRun
  <1> QED
    BY <1>1, <1>5

\* The reclaim loop removes entries and adds none.
LEMMA ReclaimForgets ==
  ASSUME NEW c, NEW max, c.list \in Seq(Keys)
  PROVE  Forgets(Reclaim(c, max), c)
  <1> DEFINE n == Len(c.list)
             round[i \in 0 .. n] ==
               IF i = 0 THEN c
               ELSE LET d == round[i - 1]
                    IN  IF d.length <= max THEN d
                        ELSE DrainNumber(d, BatchOf(Len(d.list)))
  <1>0. n \in Nat
    OBVIOUS
  <1>1. Reclaim(c, max) = round[n]
    BY DEF Reclaim
  <1> HIDE DEF n
  <1>2. ReclaimRun(round, c, max, n)
    <2>1. PICK g : ReclaimRun(g, c, max, n)
      BY <1>0, ReclaimRunExists
    <2>2. g = [i \in 0 .. n |->
                 IF i = 0 THEN c
                 ELSE LET d == g[i - 1]
                      IN  IF d.length <= max THEN d
                          ELSE DrainNumber(d, BatchOf(Len(d.list)))]
      BY <2>1 DEF ReclaimRun, ReclaimOne
    <2>3. round = [i \in 0 .. n |->
                     IF i = 0 THEN c
                     ELSE LET d == round[i - 1]
                          IN  IF d.length <= max THEN d
                              ELSE DrainNumber(d, BatchOf(Len(d.list)))]
      BY <2>2
    <2> HIDE DEF round
    <2> QED
      BY <2>3 DEF ReclaimRun, ReclaimOne
  <1> HIDE DEF round
  <1>3. \A i \in 0 .. n : Forgets(round[i], c)
    <2> DEFINE Bad == {i \in 0 .. n : ~Forgets(round[i], c)}
    <2> SUFFICES ASSUME Bad # {} PROVE FALSE
      OBVIOUS
    <2>1. PICK m \in Bad : \A y \in Bad : m <= y
      <3>1. Bad \subseteq Nat
        BY <1>0
      <3> HIDE DEF Bad
      <3> QED
        BY <3>1, LeastIn
    <2>2. m # 0
      BY <1>0, <1>2 DEF ReclaimRun, Forgets
    <2>3. m - 1 \in 0 .. n /\ Forgets(round[m - 1], c)
      BY <1>0, <2>1, <2>2
    <2>4. round[m] = ReclaimOne(round[m - 1], max)
      BY SMTT(60), <1>0, <1>2, <2>1, <2>2 DEF ReclaimRun
    <2>5. round[m - 1].list \in Seq(Keys)
      BY <2>3 DEF Forgets
    <2> QED
      BY <2>1, <2>3, <2>4, <2>5, ReclaimOneForgets, ForgetsTransitive
  <1> QED
    BY <1>0, <1>1, <1>3

-----------------------------------------------------------------------------
\* An LRU cache of entries.
Entered(c) == c.list \in Seq(Keys) /\ \A k \in DOMAIN c.dict : c.dict[k] \in Entries

IInv ==
  /\ now \in Nat
  /\ lru_caches = [i \in Shards |-> lru_caches[i]]
  /\ \A i \in Shards : Entered(lru_caches[i])

\* insert, lookup and remove leave what they leave.
LEMMA InsertForgets ==
  ASSUME NEW c, Entered(c), NEW k \in Keys, NEW e \in Entries, NEW max,
         NEW d, d = LruInsert(c, k, e, max)
  PROVE  /\ Entered(d)
         /\ \A j \in DOMAIN d.dict :
              (j = k => d.dict[j] = e) /\ (j # k => j \in DOMAIN c.dict /\ d.dict[j] = c.dict[j])
  <1> DEFINE r == RemoveImpl(c, k)
             list == <<k>> \o r.list
             dict == [j \in DOMAIN r.dict \cup {k} |-> IF j = k THEN e ELSE r.dict[j]]
             full == [dict |-> dict, list |-> list, length |-> r.length + e.length]
  <1>1. Forgets(r, c)
    BY RemoveForgets
  <1>2. d = Reclaim(full, max)
    BY DEF LruInsert
  <1> HIDE DEF r
  <1>3. list \in Seq(Keys)
    <2>1. r.list \in Seq(Keys) /\ <<k>> \in Seq(Keys)
      BY <1>1 DEF Forgets, Entered
    <2> QED
      BY <2>1, ConcatProperties
  <1>4. full.list \in Seq(Keys) /\ full.dict = dict
    BY <1>3
  <1> HIDE DEF full
  <1>5. Forgets(d, full)
    BY <1>2, <1>4, ReclaimForgets
  <1>6. \A j \in DOMAIN dict :
          (j = k => dict[j] = e) /\ (j # k => j \in DOMAIN c.dict /\ dict[j] = c.dict[j])
    BY <1>1 DEF Forgets
  <1> HIDE DEF dict
  <1>7. \A j \in DOMAIN d.dict :
          (j = k => d.dict[j] = e) /\ (j # k => j \in DOMAIN c.dict /\ d.dict[j] = c.dict[j])
    BY <1>4, <1>5, <1>6 DEF Forgets
  <1>8. Entered(d)
    BY <1>4, <1>5, <1>7 DEF Entered, Forgets
  <1> QED
    BY <1>7, <1>8

\* What is left of entered entries was entered.
LEMMA ForgetsEntered ==
  ASSUME NEW c, NEW d, Entered(c), Forgets(d, c)
  PROVE  Entered(d)
  BY DEF Entered, Forgets

\* A lookup forgets at most its key, and finds only what has not expired.
LEMMA LookupForgets ==
  ASSUME NEW c, Entered(c), NEW k \in Keys, now \in Nat,
         NEW r, r = LruLookup(c, k, now)
  PROVE  /\ Forgets(r.lru, c)
         /\ \/ r.entry = NoEntry
            \/ k \in DOMAIN c.dict /\ now < c.dict[k].expire /\ r.entry = c.dict[k]
  <1> DEFINE d == CheckMemory(c)
  <1>1. Forgets(d, c)
    BY DEF CheckMemory, EmptyLru, Forgets
  <1>2. Entered(d)
    BY <1>1, ForgetsEntered
  <1> HIDE DEF d
  <1>3. CASE k \notin DOMAIN d.dict
    BY <1>1, <1>3 DEF LruLookup, d
  <1>4. CASE k \in DOMAIN d.dict /\ EntryExpired(d.dict[k], now)
    <2>1. r = [lru |-> RemoveImpl(d, k), entry |-> NoEntry]
      BY <1>4 DEF LruLookup, d
    <2>2. Forgets(RemoveImpl(d, k), c)
      BY <1>1, RemoveForgets, ForgetsTransitive
    <2>3. r.lru = RemoveImpl(d, k) /\ r.entry = NoEntry
      BY <2>1
    <2> QED
      BY <2>2, <2>3
  <1>5. CASE k \in DOMAIN d.dict /\ ~EntryExpired(d.dict[k], now)
    <2>1. r = [lru |-> Touch(d, k), entry |-> d.dict[k]]
      BY <1>5 DEF LruLookup, d
    <2>2. k \in DOMAIN c.dict /\ d.dict[k] = c.dict[k]
      BY <1>1, <1>5 DEF Forgets
    <2>3. now < c.dict[k].expire
      <3>1. c.dict[k] \in Entries
        BY <2>2 DEF Entered
      <3>2. c.dict[k].expire \in Nat
        BY <3>1, EntriesAssumption
      <3> QED
        BY <1>5, <2>2, <3>2 DEF EntryExpired
    <2>4. Forgets(Touch(d, k), d)
      <3> DEFINE l == <<k>> \o RemoveFirst(d.list, k)
      <3>1. l \in Seq(Keys)
        <4>1. RemoveFirst(d.list, k) \in Seq(Keys) /\ <<k>> \in Seq(Keys)
          BY <1>2, ErasedSeq DEF Entered
        <4> QED
          BY <4>1, ConcatProperties
      <3>2. Touch(d, k).list = l /\ Touch(d, k).dict = d.dict
        BY DEF Touch
      <3> HIDE DEF l
      <3> QED
        BY <3>1, <3>2 DEF Forgets
    <2>5. Forgets(Touch(d, k), c)
      BY <1>1, <2>4, ForgetsTransitive
    <2>6. r.lru = Touch(d, k) /\ r.entry = d.dict[k]
      BY <2>1
    <2> QED
      BY <2>2, <2>3, <2>5, <2>6
  <1> QED
    BY <1>3, <1>4, <1>5

-----------------------------------------------------------------------------
\* A call on the shard of k changes that shard only.
LEMMA ShardStep ==
  ASSUME IInv, NEW k \in Keys, NEW d, lru_caches' = [lru_caches EXCEPT ![ShardOf[k]] = d], Entered(d)
  PROVE  /\ lru_caches' = [i \in Shards |-> lru_caches'[i]]
         /\ \A i \in Shards : Entered(lru_caches'[i])
         /\ lru_caches'[ShardOf[k]] = d
         /\ \A i \in Shards : i # ShardOf[k] => lru_caches'[i] = lru_caches[i]
         /\ ShardOf[k] \in Shards
  BY ShardsAssumption DEF IInv

\* insertCache is an insert of the contract.
LEMMA InsertImplements ==
  ASSUME IInv, NEW k \in Keys, NEW e \in Entries, InsertCache(k, e)
  PROVE  IInv' /\ Contract!Insert(k, e)
  <1> DEFINE i == ShardOf[k]
             c == lru_caches[i]
             d == LruInsert(c, k, e, SingleMax)
  <1>1. i \in Shards /\ Entered(c)
    BY ShardsAssumption DEF IInv
  <1>2. lru_caches' = [lru_caches EXCEPT ![i] = d] /\ now' = now /\ reply' = <<NoEntry, NoEntry>>
    BY DEF InsertCache
  <1> HIDE DEF c
  <1>3. /\ Entered(d)
        /\ \A j \in DOMAIN d.dict :
             (j = k => d.dict[j] = e) /\ (j # k => j \in DOMAIN c.dict /\ d.dict[j] = c.dict[j])
    BY <1>1, InsertForgets
  <1> HIDE DEF d
  <1>4. /\ lru_caches' = [j \in Shards |-> lru_caches'[j]]
        /\ \A j \in Shards : Entered(lru_caches'[j])
        /\ lru_caches'[i] = d
        /\ \A j \in Shards : j # i => lru_caches'[j] = lru_caches[j]
    BY <1>2, <1>3, ShardStep
  <1>5. IInv'
    BY <1>2, <1>4 DEF IInv
  <1>6. \A j \in Keys : Holds(j)' =>
          /\ j = k => lru_caches'[ShardOf[j]].dict[j] = e
          /\ j # k => Holds(j) /\ lru_caches'[ShardOf[j]].dict[j] = lru_caches[ShardOf[j]].dict[j]
    BY <1>3, <1>4, ShardsAssumption DEF Holds, KeysIn, c
  <1>7. Contract!Insert(k, e)
    BY <1>2, <1>6 DEF Contract!Insert, Contract!Forgetting, Remembered
  <1> QED
    BY <1>5, <1>7

\* removeCache is a removal of the contract.
LEMMA RemoveImplements ==
  ASSUME IInv, NEW k \in Keys, RemoveCache(k)
  PROVE  IInv' /\ Contract!Remove(k)
  <1> DEFINE i == ShardOf[k]
             c == lru_caches[i]
             d == RemoveImpl(c, k)
  <1>1. i \in Shards /\ Entered(c)
    BY ShardsAssumption DEF IInv
  <1>2. lru_caches' = [lru_caches EXCEPT ![i] = d] /\ now' = now /\ reply' = <<NoEntry, NoEntry>>
    BY DEF RemoveCache
  <1> HIDE DEF c
  <1>3. Forgets(d, c) /\ k \notin DOMAIN d.dict /\ Entered(d)
    BY <1>1, RemoveForgets, ForgetsEntered
  <1> HIDE DEF d
  <1>4. /\ lru_caches' = [j \in Shards |-> lru_caches'[j]]
        /\ \A j \in Shards : Entered(lru_caches'[j])
        /\ lru_caches'[i] = d
        /\ \A j \in Shards : j # i => lru_caches'[j] = lru_caches[j]
    BY <1>2, <1>3, ShardStep
  <1>5. IInv'
    BY <1>2, <1>4 DEF IInv
  <1>6. /\ ~Holds(k)'
        /\ \A j \in Keys : Holds(j)' =>
             Holds(j) /\ lru_caches'[ShardOf[j]].dict[j] = lru_caches[ShardOf[j]].dict[j]
    BY <1>3, <1>4, ShardsAssumption DEF Holds, KeysIn, Forgets, c
  <1>7. Contract!Remove(k)
    BY <1>2, <1>6 DEF Contract!Remove, Contract!Forgetting, Remembered
  <1> QED
    BY <1>5, <1>7

\* lookupCache is a lookup of the contract.
LEMMA LookupImplements ==
  ASSUME IInv, NEW k \in Keys, LookupCache(k)
  PROVE  IInv' /\ Contract!Lookup(k)
  <1> DEFINE i == ShardOf[k]
             c == lru_caches[i]
             r == LruLookup(c, k, now)
             d == r.lru
  <1>1. i \in Shards /\ Entered(c) /\ now \in Nat
    BY ShardsAssumption DEF IInv
  <1>2. lru_caches' = [lru_caches EXCEPT ![i] = d] /\ now' = now /\ reply' = <<k, r.entry>>
    BY DEF LookupCache
  <1> HIDE DEF c
  <1>3. /\ Forgets(d, c)
        /\ \/ r.entry = NoEntry
           \/ k \in DOMAIN c.dict /\ now < c.dict[k].expire /\ r.entry = c.dict[k]
    BY <1>1, LookupForgets
  <1> HIDE DEF r
  <1>4. Entered(d)
    BY <1>1, <1>3, ForgetsEntered
  <1> HIDE DEF d
  <1>5. /\ lru_caches' = [j \in Shards |-> lru_caches'[j]]
        /\ \A j \in Shards : Entered(lru_caches'[j])
        /\ lru_caches'[i] = d
        /\ \A j \in Shards : j # i => lru_caches'[j] = lru_caches[j]
    BY <1>2, <1>4, ShardStep
  <1>6. IInv'
    BY <1>2, <1>5 DEF IInv
  <1>7. \A j \in Keys : Holds(j)' =>
          Holds(j) /\ lru_caches'[ShardOf[j]].dict[j] = lru_caches[ShardOf[j]].dict[j]
    BY <1>3, <1>5, ShardsAssumption DEF Holds, KeysIn, Forgets, c
  <1>8. \/ reply' = <<k, NoEntry>>
        \/ Holds(k) /\ now < lru_caches[ShardOf[k]].dict[k].expire
             /\ reply' = <<k, lru_caches[ShardOf[k]].dict[k]>>
    BY <1>2, <1>3 DEF Holds, KeysIn, c
  <1>9. Contract!Lookup(k)
    BY <1>2, <1>7, <1>8 DEF Contract!Lookup, Contract!Forgetting, Remembered
  <1> QED
    BY <1>6, <1>9

\* Every step of the cache is a step of the contract.
LEMMA StepImplements ==
  ASSUME IInv, [Next]_vars
  PROVE  IInv' /\ [Contract!Next]_(Contract!vars)
  <1>1. ASSUME NEW k \in Keys, NEW e \in Entries, InsertCache(k, e)
        PROVE  IInv' /\ Contract!Next
    BY <1>1, InsertImplements DEF Contract!Next
  <1>2. ASSUME NEW k \in Keys, RemoveCache(k)
        PROVE  IInv' /\ Contract!Next
    BY <1>2, RemoveImplements DEF Contract!Next
  <1>3. ASSUME NEW k \in Keys, LookupCache(k)
        PROVE  IInv' /\ Contract!Next
    BY <1>3, LookupImplements DEF Contract!Next
  <1>4. CASE Tick
    <2>1. IInv'
      BY <1>4 DEF Tick, IInv, Entered
    <2>2. Remembered' = Remembered
      BY <1>4 DEF Tick, Remembered, Holds, KeysIn
    <2>3. Contract!Tick
      BY <1>4, <2>2 DEF Tick, Contract!Tick
    <2> QED
      BY <2>1, <2>3 DEF Contract!Next
  <1>5. CASE UNCHANGED vars
    <2>1. IInv'
      BY <1>5 DEF vars, IInv, Entered
    <2>2. Remembered' = Remembered /\ now' = now /\ reply' = reply
      BY <1>5 DEF vars, Remembered, Holds, KeysIn
    <2> QED
      BY <2>1, <2>2 DEF Contract!vars
  <1> QED
    BY <1>1, <1>2, <1>3, <1>4, <1>5 DEF Next

\* The sharded LRU cache implements what CommonCacheBase promises: a lookup returns
\* an entry that has expired, was replaced or was removed in no execution, whatever
\* insertCache reclaims and checkMemory repairs.
THEOREM CacheImplementsContract == Spec => KeepsContract
  <1>1. Init => IInv /\ Contract!Init
    <2> SUFFICES ASSUME Init PROVE IInv /\ Contract!Init
      OBVIOUS
    <2>1. IInv
      <3>1. <<>> \in Seq(Keys)
        OBVIOUS
      <3>2. EmptyLru.list = <<>> /\ DOMAIN EmptyLru.dict = {}
        BY DEF EmptyLru
      <3>3. Entered(EmptyLru)
        BY <3>1, <3>2 DEF Entered
      <3> QED
        BY <3>3 DEF Init, IInv
    <2>2. \A k \in Keys : ~Holds(k)
      BY ShardsAssumption DEF Init, Holds, KeysIn, EmptyLru
    <2>3. Remembered = [k \in {} |-> NoEntry]
      BY <2>2 DEF Remembered
    <2> QED
      BY <2>1, <2>3 DEF Init, Contract!Init
  <1>2. IInv /\ [Next]_vars => IInv' /\ [Contract!Next]_(Contract!vars)
    BY StepImplements
  <1> QED
    BY <1>1, <1>2, PTL DEF Spec, KeepsContract, Contract!Spec

=============================================================================
