------------------------------ MODULE LruCache ------------------------------
(***************************************************************************)
(* LruCacheImpl as operations on a value [dict, list, length]: m_dict_ (the *)
(* entries by key), m_list_ (most recently used key first) and              *)
(* cache_length_.  Every operation runs under the cache's mutex.            *)
(***************************************************************************)
EXTENDS Integers, Sequences, SequencesExt

CONSTANTS
  NoEntry,  \* nullptr
  Share     \* drainNumber takes 1/Share of the entries at a time (10 in the code)

ASSUME ShareAssumption == Share \in Nat \ {0}

EmptyLru == [dict |-> [k \in {} |-> NoEntry], list |-> <<>>, length |-> 0]

WithoutKey(f, k) == [j \in DOMAIN f \ {k} |-> f[j]]

RemoveImpl(c, k) ==
  IF k \notin DOMAIN c.dict THEN c
  ELSE [dict   |-> WithoutKey(c.dict, k),
        list   |-> RemoveFirst(c.list, k),
        length |-> c.length - c.dict[k].length]

\* How many entries one round of the reclaim loop removes.
BatchOf(n) == IF n \div Share > 1 THEN n \div Share ELSE 1

\* A variant of DrainNumber that starts from the wrong end of the list.
DrainNumberNewest(c, number) ==
  LET gone[i \in 0 .. number] ==
        IF i = 0 THEN c
        ELSE LET d == gone[i - 1]
             IN  IF DOMAIN d.dict = {} THEN d ELSE RemoveImpl(d, Head(d.list))
  IN  gone[number]

\* drainNumber: remove the last `number' keys of the list, one by one.
DrainNumber(c, number) ==
  LET gone[i \in 0 .. number] ==
        IF i = 0 THEN c
        ELSE LET d == gone[i - 1]
             IN  IF DOMAIN d.dict = {} THEN d ELSE RemoveImpl(d, Last(d.list))
  IN  gone[number]

\* The reclaim loop of insert.
Reclaim(c, max) ==
  LET round[i \in 0 .. Len(c.list)] ==
        IF i = 0 THEN c
        ELSE LET d == round[i - 1]
             IN  IF d.length <= max THEN d
                 ELSE DrainNumber(d, BatchOf(Len(d.list)))
  IN  round[Len(c.list)]

LruInsert(c, k, e, max) ==
  LET d == RemoveImpl(c, k)
  IN  Reclaim([dict   |-> [j \in DOMAIN d.dict \cup {k} |-> IF j = k THEN e ELSE d.dict[j]],
               list   |-> <<k>> \o d.list,
               length |-> d.length + e.length], max)

\* checkMemory: start afresh when list and dictionary disagree.
CheckMemory(c) ==
  IF Len(c.list) # Cardinality(DOMAIN c.dict) THEN EmptyLru ELSE c

\* A variant of EntryExpired with the comparison off by one.
EntryExpiredLate(e, now) == now > e.expire

EntryExpired(e, now) == now >= e.expire

\* A variant of Touch that does not move the key.
TouchNothing(c, k) == c

\* A hit moves the key to the front of the list.
Touch(c, k) == [dict |-> c.dict, list |-> <<k>> \o RemoveFirst(c.list, k), length |-> c.length]

\* lookup: the cache afterwards and the entry returned.
LruLookup(c, k, now) ==
  LET d == CheckMemory(c)
  IN  IF k \notin DOMAIN d.dict THEN [lru |-> d, entry |-> NoEntry]
      ELSE IF EntryExpired(d.dict[k], now) THEN [lru |-> RemoveImpl(d, k), entry |-> NoEntry]
      ELSE [lru |-> Touch(d, k), entry |-> d.dict[k]]

=============================================================================
