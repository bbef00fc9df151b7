--------------------------- MODULE CacheContract ---------------------------
(***************************************************************************)
(* What CommonCacheBase promises its users: a cache may forget an entry at  *)
(* any moment, but a lookup never returns an entry that was replaced,       *)
(* removed or has expired.                                                  *)
(***************************************************************************)
EXTENDS Integers

CONSTANTS Keys, Entries, NoEntry

VARIABLES
  now,    \* the timestamp that entries are compared with
  store,  \* the entries the cache still remembers
  reply   \* the key and the result when the last step was a lookup

vars == <<now, store, reply>>

Init ==
  /\ now \in Nat
  /\ store = [k \in {} |-> NoEntry]
  /\ reply = <<NoEntry, NoEntry>>

Forgetting(full) ==
  /\ DOMAIN store' \subseteq DOMAIN full
  /\ \A k \in DOMAIN store' : store'[k] = full[k]

Insert(k, e) ==
  /\ Forgetting([j \in DOMAIN store \cup {k} |-> IF j = k THEN e ELSE store[j]])
  /\ reply' = <<NoEntry, NoEntry>>
  /\ UNCHANGED now

Remove(k) ==
  /\ k \notin DOMAIN store'
  /\ Forgetting(store)
  /\ reply' = <<NoEntry, NoEntry>>
  /\ UNCHANGED now

Lookup(k) ==
  /\ Forgetting(store)
  /\ \/ reply' = <<k, NoEntry>>
     \/ /\ k \in DOMAIN store
        /\ now < store[k].expire
        /\ reply' = <<k, store[k]>>
  /\ UNCHANGED now

Tick ==
  /\ now' = now + 1
  /\ reply' = <<NoEntry, NoEntry>>
  /\ UNCHANGED store

Next ==
  \/ \E k \in Keys : (\E e \in Entries : Insert(k, e)) \/ Remove(k) \/ Lookup(k)
  \/ Tick

Spec == Init /\ [][Next]_vars

=============================================================================
