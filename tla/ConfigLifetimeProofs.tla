------------------------- MODULE ConfigLifetimeProofs -------------------------
(***************************************************************************)
(* Proofs about ConfigLifetime, for any configurations, routes and workers *)
(* and any bounds: the admin handlers follow the newest configuration, and  *)
(* the cache of weak pointers keeps the StatsScopes of equal tags together. *)
(***************************************************************************)
EXTENDS ConfigLifetime, TLAPS

\* Configurations are created in order, and admin and uuid map agree.
AdminInv ==
  /\ \A k, l \in Listeners : k < l /\ listener[l] # "none" => listener[k] # "none"
  /\ owner = handler
  /\ \A p \in AdminPrefixes : handler[p] # 0 => PrefixOf[handler[p]] = p
  /\ AdminHandlerOwned

\* A scopes pointer is held from the creation of a route to the erasure, equal
\* pointers mean equal tags, and no pointer is new twice.
ScopesInv ==
  /\ \A r \in Routes : scopes[r] # 0 <=> route[r] \in {"live", "leaving"}
  /\ \A r \in Routes : holders[r] # {} => route[r] = "live"
  /\ \A r \in Routes : scopes[r] <= born
  /\ \A q, r \in Routes : scopes[q] # 0 /\ scopes[q] = scopes[r] => TagsOf[q] = TagsOf[r]
  /\ \A x \in counted : route[x[1]] # "none"
  /\ ScopesShared

IInv == TypeOK /\ AdminInv /\ ScopesInv

\* The tags of a route are tags.
LEMMA TagsFact == \A r \in Routes : TagsOf[r] \in Tags
  BY DEF Tags

\* A listener that has an admin prefix has one of the prefixes.
LEMMA PrefixFact == \A l \in Listeners : PrefixOf[l] # "" => PrefixOf[l] \in AdminPrefixes
  BY DEF AdminPrefixes

\* The first state satisfies the invariant.
LEMMA InitInv == Init => IInv
  <1> SUFFICES ASSUME Init PROVE IInv
    OBVIOUS
  <1>1. TypeOK
    BY DEF Init, TypeOK
  <1>2. AdminInv
    BY DEF Init, AdminInv, AdminHandlerOwned
  <1>3. ScopesInv
    BY TagsFact DEF Init, ScopesInv, ScopesShared
  <1> QED
    BY <1>1, <1>2, <1>3 DEF IInv

\* What the actions on listeners leave alone, and the other way round.
LEMMA AdminFrame == AdminInv /\ UNCHANGED adminVars => AdminInv'
  BY DEF AdminInv, AdminHandlerOwned, adminVars

\* The scopes are as sound as before where no route changes.
LEMMA RouteFrame == ScopesInv /\ UNCHANGED routeVars => ScopesInv'
  BY DEF ScopesInv, ScopesShared, routeVars

\* A new listener takes the handler over or leaves it.
LEMMA CreateListenerInv ==
  ASSUME TypeOK, AdminInv, NEW l \in Listeners, CreateListener(l)
  PROVE  AdminInv'
  <1> DEFINE p == PrefixOf[l]
  <1> USE ConfigAssumption
  <1>1. \A k \in Listeners : k > l => listener[k] = "none"
    BY DEF CreateListener, AdminInv
  <1>2. listener' = [listener EXCEPT ![l] = "live"] /\ listener[l] = "none"
    BY DEF CreateListener
  <1>3. (\A j, k \in Listeners : j < k /\ listener[k] # "none" => listener[j] # "none")'
    <2> SUFFICES ASSUME NEW j \in Listeners, NEW k \in Listeners, j < k, listener'[k] # "none"
                 PROVE  listener'[j] # "none"
      OBVIOUS
    <2>1. \A i \in Listeners : listener'[i] = IF i = l THEN "live" ELSE listener[i]
      BY <1>2 DEF TypeOK
    <2>2. \A i \in Listeners : i < l => listener[i] # "none"
      BY DEF CreateListener
    <2>3. listener[k] # "none" => listener[j] # "none"
      BY DEF AdminInv
    <2> QED
      BY <2>1, <2>2, <2>3
  <1>4. (owner = handler)' /\ (\A q \in AdminPrefixes : handler[q] # 0 => PrefixOf[handler[q]] = q)'
    BY PrefixFact DEF CreateListener, AdminInv, TypeOK
  <1>5. ASSUME NEW q \in AdminPrefixes, NEW k \in Listeners, PrefixOf[k] = q, listener'[k] # "none",
               \A j \in Listeners : j > k /\ PrefixOf[j] = q => listener'[j] = "none"
        PROVE  handler'[q] = IF listener'[k] = "live" THEN k ELSE 0
    <2>0. q # ""
      BY DEF AdminPrefixes
    <2>1. CASE q = p
      <3>1. k = l
        BY <1>1, <1>2, <1>5, <2>1 DEF TypeOK
      <3> QED
        BY <1>2, <2>0, <2>1, <3>1 DEF CreateListener, TypeOK
    <2>2. CASE q # p
      <3>1. k # l /\ listener'[k] = listener[k] /\ handler'[q] = handler[q]
        BY <1>2, <1>5, <2>2 DEF CreateListener, TypeOK
      <3>2. \A j \in Listeners : j > k /\ PrefixOf[j] = q => listener[j] = "none"
        BY SMTT(60), <1>2, <1>5, <2>2 DEF TypeOK
      <3> QED
        BY <1>5, <3>1, <3>2 DEF AdminInv, AdminHandlerOwned
    <2> QED
      BY <2>1, <2>2
  <1> QED
    BY <1>3, <1>4, <1>5 DEF AdminInv, AdminHandlerOwned

\* A listener that goes removes the handler only if it is its own.
LEMMA DestroyListenerInv ==
  ASSUME TypeOK, AdminInv, NEW l \in Listeners, DestroyListener(l)
  PROVE  AdminInv'
  <1> DEFINE p == PrefixOf[l]
  <1> USE ConfigAssumption
  <1>2. listener' = [listener EXCEPT ![l] = "gone"] /\ listener[l] = "live"
    BY DEF DestroyListener
  <1>3. (\A j, k \in Listeners : j < k /\ listener[k] # "none" => listener[j] # "none")'
    BY <1>2 DEF AdminInv, TypeOK
  <1>4. (owner = handler)' /\ (\A q \in AdminPrefixes : handler[q] # 0 => PrefixOf[handler[q]] = q)'
    BY PrefixFact DEF DestroyListener, StillOwner, AdminInv, TypeOK
  <1>5. ASSUME NEW q \in AdminPrefixes, NEW k \in Listeners, PrefixOf[k] = q, listener'[k] # "none",
               \A j \in Listeners : j > k /\ PrefixOf[j] = q => listener'[j] = "none"
        PROVE  handler'[q] = IF listener'[k] = "live" THEN k ELSE 0
    <2>0. q # "" /\ listener[k] # "none"
      BY <1>2, <1>5 DEF AdminPrefixes, TypeOK
    <2>1. \A j \in Listeners : j > k /\ PrefixOf[j] = q => listener[j] = "none"
      BY <1>2, <1>5 DEF TypeOK
    <2>2. handler[q] = IF listener[k] = "live" THEN k ELSE 0
      BY <1>5, <2>0, <2>1 DEF AdminInv, AdminHandlerOwned
    <2>3. CASE k = l
      BY <1>2, <1>5, <2>0, <2>2, <2>3 DEF DestroyListener, StillOwner, AdminInv, TypeOK
    <2>4. CASE k # l
      <3>1. handler[q] # l /\ listener'[k] = listener[k]
        BY <1>2, <2>2, <2>4 DEF TypeOK
      <3>2. handler'[q] = handler[q]
        BY <3>1 DEF DestroyListener, StillOwner, AdminInv, TypeOK
      <3> QED
        BY <2>2, <3>1, <3>2
    <2> QED
      BY <2>3, <2>4
  <1> QED
    BY <1>3, <1>4, <1>5 DEF AdminInv, AdminHandlerOwned

\* Every step keeps the handler with the newest listener.
LEMMA AdminNext == TypeOK /\ AdminInv /\ [Next]_vars => AdminInv'
  <1> SUFFICES ASSUME TypeOK, AdminInv, [Next]_vars PROVE AdminInv'
    OBVIOUS
  <1>1. ASSUME NEW l \in Listeners, CreateListener(l) \/ DestroyListener(l) PROVE AdminInv'
    BY <1>1, CreateListenerInv, DestroyListenerInv
  <1>2. ASSUME NEW p \in AdminPrefixes, NEW action \in {"remove", "other"}, NEW body \in AdminBodies,
               AdminRequest(p, action, body)
        PROVE  AdminInv'
    BY <1>2 DEF AdminRequest, AdminInv, AdminHandlerOwned
  <1>3. ASSUME NEW r \in Routes, CreateRoute(r) \/ DropRoute(r) \/ RunPosted(r) \/ EraseStatsScopes(r)
        PROVE  AdminInv'
    BY SMTT(60), <1>3, AdminFrame DEF CreateRoute, DropRoute, RunPosted, EraseStatsScopes
  <1>4. ASSUME NEW w \in Workers, NEW r \in Routes,
               \/ \E request \in Requests : StartStream(w, r, request)
               \/ \E responded \in BOOLEAN : EndStream(w, r, responded)
        PROVE  AdminInv'
    BY <1>4, AdminFrame DEF StartStream, EndStream
  <1>5. CASE Tick
    BY <1>5, AdminFrame DEF Tick
  <1>6. CASE UNCHANGED vars
    BY <1>6, AdminFrame DEF vars
  <1> QED
    BY <1>1, <1>2, <1>3, <1>4, <1>5, <1>6 DEF Next

-------------------------------------------------------------------------------
\* Releasing a route keeps the types.
LEMMA ReleaseType ==
  ASSUME TypeOK, NEW r \in Routes, NEW thread, Release(r, thread)
  PROVE  /\ holders' \in [Routes -> SUBSET (Workers \cup {Main})]
         /\ route' \in [Routes -> {"none", "live", "leaving", "gone"}]
         /\ slot' \in [Routes -> {"none", "set", "posted", "freed"}]
  BY DEF TypeOK, Release

\* Every step keeps the types.
LEMMA TypeNext == TypeOK /\ [Next]_vars => TypeOK'
  <1> SUFFICES ASSUME TypeOK, [Next]_vars PROVE TypeOK'
    OBVIOUS
  <1>1. ASSUME NEW l \in Listeners, CreateListener(l) \/ DestroyListener(l) PROVE TypeOK'
    <2>1. CASE CreateListener(l)
      BY <2>1, PrefixFact DEF CreateListener, TypeOK, routeVars
    <2>2. CASE DestroyListener(l)
      BY <2>2, PrefixFact DEF DestroyListener, StillOwner, TypeOK, routeVars
    <2> QED
      BY <1>1, <2>1, <2>2
  <1>2. ASSUME NEW p \in AdminPrefixes, NEW action \in {"remove", "other"}, NEW body \in AdminBodies,
               AdminRequest(p, action, body)
        PROVE  TypeOK'
    BY <1>2 DEF AdminRequest, TypeOK, routeVars
  <1>3. ASSUME NEW r \in Routes, CreateRoute(r) PROVE TypeOK'
    BY <1>3, TagsFact DEF CreateRoute, TypeOK, adminVars
  <1>4. ASSUME NEW r \in Routes, DropRoute(r) PROVE TypeOK'
    BY <1>4, ReleaseType DEF DropRoute, TypeOK, adminVars
  <1>5. ASSUME NEW r \in Routes, RunPosted(r) \/ EraseStatsScopes(r) PROVE TypeOK'
    BY SMTT(60), <1>5, TagsFact DEF RunPosted, EraseStatsScopes, TypeOK, adminVars
  <1>6. ASSUME NEW w \in Workers, NEW r \in Routes, NEW request \in Requests, StartStream(w, r, request)
        PROVE  TypeOK'
    BY <1>6 DEF StartStream, TypeOK, adminVars
  <1>7. ASSUME NEW w \in Workers, NEW r \in Routes, NEW responded \in BOOLEAN, EndStream(w, r, responded)
        PROVE  TypeOK'
    <2>1. counted' \subseteq Routes \X Nat
      BY <1>7 DEF EndStream, TypeOK
    <2> QED
      BY <1>7, <2>1, ReleaseType DEF EndStream, TypeOK, adminVars
  <1>8. CASE Tick
    BY <1>8 DEF Tick, TypeOK, adminVars, routeVars
  <1>9. CASE UNCHANGED vars
    BY <1>9 DEF vars, TypeOK, adminVars, routeVars
  <1> QED
    BY SMTT(60), <1>1, <1>2, <1>3, <1>4, <1>5, <1>6, <1>7, <1>8, <1>9 DEF Next

-------------------------------------------------------------------------------
\* A new route takes up the scopes its tags have in the cache, which a route still
\* holds, or brings scopes that nobody has.
LEMMA CreateRouteInv ==
  ASSUME TypeOK, ScopesInv, NEW r \in Routes, CreateRoute(r)
  PROVE  ScopesInv'
  <1> DEFINE t == TagsOf[r]
             found == cached[t] # 0 /\ ~Expired(cached[t])
             s == IF found THEN cached[t] ELSE born + 1
  <1> USE DEF TypeOK
  <1>0. t \in Tags /\ scopes[r] = 0 /\ route[r] = "none"
    BY TagsFact DEF CreateRoute, ScopesInv
  <1>1. /\ route' = [route EXCEPT ![r] = "live"] /\ holders' = [holders EXCEPT ![r] = {Main}]
        /\ scopes' = [scopes EXCEPT ![r] = s] /\ cached' = [cached EXCEPT ![t] = s]
        /\ born' = (IF found THEN born ELSE born + 1) /\ counted' = counted
    BY DEF CreateRoute
  <1>2. s \in Nat \ {0} /\ s <= born' /\ born <= born'
    BY <1>0, <1>1 DEF ScopesInv, Expired
  <1>3. \A q \in Routes \ {r} : scopes[q] = s => TagsOf[q] = t
    BY <1>0 DEF ScopesInv, ScopesShared, Expired
  <1>4. \A q \in Routes \ {r} : scopes[q] # 0 /\ TagsOf[q] = t => s = scopes[q]
    BY <1>0 DEF ScopesInv, ScopesShared, Expired
  <1>5. (\A q \in Routes : scopes[q] # 0 <=> route[q] \in {"live", "leaving"})'
    BY <1>0, <1>1, <1>2 DEF ScopesInv
  <1>6. (\A q \in Routes : holders[q] # {} => route[q] = "live")'
    BY <1>1 DEF ScopesInv
  <1>7. (\A q \in Routes : scopes[q] <= born)'
    BY <1>1, <1>2 DEF ScopesInv
  <1>8. (\A q, k \in Routes : scopes[q] # 0 /\ scopes[q] = scopes[k] => TagsOf[q] = TagsOf[k])'
    BY <1>0, <1>1, <1>3 DEF ScopesInv
  <1>9. (\A x \in counted : route[x[1]] # "none")'
    BY <1>1 DEF ScopesInv
  <1>10. (\A q \in Routes : scopes[q] # 0 => cached[TagsOf[q]] = scopes[q])'
    BY SMTT(60), <1>0, <1>1, <1>4, TagsFact DEF ScopesInv, ScopesShared
  <1>11. (\A u \in Tags : cached[u] # 0 => \E q \in Routes : TagsOf[q] = u /\ scopes[q] = cached[u])'
    <2> SUFFICES ASSUME NEW u \in Tags, cached'[u] # 0
                 PROVE  \E q \in Routes : TagsOf[q] = u /\ scopes'[q] = cached'[u]
      BY <1>1
    <2>1. CASE u = t
      BY <1>0, <1>1, <2>1
    <2>2. CASE u # t
      <3>1. PICK q \in Routes : TagsOf[q] = u /\ scopes[q] = cached[u]
        BY <1>1, <2>2 DEF ScopesInv, ScopesShared
      <3> QED
        BY SMTT(60), <1>1, <2>2, <3>1
    <2> QED
      BY <2>1, <2>2
  <1>12. (\A q \in Routes : holders[q] # {} => scopes[q] # 0)'
    BY SMTT(60), <1>1, <1>2, <1>5, <1>6
  <1>13. (\A x \in counted : scopes[x[1]] # 0 => x[2] = scopes[x[1]])'
    <2> SUFFICES ASSUME NEW x \in counted, scopes'[x[1]] # 0
                 PROVE  x[2] = scopes'[x[1]]
      BY <1>1
    <2>1. x[1] \in Routes /\ x[1] # r
      BY <1>0 DEF ScopesInv
    <2> QED
      BY <1>1, <2>1 DEF ScopesInv, ScopesShared
  <1> QED
    BY SMTT(60), <1>5, <1>6, <1>7, <1>8, <1>9, <1>10, <1>11, <1>12, <1>13 DEF ScopesInv, ScopesShared

\* Giving a route up keeps its scopes until the destructor has the mutex.
LEMMA ReleaseInv ==
  ASSUME TypeOK, ScopesInv, NEW r \in Routes, NEW thread, Release(r, thread),
         UNCHANGED <<scopes, cached, born>>,
         counted' \in {counted, counted \cup {<<r, scopes[r]>>}}
  PROVE  ScopesInv'
  <1> USE DEF TypeOK
  <1>0. holders[r] # {} /\ route[r] = "live" /\ scopes[r] # 0
    BY DEF Release, ScopesInv
  <1>1. (\A q \in Routes : scopes[q] # 0 <=> route[q] \in {"live", "leaving"})'
    BY <1>0 DEF Release, ScopesInv
  <1>2. (\A q \in Routes : holders[q] # {} => route[q] = "live")'
    <2> SUFFICES ASSUME NEW q \in Routes, holders'[q] # {} PROVE route'[q] = "live"
      OBVIOUS
    <2>1. q = r => holders[r] # {thread}
      BY DEF Release
    <2>2. holders[q] # {}
      BY DEF Release
    <2> QED
      BY <2>1, <2>2 DEF Release, ScopesInv
  <1>3. (\A x \in counted : route[x[1]] # "none")'
    <2>1. \A q \in Routes : route[q] # "none" => route'[q] # "none"
      BY DEF Release
    <2> QED
      BY <1>0, <2>1 DEF ScopesInv
  <1>4. (\A x \in counted : scopes[x[1]] # 0 => x[2] = scopes[x[1]])'
    BY DEF ScopesInv, ScopesShared
  <1>5. (\A q \in Routes : holders[q] # {} => scopes[q] # 0)'
    BY SMTT(60), <1>1, <1>2
  <1> QED
    BY SMTT(60), <1>1, <1>2, <1>3, <1>4, <1>5 DEF ScopesInv, ScopesShared

\* The erasure takes the cached pointer with it exactly when no other route has it.
LEMMA EraseInv ==
  ASSUME TypeOK, ScopesInv, NEW r \in Routes, EraseStatsScopes(r)
  PROVE  ScopesInv'
  <1> USE DEF TypeOK
  <1> DEFINE t == TagsOf[r]
  <1>0. t \in Tags /\ route[r] = "leaving" /\ scopes[r] # 0 /\ cached[t] = scopes[r] /\ holders[r] = {}
    BY TagsFact DEF EraseStatsScopes, ScopesInv, ScopesShared
  <1>1. /\ route' = [route EXCEPT ![r] = "gone"] /\ scopes' = [scopes EXCEPT ![r] = 0]
        /\ cached' = (IF LastUse(r) THEN [cached EXCEPT ![t] = 0] ELSE cached)
        /\ UNCHANGED <<holders, born, counted>>
    BY DEF EraseStatsScopes
  <1>2. (\A q \in Routes : scopes[q] # 0 <=> route[q] \in {"live", "leaving"})'
    BY <1>1 DEF ScopesInv
  <1>3. (\A q \in Routes : holders[q] # {} => route[q] = "live")'
    BY <1>0, <1>1 DEF ScopesInv
  <1>4. (\A q \in Routes : scopes[q] <= born)'
    BY <1>1 DEF ScopesInv
  <1>5. (\A q, k \in Routes : scopes[q] # 0 /\ scopes[q] = scopes[k] => TagsOf[q] = TagsOf[k])'
    BY <1>1 DEF ScopesInv
  <1>6. (\A x \in counted : route[x[1]] # "none")'
    BY <1>1 DEF ScopesInv
  <1>7. (\A q \in Routes : scopes[q] # 0 => cached[TagsOf[q]] = scopes[q])'
    <2> SUFFICES ASSUME NEW q \in Routes, scopes'[q] # 0 PROVE cached'[TagsOf[q]] = scopes'[q]
      OBVIOUS
    <2>1. q # r /\ scopes'[q] = scopes[q] /\ cached[TagsOf[q]] = scopes[q] /\ TagsOf[q] \in Tags
      BY <1>1, TagsFact DEF ScopesInv, ScopesShared
    <2>2. LastUse(r) => TagsOf[q] # t
      BY SMTT(60), <1>0, <2>1 DEF LastUse
    <2> QED
      BY SMTT(60), <1>0, <1>1, <2>1, <2>2
  <1>8. (\A u \in Tags : cached[u] # 0 => \E q \in Routes : TagsOf[q] = u /\ scopes[q] = cached[u])'
    <2> SUFFICES ASSUME NEW u \in Tags, cached'[u] # 0
                 PROVE  \E q \in Routes : TagsOf[q] = u /\ scopes'[q] = cached'[u]
      OBVIOUS
    <2>1. cached'[u] = cached[u] /\ (u = t => ~LastUse(r))
      BY <1>0, <1>1
    <2>2. CASE u = t
      <3>1. PICK q \in Routes \ {r} : scopes[q] = scopes[r]
        BY <2>1, <2>2 DEF LastUse
      <3>2. TagsOf[q] = t
        BY SMTT(60), <1>0, <3>1 DEF ScopesInv
      <3> QED
        BY SMTT(60), <1>0, <1>1, <2>1, <2>2, <3>1, <3>2
    <2>3. CASE u # t
      <3>1. PICK q \in Routes : TagsOf[q] = u /\ scopes[q] = cached[u]
        BY <2>1 DEF ScopesInv, ScopesShared
      <3> QED
        BY SMTT(60), <1>1, <2>1, <2>3, <3>1
    <2> QED
      BY <2>2, <2>3
  <1>9. (\A q \in Routes : holders[q] # {} => scopes[q] # 0)'
    BY <1>2, <1>3
  <1>10. (\A x \in counted : scopes[x[1]] # 0 => x[2] = scopes[x[1]])'
    BY <1>1 DEF ScopesInv, ScopesShared
  <1> QED
    BY <1>2, <1>3, <1>4, <1>5, <1>6, <1>7, <1>8, <1>9, <1>10 DEF ScopesInv, ScopesShared

\* Every step keeps one set of scopes per tags, in use as long as it is stored.
LEMMA ScopesNext == TypeOK /\ ScopesInv /\ [Next]_vars => ScopesInv'
  <1> SUFFICES ASSUME TypeOK, ScopesInv, [Next]_vars PROVE ScopesInv'
    OBVIOUS
  <1>1. ASSUME NEW l \in Listeners, CreateListener(l) \/ DestroyListener(l) PROVE ScopesInv'
    BY <1>1, RouteFrame DEF CreateListener, DestroyListener
  <1>2. ASSUME NEW p \in AdminPrefixes, NEW action \in {"remove", "other"}, NEW body \in AdminBodies,
               AdminRequest(p, action, body)
        PROVE  ScopesInv'
    BY <1>2, RouteFrame DEF AdminRequest
  <1>3. ASSUME NEW r \in Routes, CreateRoute(r) PROVE ScopesInv'
    BY <1>3, CreateRouteInv
  <1>4. ASSUME NEW r \in Routes, DropRoute(r) PROVE ScopesInv'
    BY SMTT(60), <1>4, ReleaseInv DEF DropRoute
  <1>5. ASSUME NEW r \in Routes, RunPosted(r) PROVE ScopesInv'
    BY SMTT(60), <1>5 DEF RunPosted, ScopesInv, ScopesShared
  <1>6. ASSUME NEW r \in Routes, EraseStatsScopes(r) PROVE ScopesInv'
    BY <1>6, EraseInv
  <1>7. ASSUME NEW w \in Workers, NEW r \in Routes, NEW request \in Requests, StartStream(w, r, request)
        PROVE  ScopesInv'
    <2>1. holders[r] # {} /\ \A q \in Routes : holders'[q] # {} => holders[q] # {}
      BY ZenonT(60), <1>7 DEF StartStream, TypeOK
    <2>2. UNCHANGED <<route, scopes, cached, born, counted>>
      BY <1>7 DEF StartStream
    <2> QED
      BY SMTT(60), <2>1, <2>2 DEF ScopesInv, ScopesShared
  <1>8. ASSUME NEW w \in Workers, NEW r \in Routes, NEW responded \in BOOLEAN, EndStream(w, r, responded)
        PROVE  ScopesInv'
    BY <1>8, ReleaseInv DEF EndStream
  <1>9. CASE Tick
    BY <1>9, RouteFrame DEF Tick
  <1>10. CASE UNCHANGED vars
    BY <1>10, RouteFrame DEF vars
  <1> QED
    BY SMTT(60), <1>1, <1>2, <1>3, <1>4, <1>5, <1>6, <1>7, <1>8, <1>9, <1>10 DEF Next

-------------------------------------------------------------------------------
\* The inductive invariant holds in every state (the constructors and destructors
\* of the configurations, and the two functions on the cache of StatsScopes).
THEOREM LifetimeInvariant == Spec => []IInv
  <1>1. IInv /\ [Next]_vars => IInv'
    BY TypeNext, AdminNext, ScopesNext DEF IInv
  <1> QED
    BY InitInv, <1>1, PTL DEF Spec

\* Listeners and routes keep their types, for any constants.
THEOREM TypeCorrect == Spec => []TypeOK
  BY LifetimeInvariant, PTL DEF IInv

\* However many configurations share a prefix and in whatever order they are
\* destroyed, the admin handler is the newest one's, for as long as it lives.
THEOREM HandlerFollowsNewest == Spec => []AdminHandlerOwned
  <1>1. IInv => AdminHandlerOwned
    BY DEF IInv, AdminInv
  <1> QED
    BY LifetimeInvariant, <1>1, PTL

\* However creation and destruction of routes interleave, routes with equal tags
\* share one StatsScopes, which the cache names exactly as long as it is held.
THEOREM OneScopesPerTags == Spec => []ScopesShared
  <1>1. IInv => ScopesShared
    BY DEF IInv, ScopesInv
  <1> QED
    BY LifetimeInvariant, <1>1, PTL

===============================================================================
