---------------------------- MODULE ConfigLifetime ----------------------------
(***************************************************************************)
(* What configurations share while old and new ones are alive together.    *)
(*                                                                         *)
(* - A listener's super_cache or dynamic_downgrade configuration registers *)
(*   an admin handler under its prefix; the prefixes of the two filters    *)
(*   differ, so one map stands for both of their static maps.  Listener    *)
(*   configurations come and go on the main thread.                        *)
(* - A route holds the StatsScopes of its detailed_stats metadata, found   *)
(*   through a cache of weak pointers, and the token buckets of its        *)
(*   local_limit entries.  A route is held by the main thread and by the   *)
(*   streams of the workers, and whoever drops it last destroys it.        *)
(***************************************************************************)
EXTENDS Integers, Sequences, FiniteSets, SequencesExt

CONSTANTS
  Listeners,    \* listener configurations, numbered as they are created
  PrefixOf,     \* the admin prefix of each, "" without prefix or caches
  Routes,       \* routes
  TagsOf,       \* the stat tags of each
  LimitsOf,     \* its rate limit entries: the requests matched, and the rate
  ThreadLocal,  \* whether its buckets are per thread
  Workers,      \* worker threads, each with one stream at a time
  Requests,     \* requests, as the entries' matchers tell them apart
  AdminBodies,  \* bodies of admin requests: the keys, valid or not
  ValidKeys,    \* cache keys that are MD5 sums
  Cycle,        \* ticks of a rate's unit
  Budgets       \* bounds: listeners, routes, requests and ticks of a behaviour

Main == "main"
AdminPrefixes == {PrefixOf[l] : l \in Listeners} \ {""}
Tags == {TagsOf[r] : r \in Routes}

ASSUME ConfigAssumption ==
  /\ Listeners \subseteq Nat \ {0} /\ PrefixOf \in [Listeners -> STRING]
  /\ Main \notin Workers /\ Cycle \in Nat \ {0}

VARIABLES
  listener,  \* "none", "live" or "gone"
  owner,     \* ADMIN_HANDLER_UUID_MAP: the configuration whose uuid it is, 0 when none
  handler,   \* the handler of a prefix: the configuration it captured, 0 when none
  admin,     \* what the last admin request removed, and from whose caches
  holders,   \* threads that hold a route
  route,     \* "none", "live", "leaving" (its last holder is in the destructor) or "gone"
  scopes,    \* the StatsScopes a route's metadata holds, 0 when none
  cached,    \* cached_stats_scopes_
  born,      \* StatsScopes created so far
  counted,   \* the StatsScopes that streams of a route were counted in
  slot,      \* the route's thread local slot: "none", "set", "posted" or "freed"
  tokens,    \* a bucket's content, in parts of a token
  log,       \* the requests of a route and the entries that refused them
  now, budget

adminVars == <<listener, owner, handler, admin>>
routeVars == <<holders, route, scopes, cached, born, counted, slot>>
limitVars == <<tokens, log>>
vars == <<adminVars, routeVars, limitVars, now, budget>>

\* The buckets of a route: for every entry one, or one for every thread.
Threads(r) == IF ThreadLocal[r] THEN Workers ELSE {Main}
Bucket(r, w) == IF ThreadLocal[r] THEN w ELSE Main
Full(r, e) == LimitsOf[r][e].rate * Cycle

Init ==
  /\ listener = [l \in Listeners |-> "none"]
  /\ owner = [p \in AdminPrefixes |-> 0] /\ handler = [p \in AdminPrefixes |-> 0]
  /\ admin = [config |-> 0, keys |-> {}]
  /\ holders = [r \in Routes |-> {}] /\ route = [r \in Routes |-> "none"]
  /\ scopes = [r \in Routes |-> 0] /\ cached = [t \in Tags |-> 0] /\ born = 0 /\ counted = {}
  /\ slot = [r \in Routes |-> "none"]
  /\ tokens = [r \in Routes |-> [e \in DOMAIN LimitsOf[r] |-> [t \in Threads(r) |-> Full(r, e)]]]
  /\ log = [r \in Routes |-> <<>>]
  /\ now = 0
  /\ budget \in Budgets

-----------------------------------------------------------------------------
\* Listener configurations.  A newer one takes the prefix over.
CreateListener(l) ==
  LET p == PrefixOf[l]
  IN  /\ listener[l] = "none" /\ \A k \in Listeners : k < l => listener[k] # "none"
      /\ l <= budget.listeners
      /\ listener' = [listener EXCEPT ![l] = "live"]
      /\ owner' = IF p = "" THEN owner ELSE [owner EXCEPT ![p] = l]
      /\ handler' = IF p = "" THEN handler ELSE [handler EXCEPT ![p] = l]
      /\ UNCHANGED <<admin, routeVars, limitVars, now, budget>>

\* A variant of StillOwner that does not look at the uuid.
StillOwnerAny(l) == PrefixOf[l] # ""

\* The destructor's test that no newer configuration has the prefix.
StillOwner(l) == PrefixOf[l] # "" /\ owner[PrefixOf[l]] = l

DestroyListener(l) ==
  LET p == PrefixOf[l]
  IN  /\ listener[l] = "live"
      /\ listener' = [listener EXCEPT ![l] = "gone"]
      /\ owner' = IF StillOwner(l) THEN [owner EXCEPT ![p] = 0] ELSE owner
      /\ handler' = IF StillOwner(l) THEN [handler EXCEPT ![p] = 0] ELSE handler
      /\ UNCHANGED <<admin, routeVars, limitVars, now, budget>>

\* readCacheKeys: the valid keys of a body, each once; case is not modelled.
ReadCacheKeys(body) == body \cap ValidKeys

\* The handler of a prefix: an unknown action or an empty body removes nothing.
AdminRequest(p, action, body) ==
  /\ handler[p] # 0
  /\ admin' = IF action # "remove" \/ body = {} THEN [config |-> handler[p], keys |-> {}]
              ELSE [config |-> handler[p], keys |-> ReadCacheKeys(body)]
  /\ UNCHANGED <<listener, owner, handler, routeVars, limitVars, now, budget>>

-----------------------------------------------------------------------------
\* Routes.  getStatsScopesFromProto, under its mutex: a pointer that is cached and
\* not expired is shared, otherwise there is a new one.
Expired(s) == \A r \in Routes : scopes[r] # s

CreateRoute(r) ==
  LET t == TagsOf[r]
      found == cached[t] # 0 /\ ~Expired(cached[t])
      s == IF found THEN cached[t] ELSE born + 1
  IN  /\ route[r] = "none"
      /\ Cardinality({q \in Routes : route[q] # "none"}) < budget.routes
      /\ route' = [route EXCEPT ![r] = "live"]
      /\ holders' = [holders EXCEPT ![r] = {Main}]
      /\ scopes' = [scopes EXCEPT ![r] = s]
      /\ cached' = [cached EXCEPT ![t] = s]
      /\ born' = IF found THEN born ELSE born + 1
      /\ slot' = IF ThreadLocal[r] THEN [slot EXCEPT ![r] = "set"] ELSE slot
      /\ UNCHANGED <<adminVars, counted, limitVars, now, budget>>

\* A variant of Release whose slot is only freed on the main thread.
ReleaseOnMain(r, thread) ==
  LET last == holders[r] = {thread}
  IN  /\ thread \in holders[r]
      /\ holders' = [holders EXCEPT ![r] = @ \ {thread}]
      /\ route' = IF last THEN [route EXCEPT ![r] = "leaving"] ELSE route
      /\ slot' = IF last /\ slot[r] = "set" /\ thread = Main THEN [slot EXCEPT ![r] = "freed"] ELSE slot

\* A thread drops a route.  The last one destroys it: a slot is freed on the main
\* thread, where other threads post it to, and ~TagsMetadataStats has moved the
\* scopes out and is on its way to the mutex.
Release(r, thread) ==
  LET last == holders[r] = {thread}
  IN  /\ thread \in holders[r]
      /\ holders' = [holders EXCEPT ![r] = @ \ {thread}]
      /\ route' = IF last THEN [route EXCEPT ![r] = "leaving"] ELSE route
      /\ slot' = IF last /\ slot[r] = "set"
                   THEN [slot EXCEPT ![r] = IF thread = Main THEN "freed" ELSE "posted"] ELSE slot

DropRoute(r) ==
  /\ Release(r, Main)
  /\ UNCHANGED <<adminVars, scopes, cached, born, counted, limitVars, now, budget>>

RunPosted(r) ==
  /\ slot[r] = "posted"
  /\ slot' = [slot EXCEPT ![r] = "freed"]
  /\ UNCHANGED <<adminVars, holders, route, scopes, cached, born, counted, limitVars, now, budget>>

\* A variant of LastUse that always holds.
LastUseAlways(r) == TRUE

\* use_count() == 1: no other route holds the scopes, on its way out or not.
LastUse(r) == \A q \in Routes \ {r} : scopes[q] # scopes[r]

\* eraseStatsScopes, under the mutex.
EraseStatsScopes(r) ==
  /\ route[r] = "leaving"
  /\ route' = [route EXCEPT ![r] = "gone"]
  /\ cached' = IF LastUse(r) THEN [cached EXCEPT ![TagsOf[r]] = 0] ELSE cached
  /\ scopes' = [scopes EXCEPT ![r] = 0]
  /\ UNCHANGED <<adminVars, holders, born, counted, slot, limitVars, now, budget>>

-----------------------------------------------------------------------------
\* Streams.  LocalLimitRouteConfig::limit: every entry that matches is charged, and
\* one that has no whole token refuses.
Matching(r, request) == {e \in DOMAIN LimitsOf[r] : request \in LimitsOf[r][e].matches}
Empty(r, e, w) == tokens[r][e][Bucket(r, w)] < Cycle

\* A variant of Charged that stops at the first entry that refuses.
ChargedUntilRefused(r, w, request) ==
  {e \in Matching(r, request) : \A f \in Matching(r, request) : f < e => ~Empty(r, f, w)}

Charged(r, w, request) == Matching(r, request)

StartStream(w, r, request) ==
  LET charged == Charged(r, w, request)
      refusing == {e \in charged : Empty(r, e, w)}
  IN  /\ Main \in holders[r] /\ \A q \in Routes : w \notin holders[q]
      /\ Len(log[r]) < budget.requests
      /\ holders' = [holders EXCEPT ![r] = @ \cup {w}]
      /\ tokens' = [tokens EXCEPT ![r] = [e \in DOMAIN @ |->
                      IF e \in charged \ refusing THEN [@[e] EXCEPT ![Bucket(r, w)] = @ - Cycle] ELSE @[e]]]
      /\ log' = [log EXCEPT ![r] = Append(@, [worker |-> w, request |-> request, at |-> now, refused |-> refusing])]
      /\ UNCHANGED <<adminVars, route, scopes, cached, born, counted, slot, now, budget>>

\* detailed_stats counts a stream when it is destroyed, if it had a response.
EndStream(w, r, responded) ==
  /\ Release(r, w)
  /\ counted' = IF responded THEN counted \cup {<<r, scopes[r]>>} ELSE counted
  /\ UNCHANGED <<adminVars, scopes, cached, born, limitVars, now, budget>>

\* Time fills the buckets: Envoy's TokenBucketImpl.
Filled(level, r, e, ticks) ==
  IF level + ticks * LimitsOf[r][e].rate > Full(r, e) THEN Full(r, e) ELSE level + ticks * LimitsOf[r][e].rate

Tick ==
  /\ now < budget.ticks
  /\ now' = now + 1
  /\ tokens' = [r \in Routes |-> [e \in DOMAIN tokens[r] |-> [t \in Threads(r) |-> Filled(tokens[r][e][t], r, e, 1)]]]
  /\ UNCHANGED <<adminVars, routeVars, log, budget>>

Next ==
  \/ \E l \in Listeners : CreateListener(l) \/ DestroyListener(l)
  \/ \E p \in AdminPrefixes, action \in {"remove", "other"}, body \in AdminBodies : AdminRequest(p, action, body)
  \/ \E r \in Routes : CreateRoute(r) \/ DropRoute(r) \/ RunPosted(r) \/ EraseStatsScopes(r)
  \/ \E w \in Workers, r \in Routes :
       \/ \E request \in Requests : StartStream(w, r, request)
       \/ \E responded \in BOOLEAN : EndStream(w, r, responded)
  \/ Tick

\* A destructor runs to its end, and the main thread runs what is posted to it.
Fairness == \A r \in Routes : WF_vars(EraseStatsScopes(r)) /\ WF_vars(RunPosted(r))

Spec == Init /\ [][Next]_vars /\ Fairness

-----------------------------------------------------------------------------
\* Every variable of listeners and routes keeps its type.
TypeOK ==
  /\ listener \in [Listeners -> {"none", "live", "gone"}]
  /\ owner \in [AdminPrefixes -> Listeners \cup {0}] /\ handler \in [AdminPrefixes -> Listeners \cup {0}]
  /\ holders \in [Routes -> SUBSET (Workers \cup {Main})]
  /\ route \in [Routes -> {"none", "live", "leaving", "gone"}]
  /\ counted \subseteq Routes \X Nat
  /\ born \in Nat /\ scopes \in [Routes -> Nat] /\ cached \in [Tags -> Nat]
  /\ slot \in [Routes -> {"none", "set", "posted", "freed"}]

\* The handler of an admin prefix belongs to the newest configuration that was
\* created with it, and there is one exactly as long as that configuration lives:
\* a destructor neither removes a successor's handler nor leaves its own behind
\* (~CommonCacheConfig and ~DynamicDowngradeCommonConfig).
AdminHandlerOwned ==
  \A p \in AdminPrefixes, l \in Listeners :
    (/\ PrefixOf[l] = p /\ listener[l] # "none"
     /\ \A k \in Listeners : k > l /\ PrefixOf[k] = p => listener[k] = "none")
      => handler[p] = IF listener[l] = "live" THEN l ELSE 0

\* Routes with the same tags share one StatsScopes however their creation and
\* their destruction on any thread interleave: the cache names it exactly while
\* a route holds it, a stream that ends finds it, and no live route is counted in
\* two (getStatsScopesFromProto and eraseStatsScopes).
ScopesShared ==
  /\ \A r \in Routes : scopes[r] # 0 => cached[TagsOf[r]] = scopes[r]
  /\ \A t \in Tags : cached[t] # 0 => \E r \in Routes : TagsOf[r] = t /\ scopes[r] = cached[t]
  /\ \A r \in Routes : holders[r] # {} => scopes[r] # 0
  /\ \A x \in counted : scopes[x[1]] # 0 => x[2] = scopes[x[1]]

\* The entries of a route limit independently: what entry e makes of a request
\* depends only on the requests that e matches and their times, not on the other
\* entries, their order, or what they refused (LocalLimitRouteConfig::limit).
EntriesIndependent ==
  \A r \in Routes : \A e \in DOMAIN LimitsOf[r] : \A i \in DOMAIN log[r] :
    LET x == log[r][i]
        mine == SelectSeq(SubSeq(log[r], 1, i),
                          LAMBDA y : /\ y.request \in LimitsOf[r][e].matches
                                     /\ Bucket(r, y.worker) = Bucket(r, x.worker))
        Alone(s, y) == LET level == Filled(s.level, r, e, y.at - s.at)
                       IN  [level |-> IF level < Cycle THEN level ELSE level - Cycle,
                            at |-> y.at, refused |-> level < Cycle]
    IN  x.request \in LimitsOf[r][e].matches
          => (e \in x.refused) =
             FoldLeft(Alone, [level |-> Full(r, e), at |-> 0, refused |-> FALSE], mine).refused

\* A route that nobody holds leaves nothing behind: its thread local slot is freed
\* on the main thread and its scopes are given up (~TheadLocalTokenBucket,
\* ~TagsMetadataStats).
GoneLeavesNothing ==
  \A r \in Routes :
    route[r] = "leaving" ~> route[r] = "gone" /\ scopes[r] = 0 /\ slot[r] \in {"none", "freed"}

===============================================================================
