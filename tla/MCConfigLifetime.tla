-------------------------- MODULE MCConfigLifetime --------------------------
EXTENDS ConfigLifetime

\* Three configurations with one prefix and one without.
MCListeners == 1 .. 4
MCPrefixOf == <<"p", "", "p", "p">>

\* Two routes with the same tags, one with others; a shared and a per thread limit.
MCRoutes == {"r1", "r2", "r3"}
MCTagsOf == [r \in MCRoutes |-> IF r = "r3" THEN "t2" ELSE "t1"]
MCLimitsOf ==
  [r \in MCRoutes |->
     IF r = "r2" THEN <<[matches |-> {"a", "b"}, rate |-> 1]>>
     ELSE <<[matches |-> {"a"}, rate |-> 1], [matches |-> {"a", "b"}, rate |-> 2]>>]
MCThreadLocal == [r \in MCRoutes |-> r = "r2"]

\* Bounds: listeners alone, routes alone, and few routes with many requests.
MCBudgets == {[listeners |-> 4, routes |-> 1, requests |-> 0, ticks |-> 0],
              [listeners |-> 0, routes |-> 3, requests |-> 1, ticks |-> 0],
              [listeners |-> 0, routes |-> 1, requests |-> 3, ticks |-> 2]}
===============================================================================
