-------------------------- MODULE MCCircuitBreaker --------------------------
(* Two routes: one breaks on errors and waits for request bodies, the other *)
(* breaks on slow responses as well and answers at once.                    *)
EXTENDS CircuitBreaker, TLC

CONSTANTS ra, rb

MCSettings ==
  (ra :> [consecutiveSlowRequests |-> 0, averageResponseTimeThreshold |-> None,
          errorPercentThreshold |-> 50, minRequestAmount |-> 2,
          breakDuration |-> 2, lookbackDuration |-> 5, waitBody |-> TRUE])
  @@
  (rb :> [consecutiveSlowRequests |-> 2, averageResponseTimeThreshold |-> 1,
          errorPercentThreshold |-> 60, minRequestAmount |-> 3,
          breakDuration |-> 1, lookbackDuration |-> 2, waitBody |-> FALSE])

Symmetry == Permutations(Streams)
=============================================================================
