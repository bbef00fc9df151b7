---------------------------- MODULE MCSuperCache ----------------------------
(***************************************************************************)
(* A local level over Redis: errors are kept only locally.                  *)
(***************************************************************************)
EXTENDS SuperCache

CONSTANTS s1, s2, k1

MCKinds == <<"local", "redis">>

MCTTL ==
  <<[default |-> 1, customs |-> <<>>],
    [default |-> 0, customs |-> <<[codes |-> {"ok"}, ttl |-> 2],
                                  [codes |-> {"ok", "error"}, ttl |-> 0]>>]>>

\* A success, one that is too large, one with trailers, a private one and an
\* error.
MCResponses ==
  {[code |-> "ok", total |-> 1, trailers |-> FALSE, cacheable |-> TRUE],
   [code |-> "ok", total |-> 2, trailers |-> FALSE, cacheable |-> TRUE],
   [code |-> "ok", total |-> 1, trailers |-> TRUE, cacheable |-> TRUE],
   [code |-> "ok", total |-> 0, trailers |-> FALSE, cacheable |-> FALSE],
   [code |-> "error", total |-> 0, trailers |-> FALSE, cacheable |-> TRUE]}

=============================================================================
