------------------------------- MODULE MCRider -------------------------------
(***************************************************************************)
(* All plugins of both versions, on the routes that make a difference.      *)
(***************************************************************************)
EXTENDS Rider

MCPlugins ==
  [version : {"v1"}, header : [Directions -> BOOLEAN], body : [Directions -> {FALSE}]]
    \cup [version : {"v2"}, header : [Directions -> BOOLEAN], body : [Directions -> BOOLEAN]]

MCGates ==
  {[allow_no_route |-> FALSE, route |-> r] : r \in {"none", "bare", "configured"}}
    \cup {[allow_no_route |-> TRUE, route |-> "none"]}

=============================================================================
