-------------------------------- MODULE MCWaf --------------------------------
(***************************************************************************)
(* Waf with limits that the second piece reaches for the listener's         *)
(* transaction and the third for the route's.                               *)
(***************************************************************************)
EXTENDS Waf

MCBodyLimit == [listener |-> 1, route |-> 2]

=============================================================================
