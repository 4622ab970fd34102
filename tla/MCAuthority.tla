----------------------------- MODULE MCAuthority -----------------------------
(***************************************************************************)
(* Authority on a small instance: an issuing grant that does not expire,   *)
(* and one that does; two memberships; any three acts of operators.        *)
(***************************************************************************)
EXTENDS Authority

CONSTANTS m1, m2

Lifetimes == [g \in Grant |-> IF g = 2 THEN 3 ELSE Null]

=============================================================================
