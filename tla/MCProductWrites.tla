--------------------------- MODULE MCProductWrites ---------------------------
(***************************************************************************)
(* ProductWrites on small instances: calls race to move one product, and   *)
(* a second product wants its serial.                                      *)
(***************************************************************************)
EXTENDS ProductWrites

CONSTANTS p1, p2

OneSerial == [p \in Product |-> CHOOSE k \in Key : TRUE]

Change(p, to, actor) ==
  [fn |-> "changeProductStatus", product |-> p, to |-> to, actor |-> actor]
Register(p, to) ==
  [fn |-> "insertProduct", product |-> p, to |-> to, actor |-> "issuer"]
Enrol(p) ==
  [fn |-> "enrolProduct", product |-> p, to |-> "registered", actor |-> "holder"]

\* One product, born a draft or registered, and every kind of move of it.
RacingMoves ==
  {Register(p1, "draft"), Enrol(p1),
   Change(p1, "registered", "issuer"), Change(p1, "registered", "authority"),
   Change(p1, "suspended", "authority"),
   Change(p1, "retired", "holder"), Change(p1, "retired", "authority")}

\* The same, and a rival for its serial.
MovesAndARival == RacingMoves \cup {Register(p2, "registered")}

=============================================================================
