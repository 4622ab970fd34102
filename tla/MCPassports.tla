----------------------------- MODULE MCPassports -----------------------------
(***************************************************************************)
(* Readers of one product that is enrolled or drafted, and then moved.     *)
(***************************************************************************)
EXTENDS Passports, TLC

CONSTANT p1

OneSerial == [p \in Product |-> CHOOSE k \in Key : TRUE]

Change(to, actor) ==
  [fn |-> "changeProductStatus", product |-> p1, to |-> to, actor |-> actor]

SomeCalls ==
  {[fn |-> "insertProduct", product |-> p1, to |-> "draft", actor |-> "issuer"],
   [fn |-> "enrolProduct", product |-> p1, to |-> "registered", actor |-> "holder"],
   Change("suspended", "authority"), Change("retired", "authority")}

Symmetry == Permutations(Tx) \cup Permutations(Reader)

=============================================================================
