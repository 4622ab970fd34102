----------------------------- MODULE MCRegistry ------------------------------
(***************************************************************************)
(* Registry on a small instance: products that share a serial, a few       *)
(* transactions, and claims enough to explain, to misexplain and to loop.  *)
(***************************************************************************)
EXTENDS Registry, FiniteSets, TLC

Says(actor, type, from, to) ==
  [type |-> type, actor |-> actor, from |-> from, to |-> to]

OneSerial == [p \in Product |-> CHOOSE k \in Key : TRUE]

SomeClaims ==
  {Says("holder", "record_enrolled", NoState, NoState),
   Says("authority", "product_suspended", "registered", "suspended"),
   Says("authority", "product_retired", "suspended", "retired")}

TxSymmetry == Permutations(Tx) \cup Permutations(Product)

=============================================================================
