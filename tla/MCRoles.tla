------------------------------- MODULE MCRoles -------------------------------
(* Roles with one role of an operator's own, and the acts of an operator that    *)
(* reach what the server asks about: a membership of each kind, a grant to       *)
(* everybody, an object handed over and back, an attribute, a table of nobody's  *)
(* migration, a guard switched off; and two grants it does not ask about.        *)
EXTENDS Roles

Join(of, to, inherit, set) ==
  [act |-> "join", edge |-> [of |-> of, to |-> to, inherit |-> inherit, set |-> set]]
To(r, p) == [act |-> "grant", grant |-> [to |-> r, privilege |-> p]]

Operators ==
  {Join("owner", "runtime", FALSE, TRUE), Join("owner", "runtime", TRUE, FALSE),
   Join("owner", "support", FALSE, TRUE), Join("support", "runtime", TRUE, TRUE),
   To("support", On("capacity_grant", "insert")), To(Public, Of("serial")),
   To("runtime", Of("organization_id")), To("support", On("membership", "insert")),
   [act |-> "hand", object |-> "append_only", role |-> "support"],
   [act |-> "hand", object |-> "product", role |-> "runtime"],
   [act |-> "hand", object |-> "product", role |-> "owner"],
   [act |-> "hand", object |-> "handmade", role |-> "trustpass"],
   [act |-> "raise", role |-> "runtime", attribute |-> "another"],
   [act |-> "leave", edge |-> [of |-> "owner", to |-> "migration", inherit |-> TRUE, set |-> TRUE]],
   [act |-> "revoke", grant |-> [to |-> "runtime", privilege |-> On("product", "select")]],
   [act |-> "switch"]}

Somewhere ==
  {[host |-> "localhost", port |-> "5433"], [host |-> "localhost", port |-> "none"],
   [host |-> "elsewhere", port |-> "none"]}
=============================================================================
