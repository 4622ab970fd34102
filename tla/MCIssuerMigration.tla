-------------------------- MODULE MCIssuerMigration --------------------------
(***************************************************************************)
(* IssuerMigration with one party, a bystander and two writers.            *)
(***************************************************************************)
EXTENDS IssuerMigration, TLC

CONSTANTS a, p1, e1, none, unverified, verified

Party1(op, standing) == [op |-> op, party |-> a, standing |-> standing]
Record(party, by) ==
  [op |-> "record", product |-> p1, event |-> e1, party |-> party, by |-> by]

\* One party that is entered either way and changes, and a record of it; the other
\* party is a bystander that may be there already.
Everything ==
  {Party1("insert_issuer", verified), Party1("insert_organization", unverified),
   Party1("update_organization", unverified),
   Party1("update_issuer", verified), Party1("update_issuer", unverified),
   Record(a, "issuer"), Record(a, "organization"), Record(none, "issuer")}

Symmetry == Permutations(Writer)

=============================================================================
