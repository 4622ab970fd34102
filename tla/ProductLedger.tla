---------------------------- MODULE ProductLedger ----------------------------
(***************************************************************************)
(* What TrustPass promises about products, with no database in sight: each *)
(* product enters once, under a key no other live product has, and then    *)
(* moves one legal, authorised step at a time, each step written down at   *)
(* the moment it is taken. ProductWrites implements this.                  *)
(***************************************************************************)
EXTENDS Naturals, Sequences, StatusRules

CONSTANTS
  Product,  \* products that may enter
  Key,      \* what two live products may not share
  KeyOf     \* each product's key

VARIABLES
  standing,  \* each product's status, or "absent"
  trail      \* each product's moves, oldest first

ledgerVars == <<standing, trail>>

LedgerInit ==
  /\ standing = [p \in Product |-> "absent"]
  /\ trail = [p \in Product |-> <<>>]

\* A product is registered by an issuer, as a draft or outright, or enrolled.
Enter(p, s) ==
  /\ standing[p] = "absent"
  /\ GuardAllowsBirth(s)
  /\ \A q \in Product \ {p} : KeyOf[q] = KeyOf[p] => standing[q] \notin LiveStatus
  /\ standing' = [standing EXCEPT ![p] = s]
  /\ UNCHANGED trail

\* Someone entitled to the move makes it, and it is written down.
Move(p, to, actor) ==
  /\ standing[p] \in Status \ {to}
  /\ GuardAllowsMove(standing[p], to)
  /\ mayRecord(actor, eventFor(standing[p], to))
  /\ mayRetireFrom(actor, standing[p])
  /\ standing' = [standing EXCEPT ![p] = to]
  /\ trail' = [trail EXCEPT ![p] =
       Append(@, [from |-> standing[p], to |-> to, actor |-> actor])]

LedgerNext ==
  \E p \in Product :
    \/ \E s \in Status : Enter(p, s)
    \/ \E to \in ChangeableStatus, actor \in ActorKind : Move(p, to, actor)

LedgerSpec == LedgerInit /\ [][LedgerNext]_ledgerVars

=============================================================================
