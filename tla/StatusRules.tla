----------------------------- MODULE StatusRules -----------------------------
(***************************************************************************)
(* The vocabulary of a product's life and the three rules about it that    *)
(* TrustPass keeps twice: once in TypeScript, where a repository may read  *)
(* them early, and once in a database trigger, which is the authority.     *)
(*                                                                         *)
(* Both copies are here, under different names, because the code runs      *)
(* both: the repository of ProductWrites reads the first, the statements   *)
(* of Registry are refused by the second.                                  *)
(***************************************************************************)

Status == {"draft", "registered", "active", "suspended", "retired"}

ActorKind == {"holder", "issuer", "authority", "system"}

EventType ==
  {"record_enrolled", "product_registered", "product_activated",
   "product_suspended", "product_reinstated", "product_retired",
   "record_corrected"}

\* The statuses the two live-serial indexes cover: every one but retired.
LiveStatus == Status \ {"retired"}

-----------------------------------------------------------------------------
(***************************************************************************)
(* The database's copy.                                                    *)
(***************************************************************************)

\* product_status_guard on INSERT: a product is born draft or registered.
GuardAllowsBirth(s) == s \in {"draft", "registered"}

\* product_status_guard on UPDATE; a write that keeps the status is no move.
GuardAllowsMove(old, new) ==
  \/ new = old
  \/ old = "draft"      /\ new \in {"registered", "retired"}
  \/ old = "registered" /\ new \in {"active", "suspended", "retired"}
  \/ old = "active"     /\ new \in {"suspended", "retired"}
  \/ old = "suspended"  /\ new \in {"registered", "retired"}

\* lifecycle_event_authority: which capacity may record which type, and that
\* only an authority ends the life of a product under suspension.
GuardAllowsRecording(actor, type, from) ==
  /\ \/ actor = "holder"    /\ type \in {"record_enrolled", "product_retired"}
     \/ actor = "issuer"    /\ type \in {"record_enrolled", "product_registered",
                                         "product_retired"}
     \/ actor = "authority" /\ type \in {"product_suspended", "product_reinstated",
                                         "product_retired"}
     \/ actor = "system"    /\ type \in {"record_corrected", "product_activated"}
  /\ (type = "product_retired" /\ from = "suspended") => actor = "authority"

-----------------------------------------------------------------------------
(***************************************************************************)
(* The application's copy.                                                 *)
(***************************************************************************)

PRODUCT_STATUS_TRANSITIONS ==
  [draft      |-> {"registered", "retired"},
   registered |-> {"active", "suspended", "retired"},
   active     |-> {"suspended", "retired"},
   suspended  |-> {"registered", "retired"},
   retired    |-> {}]

\* Writing the current value again is no move. No repository asks this: they leave the
\* question to the trigger, and tests compare the two.
canTransition(from, to) == from = to \/ to \in PRODUCT_STATUS_TRANSITIONS[from]

RecordingAuthority ==
  [holder    |-> {"record_enrolled", "product_retired"},
   issuer    |-> {"record_enrolled", "product_registered", "product_retired"},
   authority |-> {"product_suspended", "product_reinstated", "product_retired"},
   system    |-> {"record_corrected", "product_activated"}]

mayRecord(actor, type) == type \in RecordingAuthority[actor]

mayRetireFrom(actor, from) == from = "suspended" => actor = "authority"

\* What changeProductStatus will move a product to: `active` waits for
\* ownership to exist, and nothing goes back to draft.
ChangeableStatus == Status \ {"active", "draft"}

\* The event a move produces, read from both of its ends.
eventFor(from, to) ==
  CASE to = "retired"   -> "product_retired"
    [] to = "suspended" -> "product_suspended"
    [] OTHER            -> IF from = "suspended" THEN "product_reinstated"
                           ELSE "product_registered"

=============================================================================
