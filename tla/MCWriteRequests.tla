--------------------------- MODULE MCWriteRequests ---------------------------
(***************************************************************************)
(* Two issuances that may draw one handle, and requests with what was      *)
(* shown of them.                                                          *)
(***************************************************************************)
EXTENDS WriteRequests, TLC

Symmetry == Permutations(Handle) \cup Permutations(Issuance) \cup Permutations(Request)

=============================================================================
