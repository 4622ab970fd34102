---------------------------- MODULE MCRateLimiter ----------------------------
(***************************************************************************)
(* The limiter with a few callers and a threshold they can cross. A token  *)
(* takes three seconds of two ticks, and numbers have so few bits that the *)
(* six gains of a caller who keeps asking do not add up to one.            *)
(***************************************************************************)
EXTENDS Doubles, TLC

Symmetry == Permutations(Key)

=============================================================================
