--------------------------- MODULE MCPassportPages ---------------------------
(* PassportPages with the 26 digits of the code: a label in which the digits spread *)
(* over the alphabet, and one that is nearly all zeros and whose check symbol, $,   *)
(* is no character of an address.                                                  *)
EXTENDS PassportPages

Spread == [i \in 1 .. 26 |-> IF i = 1 THEN 7 ELSE (i * 5 + 3) % 32]
Sparse == [i \in 1 .. 26 |-> CASE i = 1 -> 1 [] i = 26 -> 16 [] OTHER -> 0]
Labels == {Spread, Sparse}
=============================================================================
