------------------------------ MODULE Doubles ------------------------------
(***************************************************************************)
(* The limiter's arithmetic as floating point does it: every operation     *)
(* gives the nearest number of Bits significant bits, and the even one of  *)
(* two that are as near. A double has 53 of them. With fewer, the same     *)
(* misses show after fewer steps: with 53, ten additions of a tenth do not *)
(* make one; with 7, six additions of a sixth do not.                      *)
(*                                                                         *)
(* A unit is the last bit of what a tick is worth, so that whatever is in  *)
(* a bucket is a whole number of them.                                     *)
(***************************************************************************)
EXTENDS RateLimiter

CONSTANT Bits   \* significant bits of a number

ASSUME BitsAssumption == Bits \in Nat \ {0}

\* The power of two that is at most x.
Binade[x \in Nat \ {0}] == IF x = 1 THEN 1 ELSE 2 * Binade[x \div 2]

\* The number nearest to x, for every x a sum or a product can be here.
Nearest == [x \in 0 .. 2 * Full + MaxClock * Rate |->
  IF x < 2^Bits
  THEN x
  ELSE LET grain == Binade[x] \div 2^(Bits - 1)
           rest == x % grain
           even == (x \div grain) % 2 = 0
       IN  x - rest + (IF 2 * rest > grain \/ (2 * rest = grain /\ ~ even) THEN grain ELSE 0)]

Rounded(x) == IF x < 0 THEN - Nearest[- x] ELSE Nearest[x]

Round(x) == Rounded(x) = x

RoundedGain(ticks) == Rounded(ticks * Rate)

RoundedSum(tokens, gained) == Rounded(tokens + gained)

\* A quotient that lies less than half a bit above a whole number is rounded to
\* it, and is its own ceiling.
RoundedWait(missing) ==
  LET AtMost(n) == Rounded(missing) * 2^Bits <= Rate * Second * (n * 2^Bits + Binade[n])
  IN  CHOOSE n \in 1 .. Unit : AtMost(n) /\ \A m \in 1 .. n - 1 : ~ AtMost(m)

=============================================================================
