------------------------- MODULE PassportPagesProofs -------------------------
(***************************************************************************)
(* What one slip of the hand makes of a code, and what a page says of a    *)
(* record, for every value of a label, every length of the body the check  *)
(* symbol can protect, and every serial.                                   *)
(*                                                                         *)
(*   - The check symbol. Values that differ in one digit, or by an exchange *)
(*     of two, have remainders that are apart by a difference of digits times *)
(*     a power of 32 (Drift); 37 is prime, and of the first 35 powers of 32 *)
(*     none is 1 and only the 18th is -1. OneDigit, TwoDigits and          *)
(*     DigitAndCheck are what follows.                                     *)
(*   - The text. Neither a manner of writing nor a separator too many changes *)
(*     what is read (WrittenAlike); what is left out or typed twice is too *)
(*     short or too long (Removed, Doubled); so after one slip a text is   *)
(*     refused, or read as the code it was (OneSlip).                      *)
(*   - The address. What the page asks the API for is that text, or one with *)
(*     a percent sign (AskedIs), which is no code (PercentIsNoCode).        *)
(*   - The visit. PagesInv takes that from what was typed to the answer, and *)
(*     from the answer to the page.                                        *)
(*                                                                         *)
(* Induction is over the sets of numbers of which a fact holds             *)
(* (SetInduction).                                                         *)
(***************************************************************************)
EXTENDS PassportPages, Integers, SequenceTheorems, WellFoundedInduction, TLAPS

\* A number and a greater one.
Below == {p \in Nat \X Nat : p[1] < p[2]}

\* What holds of 0, and of n + 1 with n, holds of every number.
LEMMA SetInduction ==
  ASSUME NEW S, 0 \in S, \A n \in Nat : n \in S => n + 1 \in S
  PROVE  Nat \subseteq S
<1> SUFFICES ASSUME Nat \ S # {} PROVE FALSE
  OBVIOUS
<1>1. IsWellFoundedOn(Below, Nat)
  BY NatLessThanWellFounded DEF OpToRel, Below
<1>2. PICK x \in Nat \ S : \A y \in Nat \ S : <<y, x>> \notin Below
  <2>1. Nat \ S \subseteq Nat
    OBVIOUS
  <2> QED BY <1>1, <2>1, WFMin
<1>3. x # 0 /\ x - 1 \in Nat /\ x - 1 < x /\ x = (x - 1) + 1
  BY <1>2
<1>4. x - 1 \in S
  BY <1>2, <1>3 DEF Below
<1> QED BY <1>2, <1>3, <1>4

-----------------------------------------------------------------------------
(* Remainders of 37 *)

Value == [1 .. BodyLength -> Digit]

\* Two values are equal when their digits are.
LEMMA SameValue ==
  ASSUME NEW v \in Value, NEW w \in Value, \A k \in 1 .. BodyLength : w[k] = v[k]
  PROVE  w = v
<1>1. v = [k \in 1 .. BodyLength |-> v[k]] /\ w = [k \in 1 .. BodyLength |-> w[k]]
  BY DEF Value
<1> QED BY <1>1

Residue == 0 .. 36

\* Arithmetic modulo 37: the next remainder, a sum, a difference, a product.
NextRemainder(r, d) == (32 * r + d) % 37
Plus(a, b) == (a + b) % 37
Minus(a, b) == (a - b + 37) % 37
Times(a, b) == (a * b) % 37
\* The powers of 32 modulo 37.
Power ==
  <<32, 25, 23, 33, 20, 11, 19, 16, 31, 30, 35, 10, 24, 28, 8, 34, 15, 36,
    5, 12, 14, 4, 17, 26, 18, 21, 6, 7, 2, 27, 13, 9, 29, 3, 22, 1>>
PowerOf(k) == IF k = 0 THEN 1 ELSE Power[k]

\* None of the first 35 is 1, and only the 18th is -1.
LEMMA PowerTable ==
  /\ \A k \in 1 .. 35 : Power[k] \in Residue /\ Power[k] # 1
  /\ \A k \in 0 .. 35 : /\ PowerOf(k) \in Residue /\ PowerOf(k) # 0
                        /\ k # 18 => PowerOf(k) # 36
                        /\ PowerOf(k + 1) = Times(32, PowerOf(k))
<1>1. \A k \in 1 .. 35 : Power[k] \in 2 .. 36 /\ (k # 18 => Power[k] # 36)
  BY SMTT(60) DEF Power
<1>2. \A k \in 1 .. 35 : Power[k + 1] = (32 * Power[k]) % 37
  BY SMTT(60) DEF Power
<1>3. Power[1] = 32
  BY DEF Power
<1> HIDE DEF Power
<1>4. \A k \in 0 .. 35 : PowerOf(k) \in 1 .. 36 /\ (k # 18 => PowerOf(k) # 36)
  BY <1>1 DEF PowerOf
<1>5. \A k \in 0 .. 35 : PowerOf(k + 1) = (32 * PowerOf(k)) % 37
  BY <1>2, <1>3 DEF PowerOf
<1>6. /\ \A a \in 1 .. 36 : a \in Residue /\ a # 0
      /\ \A a \in 2 .. 36 : a \in Residue /\ a # 1
  BY DEF Residue
<1> QED BY <1>1, <1>4, <1>5, <1>6, Zenon DEF Times

\* 37 is prime.
LEMMA PrimeProduct == \A a, b \in Residue : Times(a, b) = 0 => a = 0 \/ b = 0
<1>1. \A a, b \in 1 .. 36 : (a * b) % 37 # 0
  BY SMTT(60)
<1>2. \A a \in Residue : a # 0 => a \in 1 .. 36
  BY DEF Residue
<1> QED BY <1>1, <1>2 DEF Times

\* A product is a remainder, and 32 times a product has a factor that is 32 times as much.
LEMMA Factors ==
  /\ \A p, x \in Residue : Times(p, x) \in Residue
  /\ \A p, x \in Residue : Times(32, Times(p, x)) = Times(Times(32, p), x)
  /\ \A x \in Residue : Times(1, x) = x
<1>1. \A p, x \in 0 .. 36 : (p * x) % 37 \in 0 .. 36
  BY SMTT(30)
<1>2. ASSUME NEW p \in 0 .. 36, NEW x \in 0 .. 36
      PROVE  (32 * ((p * x) % 37)) % 37 = (((32 * p) % 37) * x) % 37
  BY SMTT(30)
<1>3. \A x \in 0 .. 36 : (1 * x) % 37 = x
  OBVIOUS
<1> QED BY <1>1, <1>2, <1>3, Zenon DEF Times, Residue

\* No factor but 1 leaves a remainder as it is, and none but -1 makes it its opposite.
LEMMA FactorMoves ==
  /\ \A p, x \in Residue : Times(p, x) = x => p = 1 \/ x = 0
  /\ \A p, x \in Residue : Plus(x, Times(p, x)) = 0 => p = 36 \/ x = 0
<1>1. \A a, b \in 1 .. 36 : (a * b) % 37 # 0
  BY SMTT(60)
<1>2. \A p \in 2 .. 36, x \in 1 .. 36 : (p * x) % 37 # x
  <2>1. \A p \in 2 .. 36, x \in 1 .. 36 : (p * x) % 37 = x => ((p - 1) * x) % 37 = 0
    OBVIOUS
  <2> QED BY <1>1, <2>1
<1>3. \A p \in 1 .. 35, x \in 1 .. 36 : (x + ((p * x) % 37)) % 37 # 0
  <2>1. \A p \in 1 .. 35, x \in 1 .. 36 :
          (x + ((p * x) % 37)) % 37 = 0 => ((p + 1) * x) % 37 = 0
    OBVIOUS
  <2> QED BY <1>1, <2>1
<1>4. \A x \in 1 .. 36 : (0 * x) % 37 # x /\ (x + ((0 * x) % 37)) % 37 # 0
  OBVIOUS
<1>5. \A a \in Residue : /\ a # 0 => a \in 1 .. 36
                         /\ a # 1 => a \in 2 .. 36 \/ a = 0
                         /\ a # 36 => a \in 1 .. 35 \/ a = 0
  BY DEF Residue
<1>6. ASSUME NEW p \in Residue, NEW x \in Residue, Times(p, x) = x, p # 1, x # 0
      PROVE  FALSE
  <2>1. CASE p = 0
    BY <1>4, <1>5, <1>6, <2>1, Zenon DEF Times
  <2>2. CASE p # 0
    BY <1>2, <1>5, <1>6, <2>2, Zenon DEF Times
  <2> QED BY <2>1, <2>2
<1>7. ASSUME NEW p \in Residue, NEW x \in Residue, Plus(x, Times(p, x)) = 0, p # 36, x # 0
      PROVE  FALSE
  <2>1. (x + ((p * x) % 37)) % 37 = 0
    <3>1. Plus(x, Times(p, x)) = (x + ((p * x) % 37)) % 37
      BY DEF Plus, Times
    <3> QED BY <1>7, <3>1
  <2>2. x \in 1 .. 36 /\ (p \in 1 .. 35 \/ p = 0)
    BY <1>5, <1>7
  <2>3. p \notin 1 .. 35
    BY <1>3, <2>1, <2>2, Zenon
  <2>4. p # 0
    BY <1>4, <2>1, <2>2, Zenon
  <2> QED BY <2>2, <2>3, <2>4
<1> QED BY <1>6, <1>7

\* How far a digit takes two remainders apart.
LEMMA StepsApart ==
  /\ \A d \in Digit, v \in Residue : NextRemainder(v, d) \in Residue
  /\ \A d \in Digit, v, x \in Residue :
       NextRemainder(Plus(v, x), d) = Plus(NextRemainder(v, d), Times(32, x))
  /\ \A a, b \in Digit, v \in Residue : NextRemainder(v, b) = Plus(NextRemainder(v, a), Minus(b, a))
  /\ \A a, b \in Digit, v, x \in Residue :
       NextRemainder(Plus(v, x), a) = NextRemainder(v, b) => Times(32, x) = Minus(b, a)
  /\ \A d \in Digit, v, w \in Residue : NextRemainder(w, d) = NextRemainder(v, d) => w = v
<1>1. \A d \in 0 .. 31, v \in 0 .. 36 : (32 * v + d) % 37 \in 0 .. 36
  OBVIOUS
<1>2. \A d \in 0 .. 31, v, x \in 0 .. 36 :
       (32 * ((v + x) % 37) + d) % 37 = (((32 * v + d) % 37) + ((32 * x) % 37)) % 37
  OBVIOUS
<1>3. \A a, b \in 0 .. 31, v \in 0 .. 36 :
       (32 * v + b) % 37 = (((32 * v + a) % 37) + ((b - a + 37) % 37)) % 37
  OBVIOUS
<1>4. \A a, b \in 0 .. 31, v, x \in 0 .. 36 :
       (32 * ((v + x) % 37) + a) % 37 = (32 * v + b) % 37 => (32 * x) % 37 = (b - a + 37) % 37
  OBVIOUS
<1>5. \A d \in 0 .. 31, v, w \in 0 .. 36 : (32 * w + d) % 37 = (32 * v + d) % 37 => w = v
  OBVIOUS
<1>6. \A d \in Digit, v \in Residue : NextRemainder(v, d) \in Residue
  BY <1>1 DEF NextRemainder, Digit, Residue
<1>7. \A d \in Digit, v, x \in Residue :
        NextRemainder(Plus(v, x), d) = Plus(NextRemainder(v, d), Times(32, x))
  BY DEF NextRemainder, Plus, Times, Digit, Residue
<1>8. \A a, b \in Digit, v \in Residue : NextRemainder(v, b) = Plus(NextRemainder(v, a), Minus(b, a))
  BY DEF NextRemainder, Plus, Minus, Digit, Residue
<1>9. \A a, b \in Digit, v, x \in Residue :
        NextRemainder(Plus(v, x), a) = NextRemainder(v, b) => Times(32, x) = Minus(b, a)
  BY <1>4, Zenon DEF NextRemainder, Plus, Minus, Times, Digit, Residue
<1>10. \A d \in Digit, v, w \in Residue : NextRemainder(w, d) = NextRemainder(v, d) => w = v
  BY <1>5, Zenon DEF NextRemainder, Digit, Residue
<1> QED BY <1>6, <1>7, <1>8, <1>9, <1>10

\* What is nothing apart is equal.
LEMMA Differences ==
  /\ \A v, x \in Residue : Plus(v, x) = v => x = 0
  /\ \A a, b \in Residue : Minus(b, a) \in Residue /\ (Minus(b, a) = 0 => a = b)
  /\ \A a, b, x \in Residue : Plus(b, x) = a => Plus(Minus(b, a), x) = 0
  /\ Digit \subseteq Residue
<1>1. \A v, x \in 0 .. 36 : (v + x) % 37 = v => x = 0
  OBVIOUS
<1>2. \A a, b \in 0 .. 36 : (b - a + 37) % 37 \in 0 .. 36 /\ ((b - a + 37) % 37 = 0 => a = b)
  OBVIOUS
<1>3. \A a, b, x \in 0 .. 36 : (b + x) % 37 = a => (((b - a + 37) % 37) + x) % 37 = 0
  OBVIOUS
<1>4. Digit \subseteq Residue
  BY DEF Digit, Residue
<1> QED BY <1>1, <1>2, <1>3, <1>4, Zenon DEF Plus, Minus, Residue

Remainders(value, n) ==
  CHOOSE f : f = [k \in 0 .. n |-> IF k = 0 THEN 0 ELSE NextRemainder(f[k - 1], value[k])]

\* The remainders of a value's beginnings exist, each from the one before.
LEMMA RemaindersExist ==
  ASSUME NEW value
  PROVE  \A n \in Nat : \E f :
           f = [k \in 0 .. n |-> IF k = 0 THEN 0 ELSE NextRemainder(f[k - 1], value[k])]
<1> DEFINE Goes(f, n) ==
             f = [k \in 0 .. n |-> IF k = 0 THEN 0 ELSE NextRemainder(f[k - 1], value[k])]
           S == {n \in Nat : \E f : Goes(f, n)}
<1>1. 0 \in S
  <2>1. Goes([k \in 0 .. 0 |-> 0], 0)
    OBVIOUS
  <2> QED BY <2>1
<1>2. ASSUME NEW n \in Nat, n \in S
      PROVE  n + 1 \in S
  <2>1. PICK f : Goes(f, n)
    BY <1>2
  <2> DEFINE g == [k \in 0 .. n + 1 |-> IF k = n + 1 THEN NextRemainder(f[n], value[n + 1]) ELSE f[k]]
  <2>2. ASSUME NEW k \in 0 .. n + 1
        PROVE  g[k] = IF k = 0 THEN 0 ELSE NextRemainder(g[k - 1], value[k])
    <3>1. CASE k = n + 1
      BY <3>1
    <3>2. CASE k \in 0 .. n
      <4>1. f[k] = IF k = 0 THEN 0 ELSE NextRemainder(f[k - 1], value[k])
        BY <2>1, <3>2
      <4>2. k # 0 => k - 1 \in 0 .. n /\ k - 1 # n + 1
        BY <3>2
      <4> QED BY <3>2, <4>1, <4>2
    <3> QED BY <3>1, <3>2
  <2>3. Goes(g, n + 1)
    <3> HIDE DEF g
    <3>1. g = [k \in 0 .. n + 1 |-> g[k]]
      BY DEF g
    <3> QED BY <2>2, <3>1
  <2> HIDE DEF Goes, g
  <2>4. \E h : Goes(h, n + 1)
    BY <2>3
  <2> QED BY <2>4
<1>3. Nat \subseteq S
  <2> HIDE DEF S
  <2> QED BY <1>1, <1>2, SetInduction
<1> QED BY <1>3

\* Each remainder is 32 times the one before and a digit.
LEMMA RemaindersAre ==
  ASSUME NEW value, NEW n \in Nat
  PROVE  /\ Remainders(value, n)[0] = 0
         /\ \A k \in 1 .. n :
              Remainders(value, n)[k] = NextRemainder(Remainders(value, n)[k - 1], value[k])
<1> DEFINE Goes(f) ==
             f = [k \in 0 .. n |-> IF k = 0 THEN 0 ELSE NextRemainder(f[k - 1], value[k])]
           f == Remainders(value, n)
<1>1. Goes(f)
  <2>1. \E g : Goes(g)
    BY RemaindersExist
  <2>2. f = CHOOSE g : Goes(g)
    BY DEF Remainders
  <2> HIDE DEF Goes, f
  <2> QED BY <2>1, <2>2
<1> HIDE DEF f
<1>2. \A k \in 0 .. n : f[k] = IF k = 0 THEN 0 ELSE NextRemainder(f[k - 1], value[k])
  BY <1>1
<1>3. f[0] = 0 /\ \A k \in 1 .. n : f[k] = NextRemainder(f[k - 1], value[k])
  BY <1>2
<1> QED BY <1>3 DEF f

\* A value's remainder is the last of its remainders, and each is one.
LEMMA RemainderIs ==
  ASSUME NEW v \in Value
  PROVE  /\ Remainder(v) = Remainders(v, BodyLength)[BodyLength]
         /\ Remainder(v) \in Residue
         /\ \A k \in 0 .. BodyLength : Remainders(v, BodyLength)[k] \in Residue
         /\ \A k \in 1 .. BodyLength : v[k] \in Digit
<1>1. BodyLength \in Nat /\ BodyLength >= 5
  BY PagesAssumption
<1>2. Len(v) = BodyLength
  BY <1>1 DEF Value
<1>3. Remainder(v) = Remainders(v, BodyLength)[BodyLength]
  BY <1>2 DEF Remainder, Remainders, NextRemainder
<1>4. \A k \in 1 .. BodyLength : v[k] \in Digit
  BY DEF Value
<1> DEFINE R == Remainders(v, BodyLength)
           S == {k \in Nat : k <= BodyLength => R[k] \in Residue}
<1>5. R[0] = 0 /\ \A k \in 1 .. BodyLength : R[k] = NextRemainder(R[k - 1], v[k])
  BY <1>1, RemaindersAre
<1> HIDE DEF R
<1>6. 0 \in S
  BY <1>5 DEF Residue
<1>7. ASSUME NEW k \in Nat, k \in S PROVE k + 1 \in S
  <2> SUFFICES ASSUME k + 1 <= BodyLength PROVE R[k + 1] \in Residue
    OBVIOUS
  <2>1. k + 1 \in 1 .. BodyLength /\ (k + 1) - 1 = k /\ k <= BodyLength
    BY <1>1
  <2>2. R[k + 1] = NextRemainder(R[k], v[k + 1])
    BY <1>5, <2>1
  <2>3. R[k] \in Residue /\ v[k + 1] \in Digit
    BY <1>4, <1>7, <2>1
  <2> QED BY <2>2, <2>3, StepsApart
<1>8. Nat \subseteq S
  <2> HIDE DEF S
  <2> QED BY <1>6, <1>7, SetInduction
<1>9. \A k \in 0 .. BodyLength : R[k] \in Residue
  BY <1>1, <1>8
<1> QED BY <1>1, <1>3, <1>4, <1>9 DEF R

-----------------------------------------------------------------------------
(* What the check symbol notices *)

\* Two values agree before the digit q and after it, as far as m.
AgreeBut(w, v, q, m) == \A k \in 1 .. m : k # q => w[k] = v[k]
Apart(w, v, q) == Minus(w[q], v[q])

\* Their remainders agree before q, and from q on are apart by the difference of that digit times
\* a power of 32.
LEMMA Drift ==
  ASSUME NEW v \in Value, NEW w \in Value, NEW m \in 1 .. BodyLength, NEW q \in 1 .. m,
         AgreeBut(w, v, q, m)
  PROVE  Remainders(w, BodyLength)[m] =
           Plus(Remainders(v, BodyLength)[m], Times(PowerOf(m - q), Apart(w, v, q)))
<1> DEFINE R == Remainders(v, BodyLength)
           Q == Remainders(w, BodyLength)
           x == Apart(w, v, q)
           S == {k \in Nat : k < q => Q[k] = R[k]}
           T == {k \in Nat : q + k <= m =>
                               Q[q + k] = Plus(R[q + k], Times(PowerOf(k), x))}
<1>1. BodyLength \in 5 .. 36 /\ m \in Nat /\ q \in Nat /\ 1 <= q /\ q <= m /\ m <= BodyLength
  BY PagesAssumption
<1>2. /\ Q[0] = 0 /\ \A k \in 1 .. BodyLength : Q[k] = NextRemainder(Q[k - 1], w[k])
      /\ R[0] = 0 /\ \A k \in 1 .. BodyLength : R[k] = NextRemainder(R[k - 1], v[k])
  BY <1>1, RemaindersAre
<1>3. /\ \A k \in 0 .. BodyLength : R[k] \in Residue /\ Q[k] \in Residue
      /\ \A k \in 1 .. BodyLength : v[k] \in Digit /\ w[k] \in Digit
  BY RemainderIs
<1>4. x \in Residue
  BY <1>1, <1>3, Differences DEF Apart
<1> HIDE DEF R, Q, x
<1>5. Nat \subseteq S
  <2>1. 0 \in S
    BY <1>2
  <2>2. ASSUME NEW k \in Nat, k \in S PROVE k + 1 \in S
    <3> SUFFICES ASSUME k + 1 < q PROVE Q[k + 1] = R[k + 1]
      OBVIOUS
    <3>1. k + 1 \in 1 .. BodyLength /\ k + 1 \in 1 .. m /\ k + 1 # q /\ (k + 1) - 1 = k
      BY <1>1
    <3>2. w[k + 1] = v[k + 1]
      BY <3>1 DEF AgreeBut
    <3>3. Q[k] = R[k]
      BY <1>1, <2>2
    <3> QED BY <1>2, <3>1, <3>2, <3>3
  <2> HIDE DEF S
  <2> QED BY <2>1, <2>2, SetInduction
<1>6. 0 \in T
  <2>1. q - 1 \in Nat /\ q - 1 < q /\ q \in 1 .. BodyLength /\ q - 1 \in 0 .. BodyLength
    BY <1>1
  <2>2. Q[q - 1] = R[q - 1]
    BY <1>5, <2>1
  <2>3. Q[q] = NextRemainder(R[q - 1], w[q]) /\ R[q] = NextRemainder(R[q - 1], v[q])
    BY <1>2, <2>1, <2>2
  <2>4. Q[q] = Plus(R[q], x)
    BY <1>3, <2>1, <2>3, StepsApart DEF Apart, x
  <2>5. Times(PowerOf(0), x) = x
    BY <1>4, Factors DEF PowerOf
  <2> QED BY <1>1, <2>4, <2>5
<1>7. ASSUME NEW k \in Nat, k \in T PROVE k + 1 \in T
  <2> SUFFICES ASSUME q + (k + 1) <= m
               PROVE  Q[q + (k + 1)] = Plus(R[q + (k + 1)], Times(PowerOf(k + 1), x))
    OBVIOUS
  <2> DEFINE i == q + k  y == Times(PowerOf(k), x)
  <2>1. /\ i + 1 \in 1 .. BodyLength /\ i + 1 \in 1 .. m /\ i + 1 # q /\ (i + 1) - 1 = i
        /\ i \in 0 .. BodyLength /\ k \in 0 .. 35 /\ q + (k + 1) = i + 1 /\ i <= m
    BY <1>1
  <2>2. w[i + 1] = v[i + 1]
    BY <2>1 DEF AgreeBut
  <2>3. Q[i] = Plus(R[i], y)
    BY <1>7, <2>1
  <2>4. PowerOf(k) \in Residue /\ PowerOf(k + 1) = Times(32, PowerOf(k))
    BY <2>1, PowerTable
  <2>5. y \in Residue
    BY <1>4, <2>4, Factors
  <2>6. Times(32, y) = Times(PowerOf(k + 1), x)
    BY <1>4, <2>4, Factors
  <2> HIDE DEF i, y
  <2>7. Q[i + 1] = NextRemainder(Q[i], w[i + 1]) /\ R[i + 1] = NextRemainder(R[i], v[i + 1])
    BY <1>2, <2>1
  <2>8. Q[i + 1] = Plus(R[i + 1], Times(32, y))
    BY <1>3, <2>1, <2>2, <2>3, <2>5, <2>7, StepsApart
  <2> QED BY <2>1, <2>6, <2>8
<1>8. Nat \subseteq T
  <2> HIDE DEF T
  <2> QED BY <1>6, <1>7, SetInduction
<1>9. m - q \in Nat /\ q + (m - q) = m
  BY <1>1
<1> QED BY <1>1, <1>8, <1>9 DEF R, Q, x

\* One digit that is another changes the remainder.
THEOREM OneDigit ==
  ASSUME NEW v \in Value, NEW w \in Value, NEW q \in 1 .. BodyLength,
         AgreeBut(w, v, q, BodyLength), Remainder(w) = Remainder(v)
  PROVE  w = v
<1>1. BodyLength \in 5 .. 36 /\ BodyLength \in 1 .. BodyLength
      /\ BodyLength - q \in 0 .. 35 /\ q \in 1 .. BodyLength
  BY PagesAssumption
<1> DEFINE x == Apart(w, v, q)  p == PowerOf(BodyLength - q)
<1>2. v[q] \in Digit /\ w[q] \in Digit
  BY RemainderIs
<1>3. x \in Residue /\ (x = 0 => w[q] = v[q])
  BY <1>2, RemainderIs, Differences DEF Apart
<1>4. p \in Residue /\ p # 0
  BY <1>1, PowerTable
<1>5. Remainder(w) = Plus(Remainder(v), Times(p, x)) /\ Remainder(v) \in Residue
  BY <1>1, Drift, RemainderIs
<1> HIDE DEF x, p
<1>6. Times(p, x) = 0
  <2>1. Times(p, x) \in Residue
    BY <1>3, <1>4, Factors
  <2> QED BY <1>5, <2>1, Differences
<1>7. x = 0
  BY <1>3, <1>4, <1>6, PrimeProduct
<1>8. \A k \in 1 .. BodyLength : w[k] = v[k]
  BY <1>3, <1>7 DEF AgreeBut
<1> QED BY <1>8, SameValue

\* If two values agree after i, and their remainders are equal, so are their remainders at i.
LEMMA TailsAgree ==
  ASSUME NEW v \in Value, NEW w \in Value, NEW i \in 1 .. BodyLength,
         \A k \in 1 .. BodyLength : k > i => w[k] = v[k], Remainder(w) = Remainder(v)
  PROVE  Remainders(w, BodyLength)[i] = Remainders(v, BodyLength)[i]
<1> DEFINE R == Remainders(v, BodyLength)
           Q == Remainders(w, BodyLength)
           S == {k \in Nat : BodyLength - k >= i => Q[BodyLength - k] = R[BodyLength - k]}
<1>1. BodyLength \in 5 .. 36 /\ i \in 1 .. BodyLength
  BY PagesAssumption
<1>2. /\ \A k \in 1 .. BodyLength : Q[k] = NextRemainder(Q[k - 1], w[k])
      /\ \A k \in 1 .. BodyLength : R[k] = NextRemainder(R[k - 1], v[k])
  BY <1>1, RemaindersAre
<1>3. /\ \A k \in 0 .. BodyLength : R[k] \in Residue /\ Q[k] \in Residue
      /\ \A k \in 1 .. BodyLength : v[k] \in Digit /\ w[k] \in Digit
      /\ Q[BodyLength] = R[BodyLength]
  BY RemainderIs
<1> HIDE DEF R, Q
<1>4. 0 \in S
  BY <1>1, <1>3
<1>5. ASSUME NEW k \in Nat, k \in S PROVE k + 1 \in S
  <2> DEFINE j == BodyLength - (k + 1)
  <2> SUFFICES ASSUME j >= i PROVE Q[j] = R[j]
    OBVIOUS
  <2>1. j + 1 \in 1 .. BodyLength /\ j + 1 > i /\ (j + 1) - 1 = j /\ j \in 0 .. BodyLength
        /\ BodyLength - k = j + 1 /\ BodyLength - k >= i
    BY <1>1
  <2>2. Q[j + 1] = R[j + 1]
    BY <1>5, <2>1
  <2> HIDE DEF j
  <2>3. NextRemainder(Q[j], v[j + 1]) = NextRemainder(R[j], v[j + 1])
    BY <1>2, <2>1, <2>2
  <2> QED BY <1>3, <2>1, <2>3, StepsApart
<1>6. Nat \subseteq S
  <2> HIDE DEF S
  <2> QED BY <1>4, <1>5, SetInduction
<1>7. BodyLength - i \in Nat /\ BodyLength - (BodyLength - i) = i
  BY <1>1
<1> QED BY <1>1, <1>6, <1>7 DEF R, Q

\* Two digits that change places change the remainder.
THEOREM TwoDigits ==
  ASSUME NEW v \in Value, NEW w \in Value, NEW i \in 1 .. BodyLength, NEW j \in 1 .. BodyLength,
         i < j, w[i] = v[j], w[j] = v[i],
         \A k \in 1 .. BodyLength : k \notin {i, j} => w[k] = v[k], Remainder(w) = Remainder(v)
  PROVE  w = v
<1>1. /\ BodyLength \in 5 .. 36 /\ j - 1 \in 1 .. BodyLength /\ i \in 1 .. (j - 1)
      /\ j \in 1 .. BodyLength /\ i \in 1 .. BodyLength /\ (j - 1) - i \in 0 .. 35
      /\ j - i \in 1 .. 35 /\ ((j - 1) - i) + 1 = j - i /\ j - 1 \in 0 .. BodyLength
  BY PagesAssumption
<1> DEFINE R == Remainders(v, BodyLength)
           Q == Remainders(w, BodyLength)
           x == Apart(w, v, i)
           y == Times(PowerOf((j - 1) - i), x)
<1>2. AgreeBut(w, v, i, j - 1)
  BY <1>1 DEF AgreeBut
<1>3. v[i] \in Digit /\ v[j] \in Digit /\ R[j - 1] \in Residue
  BY <1>1, RemainderIs
<1>4. x \in Residue /\ (x = 0 => v[j] = v[i]) /\ x = Minus(v[j], v[i])
  BY <1>3, Differences DEF Apart
<1>5. PowerOf((j - 1) - i) \in Residue /\ Power[j - i] \in Residue /\ Power[j - i] # 1
      /\ Power[j - i] = Times(32, PowerOf((j - 1) - i))
  BY <1>1, PowerTable DEF PowerOf
<1>6. y \in Residue
  BY <1>4, <1>5, Factors
<1>7. Q[j - 1] = Plus(R[j - 1], y)
  BY <1>1, <1>2, Drift
<1>8. Q[j] = R[j]
  BY <1>1, TailsAgree
<1>9. Q[j] = NextRemainder(Q[j - 1], v[i]) /\ R[j] = NextRemainder(R[j - 1], v[j])
  BY <1>1, RemaindersAre
<1>10. Times(32, y) = Times(Power[j - i], x)
  BY <1>4, <1>5, Factors
<1> HIDE DEF R, Q, x, y
<1>11. Times(32, y) = x
  <2>1. NextRemainder(Plus(R[j - 1], y), v[i]) = NextRemainder(R[j - 1], v[j])
    BY <1>7, <1>8, <1>9
  <2>2. Times(32, y) = Minus(v[j], v[i])
    BY <1>3, <1>6, <2>1, StepsApart
  <2> QED BY <1>4, <2>2
<1>12. x = 0
  BY <1>4, <1>5, <1>10, <1>11, FactorMoves
<1>13. \A k \in 1 .. BodyLength : w[k] = v[k]
  BY <1>4, <1>12
<1> QED BY <1>13, SameValue

\* So do the check symbol and a digit, unless it is the digit 18 before the last.
THEOREM DigitAndCheck ==
  ASSUME NEW v \in Value, NEW w \in Value, NEW q \in 1 .. BodyLength, BodyLength - q # 18,
         AgreeBut(w, v, q, BodyLength), w[q] = Remainder(v), Remainder(w) = v[q]
  PROVE  w = v
<1>1. BodyLength \in 5 .. 36 /\ BodyLength \in 1 .. BodyLength
      /\ BodyLength - q \in 0 .. 35 /\ q \in 1 .. BodyLength
  BY PagesAssumption
<1> DEFINE x == Apart(w, v, q)  p == PowerOf(BodyLength - q)
<1>2. v[q] \in Digit /\ w[q] \in Digit
  BY RemainderIs
<1>3. x \in Residue /\ (x = 0 => w[q] = v[q]) /\ x = Minus(Remainder(v), v[q])
  BY <1>2, RemainderIs, Differences DEF Apart
<1>4. p \in Residue /\ p # 36
  BY <1>1, PowerTable
<1>5. v[q] = Plus(Remainder(v), Times(p, x)) /\ Remainder(v) \in Residue
  BY <1>1, Drift, RemainderIs
<1> HIDE DEF x, p
<1>6. Times(p, x) \in Residue
  BY <1>3, <1>4, Factors
<1>7. Plus(x, Times(p, x)) = 0
  BY <1>2, <1>3, <1>5, <1>6, Differences
<1>8. x = 0
  BY <1>3, <1>4, <1>7, FactorMoves
<1>9. \A k \in 1 .. BodyLength : w[k] = v[k]
  BY <1>3, <1>8 DEF AgreeBut
<1> QED BY <1>9, SameValue

-----------------------------------------------------------------------------
(* The alphabet *)

\* No two symbols are the same, and none is a separator or mistaken for another.
LEMMA CheckAlphabet ==
  /\ Len(CHECK_ALPHABET) = 37 /\ DOMAIN CHECK_ALPHABET = 1 .. 37
  /\ \A i, j \in 1 .. 37 : CHECK_ALPHABET[i] = CHECK_ALPHABET[j] => i = j
  /\ \A i \in 1 .. 37 :
       CHECK_ALPHABET[i] \notin {"space", "-", "I", "L", "i", "l", "O", "o", "t", "p", "%"}
  /\ CHECK_ALPHABET[2] = "1" /\ CHECK_ALPHABET[23] = "P" /\ CHECK_ALPHABET[27] = "T"
<1>1. \A i, j \in 1 .. 37 : CHECK_ALPHABET[i] = CHECK_ALPHABET[j] => i = j
  BY SMTT(60) DEF CHECK_ALPHABET
<1>2. \A i \in 1 .. 37 :
        CHECK_ALPHABET[i] \notin {"space", "-", "I", "L", "i", "l", "O", "o", "t", "p", "%"}
  BY SMTT(60) DEF CHECK_ALPHABET
<1>3. Len(CHECK_ALPHABET) = 37 /\ DOMAIN CHECK_ALPHABET = 1 .. 37
  BY DEF CHECK_ALPHABET
<1>4. CHECK_ALPHABET[2] = "1" /\ CHECK_ALPHABET[23] = "P" /\ CHECK_ALPHABET[27] = "T"
  BY DEF CHECK_ALPHABET
<1> QED BY <1>1, <1>2, <1>3, <1>4

\* A check symbol is what it is typed as.
LEMMA CheckSymbolsStay ==
  \A i \in 1 .. 37 : /\ Folded(CHECK_ALPHABET[i]) = CHECK_ALPHABET[i]
                     /\ CHECK_ALPHABET[i] \notin Separator /\ CHECK_ALPHABET[i] \in Typeable
<1>1. \A ch : ch \notin {"I", "L", "i", "l", "O", "o", "t", "p"} => Folded(ch) = ch
  BY Zenon DEF Folded
<1>2. \A i \in 1 .. 37 : CHECK_ALPHABET[i] \in Typeable
  BY CheckAlphabet DEF Typeable, ToSet
<1> QED BY <1>1, <1>2, CheckAlphabet DEF Separator

\* The digits' symbols are the first 32 check symbols.
LEMMA Alphabet ==
  /\ Len(ALPHABET) = 32 /\ DOMAIN ALPHABET = 1 .. 32
  /\ \A d \in Digit : d + 1 \in 1 .. 37 /\ ALPHABET[d + 1] = CHECK_ALPHABET[d + 1]
<1>1. \A i \in 1 .. 32 : CHECK_ALPHABET[i] \in ToSet(CHECK_ALPHABET)
  BY CheckAlphabet DEF ToSet
<1>2. /\ SubSeq(CHECK_ALPHABET, 1, 32) \in Seq(ToSet(CHECK_ALPHABET))
      /\ Len(SubSeq(CHECK_ALPHABET, 1, 32)) = IF 1 <= 32 THEN 32 - 1 + 1 ELSE 0
      /\ \A i \in 1 .. 32 - 1 + 1 :
           SubSeq(CHECK_ALPHABET, 1, 32)[i] = CHECK_ALPHABET[1 + i - 1]
  BY <1>1, SubSeqProperties
<1>3. \A i \in 1 .. 32 : 1 + i - 1 = i /\ i \in 1 .. 32 - 1 + 1
  OBVIOUS
<1>4. \A d \in Digit : d + 1 \in 1 .. 32 /\ d + 1 \in 1 .. 37
  BY DEF Digit
<1> QED BY <1>2, <1>3, <1>4 DEF ALPHABET

\* A digit's symbol stands for it.
LEMMA SymbolOfDigit ==
  \A d \in Digit : ALPHABET[d + 1] \in Symbol /\ IndexOf[ALPHABET[d + 1]] = d
<1> TAKE d \in Digit
<1>1. ALPHABET[d + 1] \in Symbol
  <2>1. d + 1 \in 1 .. 32
    BY DEF Digit
  <2> QED BY <2>1, Alphabet DEF Symbol, ToSet
<1>2. \A e \in Digit : ALPHABET[e + 1] = ALPHABET[d + 1] => e = d
  <2> SUFFICES ASSUME NEW e \in Digit, ALPHABET[e + 1] = ALPHABET[d + 1] PROVE e = d
    OBVIOUS
  <2>1. e + 1 = d + 1
    BY Alphabet, CheckAlphabet
  <2> QED BY <2>1 DEF Digit
<1>3. (CHOOSE e \in Digit : ALPHABET[e + 1] = ALPHABET[d + 1]) = d
  BY <1>2
<1> QED BY <1>1, <1>3 DEF IndexOf

\* A check symbol that is a symbol stands for its remainder.
LEMMA SymbolOfRemainder ==
  \A r \in Residue :
    /\ r + 1 \in 1 .. 37
    /\ CHECK_ALPHABET[r + 1] \in Symbol => IndexOf[CHECK_ALPHABET[r + 1]] = r
<1> TAKE r \in Residue
<1>1. r + 1 \in 1 .. 37
  BY DEF Residue
<1> SUFFICES ASSUME CHECK_ALPHABET[r + 1] \in Symbol
             PROVE  IndexOf[CHECK_ALPHABET[r + 1]] = r
  BY <1>1
<1>2. PICK i \in 1 .. 32 : ALPHABET[i] = CHECK_ALPHABET[r + 1]
  BY Alphabet DEF Symbol, ToSet
<1>3. i - 1 \in Digit /\ (i - 1) + 1 = i
  BY DEF Digit
<1>4. i = r + 1
  BY <1>1, <1>2, <1>3, Alphabet, CheckAlphabet
<1>5. i - 1 = r
  BY <1>4 DEF Residue
<1> QED BY <1>2, <1>3, <1>5, SymbolOfDigit

\* Every symbol is a digit's.
LEMMA DigitOfSymbol == \A ch \in Symbol : IndexOf[ch] \in Digit
<1> TAKE ch \in Symbol
<1>1. PICK i \in 1 .. 32 : ALPHABET[i] = ch
  BY Alphabet DEF Symbol, ToSet
<1>2. i - 1 \in Digit /\ (i - 1) + 1 = i
  BY DEF Digit
<1> QED BY <1>1, <1>2, SymbolOfDigit

\* Equal check symbols are of equal remainders.
LEMMA CheckSymbolIs ==
  ASSUME NEW v \in Value
  PROVE  /\ Remainder(v) + 1 \in 1 .. 37 /\ checkSymbol(v) = CHECK_ALPHABET[Remainder(v) + 1]
         /\ \A r \in Residue : CHECK_ALPHABET[r + 1] = checkSymbol(v) => Remainder(v) = r
<1>1. Remainder(v) \in Residue
  BY RemainderIs
<1>2. Remainder(v) + 1 \in 1 .. 37
  BY <1>1, SymbolOfRemainder
<1>3. ASSUME NEW r \in Residue, CHECK_ALPHABET[r + 1] = CHECK_ALPHABET[Remainder(v) + 1]
      PROVE  Remainder(v) = r
  <2>1. r + 1 = Remainder(v) + 1
    BY <1>2, <1>3, SymbolOfRemainder, CheckAlphabet
  <2> QED BY <1>1, <2>1 DEF Residue
<1> QED BY <1>2, <1>3 DEF checkSymbol

-----------------------------------------------------------------------------
(* Texts *)

Then(text, i, symbols) ==
  IF text[i] \in Separator THEN symbols ELSE Append(symbols, Folded(text[i]))
Symbols(text) ==
  CHOOSE f : f = [i \in 0 .. Len(text) |-> IF i = 0 THEN <<>> ELSE Then(text, i, f[i - 1])]

\* The symbols of a text's beginnings exist, each from the one before.
LEMMA SymbolsExist ==
  ASSUME NEW text
  PROVE  \A n \in Nat : \E f :
           f = [i \in 0 .. n |-> IF i = 0 THEN <<>> ELSE Then(text, i, f[i - 1])]
<1> DEFINE Goes(f, n) ==
             f = [i \in 0 .. n |-> IF i = 0 THEN <<>> ELSE Then(text, i, f[i - 1])]
           S == {n \in Nat : \E f : Goes(f, n)}
<1>1. 0 \in S
  <2>1. Goes([i \in 0 .. 0 |-> <<>>], 0)
    OBVIOUS
  <2> QED BY <2>1
<1>2. ASSUME NEW n \in Nat, n \in S
      PROVE  n + 1 \in S
  <2>1. PICK f : Goes(f, n)
    BY <1>2
  <2> DEFINE g == [i \in 0 .. n + 1 |-> IF i = n + 1 THEN Then(text, n + 1, f[n]) ELSE f[i]]
  <2>2. ASSUME NEW i \in 0 .. n + 1
        PROVE  g[i] = IF i = 0 THEN <<>> ELSE Then(text, i, g[i - 1])
    <3>1. CASE i = n + 1
      BY <3>1
    <3>2. CASE i \in 0 .. n
      <4>1. f[i] = IF i = 0 THEN <<>> ELSE Then(text, i, f[i - 1])
        BY <2>1, <3>2
      <4>2. i # 0 => i - 1 \in 0 .. n /\ i - 1 # n + 1
        BY <3>2
      <4> QED BY <3>2, <4>1, <4>2
    <3> QED BY <3>1, <3>2
  <2>3. Goes(g, n + 1)
    <3> HIDE DEF g
    <3>1. g = [i \in 0 .. n + 1 |-> g[i]]
      BY DEF g
    <3> QED BY <2>2, <3>1
  <2> HIDE DEF Goes, g
  <2>4. \E h : Goes(h, n + 1)
    BY <2>3
  <2> QED BY <2>4
<1>3. Nat \subseteq S
  <2> HIDE DEF S
  <2> QED BY <1>1, <1>2, SetInduction
<1> QED BY <1>3

\* Character by character: a separator adds nothing, another its folding.
LEMMA SymbolsAre ==
  ASSUME NEW text, Len(text) \in Nat
  PROVE  /\ normalizeSymbols(text) = Symbols(text)[Len(text)]
         /\ Symbols(text)[0] = <<>>
         /\ \A i \in 1 .. Len(text) : Symbols(text)[i] = Then(text, i, Symbols(text)[i - 1])
<1> DEFINE Goes(f) == f = [i \in 0 .. Len(text) |->
                             IF i = 0 THEN <<>> ELSE Then(text, i, f[i - 1])]
           f == Symbols(text)
<1>1. Goes(f)
  <2>1. \E g : Goes(g)
    BY SymbolsExist
  <2>2. f = CHOOSE g : Goes(g)
    BY DEF Symbols
  <2> HIDE DEF Goes, f
  <2> QED BY <2>1, <2>2
<1>2. normalizeSymbols(text) = f[Len(text)]
  BY DEF normalizeSymbols, Symbols, Then
<1> HIDE DEF f
<1>3. \A i \in 0 .. Len(text) : f[i] = IF i = 0 THEN <<>> ELSE Then(text, i, f[i - 1])
  BY <1>1
<1>4. f[0] = <<>> /\ \A i \in 1 .. Len(text) : f[i] = Then(text, i, f[i - 1])
  BY <1>3
<1> QED BY <1>2, <1>4 DEF f

\* The symbols are as many as are counted, and each is where its count puts it.
LEMMA Counted ==
  ASSUME NEW text, Len(text) \in Nat, NEW c \in [0 .. Len(text) -> Nat], c[0] = 0,
         \A i \in 1 .. Len(text) :
           c[i] = IF text[i] \in Separator THEN c[i - 1] ELSE c[i - 1] + 1
  PROVE  /\ Len(normalizeSymbols(text)) = c[Len(text)]
         /\ \E A : normalizeSymbols(text) \in Seq(A)
         /\ \A i \in 1 .. Len(text) :
              text[i] \notin Separator => normalizeSymbols(text)[c[i]] = Folded(text[i])
<1> DEFINE A == {Folded(text[i]) : i \in 1 .. Len(text)}
           f == Symbols(text)
           Good(n) == /\ f[n] \in Seq(A) /\ Len(f[n]) = c[n]
                      /\ \A i \in 1 .. n : text[i] \notin Separator =>
                           c[i] \in 1 .. c[n] /\ f[n][c[i]] = Folded(text[i])
           S == {n \in Nat : n <= Len(text) => Good(n)}
<1>1. f[0] = <<>> /\ \A i \in 1 .. Len(text) : f[i] = Then(text, i, f[i - 1])
  BY SymbolsAre
<1> HIDE DEF f
<1>2. 0 \in S
  <2>1. Good(0)
    BY <1>1
  <2> QED BY <2>1
<1>3. ASSUME NEW n \in Nat, n \in S PROVE n + 1 \in S
  <2> SUFFICES ASSUME n + 1 <= Len(text) PROVE Good(n + 1)
    OBVIOUS
  <2>1. n + 1 \in 1 .. Len(text) /\ (n + 1) - 1 = n /\ n <= Len(text) /\ n \in 0 .. Len(text)
    OBVIOUS
  <2>2. Good(n)
    BY <1>3, <2>1
  <2>3. f[n + 1] = Then(text, n + 1, f[n])
    BY <1>1, <2>1
  <2>4. Folded(text[n + 1]) \in A
    BY <2>1
  <2> HIDE DEF A
  <2>5. CASE text[n + 1] \in Separator
    <3>1. f[n + 1] = f[n] /\ c[n + 1] = c[n]
      BY <2>1, <2>3, <2>5 DEF Then
    <3>2. \A i \in 1 .. n + 1 : text[i] \notin Separator => i \in 1 .. n
      BY <2>5
    <3> QED BY <2>2, <3>1, <3>2
  <2>6. CASE text[n + 1] \notin Separator
    <3>1. f[n + 1] = Append(f[n], Folded(text[n + 1])) /\ c[n + 1] = c[n] + 1 /\ c[n] \in Nat
      BY <2>1, <2>3, <2>6 DEF Then
    <3>2. /\ f[n + 1] \in Seq(A) /\ Len(f[n + 1]) = c[n] + 1
          /\ f[n + 1][c[n] + 1] = Folded(text[n + 1])
          /\ \A k \in 1 .. c[n] : f[n + 1][k] = f[n][k]
      BY <2>2, <2>4, <3>1, AppendProperties
    <3>3. \A i \in 1 .. n + 1 : i = n + 1 \/ i \in 1 .. n
      OBVIOUS
    <3>4. ASSUME NEW i \in 1 .. n + 1, text[i] \notin Separator
          PROVE  c[i] \in 1 .. c[n + 1] /\ f[n + 1][c[i]] = Folded(text[i])
      BY <2>2, <3>1, <3>2, <3>3, <3>4
    <3> QED BY <3>1, <3>2, <3>4
  <2> QED BY <2>5, <2>6
<1>4. Nat \subseteq S
  <2> HIDE DEF S
  <2> QED BY <1>2, <1>3, SetInduction
<1>5. Good(Len(text))
  <2> HIDE DEF Good
  <2>1. Len(text) \in S
    <3> HIDE DEF S
    <3> QED BY <1>4
  <2> QED BY <2>1
<1>6. normalizeSymbols(text) = f[Len(text)]
  BY SymbolsAre DEF f
<1> QED BY <1>5, <1>6

\* Without separators every character is a symbol.
LEMMA NoSeparator ==
  ASSUME NEW text, Len(text) \in Nat, \A i \in 1 .. Len(text) : text[i] \notin Separator
  PROVE  /\ Len(normalizeSymbols(text)) = Len(text)
         /\ \A k \in 1 .. Len(text) : normalizeSymbols(text)[k] = Folded(text[k])
<1> DEFINE c == [i \in 0 .. Len(text) |-> i]
<1>1. c \in [0 .. Len(text) -> Nat] /\ c[0] = 0 /\ c[Len(text)] = Len(text)
  OBVIOUS
<1>2. \A i \in 1 .. Len(text) : c[i] = c[i - 1] + 1 /\ c[i] = i
  OBVIOUS
<1> HIDE DEF c
<1>3. \A i \in 1 .. Len(text) : c[i] = IF text[i] \in Separator THEN c[i - 1] ELSE c[i - 1] + 1
  BY <1>2
<1>4. /\ Len(normalizeSymbols(text)) = c[Len(text)]
      /\ \A i \in 1 .. Len(text) :
           text[i] \notin Separator => normalizeSymbols(text)[c[i]] = Folded(text[i])
  BY <1>1, <1>3, Counted
<1> QED BY <1>1, <1>2, <1>4

\* One separator is left out.
LEMMA OneSeparator ==
  ASSUME NEW text, Len(text) \in Nat, NEW p \in 1 .. Len(text),
         \A i \in 1 .. Len(text) : text[i] \in Separator <=> i = p
  PROVE  /\ Len(normalizeSymbols(text)) = Len(text) - 1
         /\ \A k \in 1 .. Len(text) :
              /\ k < p => normalizeSymbols(text)[k] = Folded(text[k])
              /\ k > p => normalizeSymbols(text)[k - 1] = Folded(text[k])
<1> DEFINE c == [i \in 0 .. Len(text) |-> IF i < p THEN i ELSE i - 1]
<1>1. c \in [0 .. Len(text) -> Nat] /\ c[0] = 0 /\ c[Len(text)] = Len(text) - 1
  OBVIOUS
<1>2. \A i \in 1 .. Len(text) : c[i] = IF i = p THEN c[i - 1] ELSE c[i - 1] + 1
  OBVIOUS
<1>3. \A i \in 1 .. Len(text) : c[i] = IF i < p THEN i ELSE i - 1
  OBVIOUS
<1> HIDE DEF c
<1>4. \A i \in 1 .. Len(text) : c[i] = IF text[i] \in Separator THEN c[i - 1] ELSE c[i - 1] + 1
  BY <1>2
<1>5. /\ Len(normalizeSymbols(text)) = c[Len(text)]
      /\ \A i \in 1 .. Len(text) :
           text[i] \notin Separator => normalizeSymbols(text)[c[i]] = Folded(text[i])
  BY <1>1, <1>4, Counted
<1>6. \A k \in 1 .. Len(text) : /\ k < p => c[k] = k /\ text[k] \notin Separator
                                /\ k > p => c[k] = k - 1 /\ text[k] \notin Separator
  BY <1>3
<1> QED BY <1>1, <1>5, <1>6

\* So are two.
LEMMA TwoSeparators ==
  ASSUME NEW text, Len(text) \in Nat, NEW p \in 1 .. Len(text), NEW q \in 1 .. Len(text), p < q,
         \A i \in 1 .. Len(text) : text[i] \in Separator <=> (i = p \/ i = q)
  PROVE  /\ Len(normalizeSymbols(text)) = Len(text) - 2
         /\ \A k \in 1 .. Len(text) :
              /\ k < p => normalizeSymbols(text)[k] = Folded(text[k])
              /\ k > q => normalizeSymbols(text)[k - 2] = Folded(text[k])
<1> DEFINE c == [i \in 0 .. Len(text) |-> IF i < p THEN i ELSE IF i < q THEN i - 1 ELSE i - 2]
<1>1. c \in [0 .. Len(text) -> Nat] /\ c[0] = 0 /\ c[Len(text)] = Len(text) - 2
  OBVIOUS
<1>2. \A i \in 1 .. Len(text) : c[i] = IF i = p \/ i = q THEN c[i - 1] ELSE c[i - 1] + 1
  OBVIOUS
<1>3. \A i \in 1 .. Len(text) : c[i] = IF i < p THEN i ELSE IF i < q THEN i - 1 ELSE i - 2
  OBVIOUS
<1> HIDE DEF c
<1>4. \A i \in 1 .. Len(text) : c[i] = IF text[i] \in Separator THEN c[i - 1] ELSE c[i - 1] + 1
  BY <1>2
<1>5. /\ Len(normalizeSymbols(text)) = c[Len(text)]
      /\ \A i \in 1 .. Len(text) :
           text[i] \notin Separator => normalizeSymbols(text)[c[i]] = Folded(text[i])
  BY <1>1, <1>4, Counted
<1>6. \A k \in 1 .. Len(text) : /\ k < p => c[k] = k /\ text[k] \notin Separator
                                /\ k > q => c[k] = k - 2 /\ text[k] \notin Separator
  BY <1>3
<1> QED BY <1>1, <1>5, <1>6

\* What a reader's manner adds or changes is no symbol.
LEMMA Alike ==
  ASSUME NEW text, NEW read, Len(text) \in Nat, Len(read) \in Nat,
         NEW at \in [0 .. Len(read) -> 0 .. Len(text)],
         at[0] = 0, at[Len(read)] = Len(text),
         \A i \in 1 .. Len(read) :
           \/ at[i] = at[i - 1] /\ read[i] \in Separator
           \/ /\ at[i] = at[i - 1] + 1
              /\ read[i] \in Separator <=> text[at[i]] \in Separator
              /\ Folded(read[i]) = Folded(text[at[i]])
  PROVE  normalizeSymbols(read) = normalizeSymbols(text)
<1> DEFINE f == Symbols(text)
           g == Symbols(read)
           S == {n \in Nat : n <= Len(read) => g[n] = f[at[n]]}
<1>1. /\ f[0] = <<>> /\ \A i \in 1 .. Len(text) : f[i] = Then(text, i, f[i - 1])
      /\ g[0] = <<>> /\ \A i \in 1 .. Len(read) : g[i] = Then(read, i, g[i - 1])
  BY SymbolsAre
<1>2. normalizeSymbols(text) = f[Len(text)] /\ normalizeSymbols(read) = g[Len(read)]
  BY SymbolsAre
<1> HIDE DEF f, g
<1>3. 0 \in S
  BY <1>1
<1>4. ASSUME NEW n \in Nat, n \in S PROVE n + 1 \in S
  <2> SUFFICES ASSUME n + 1 <= Len(read) PROVE g[n + 1] = f[at[n + 1]]
    OBVIOUS
  <2>1. n + 1 \in 1 .. Len(read) /\ (n + 1) - 1 = n /\ n <= Len(read) /\ n \in 0 .. Len(read)
    OBVIOUS
  <2>2. g[n] = f[at[n]]
    BY <1>4, <2>1
  <2>3. g[n + 1] = Then(read, n + 1, f[at[n]])
    BY <1>1, <2>1, <2>2
  <2>4. CASE at[n + 1] = at[n] /\ read[n + 1] \in Separator
    BY <2>3, <2>4 DEF Then
  <2>5. CASE /\ at[n + 1] = at[n] + 1
             /\ read[n + 1] \in Separator <=> text[at[n + 1]] \in Separator
             /\ Folded(read[n + 1]) = Folded(text[at[n + 1]])
    <3>1. at[n + 1] \in 1 .. Len(text) /\ at[n + 1] - 1 = at[n]
      <4>1. at[n] \in 0 .. Len(text) /\ at[n + 1] \in 0 .. Len(text)
        BY <2>1
      <4> QED BY <2>5, <4>1
    <3>2. f[at[n + 1]] = Then(text, at[n + 1], f[at[n]])
      BY <1>1, <3>1
    <3> QED BY <2>3, <2>5, <3>2 DEF Then
  <2> QED BY <2>1, <2>4, <2>5
<1>5. Nat \subseteq S
  <2> HIDE DEF S
  <2> QED BY <1>3, <1>4, SetInduction
<1>6. g[Len(read)] = f[at[Len(read)]]
  BY <1>5
<1> QED BY <1>2, <1>6

Joins(u, s, t) ==
  /\ Len(u) = Len(s) + Len(t)
  /\ \A i \in 1 .. Len(s) : u[i] = s[i]
  /\ \A i \in 1 .. Len(t) : u[Len(s) + i] = t[i]

\* One text after another.
LEMMA Joined == \A A : \A s, t \in Seq(A) : s \o t \in Seq(A) /\ Joins(s \o t, s, t)
<1> TAKE A
<1> TAKE s, t \in Seq(A)
<1> DEFINE u == s \o t
<1>1. /\ u \in Seq(A) /\ Len(u) = Len(s) + Len(t)
      /\ \A i \in 1 .. Len(s) + Len(t) : u[i] = IF i <= Len(s) THEN s[i] ELSE t[i - Len(s)]
  BY ConcatProperties
<1> HIDE DEF u
<1>2. \A i \in 1 .. Len(s) : i \in 1 .. Len(s) + Len(t) /\ i <= Len(s)
  OBVIOUS
<1>3. \A i \in 1 .. Len(t) : /\ Len(s) + i \in 1 .. Len(s) + Len(t) /\ ~(Len(s) + i <= Len(s))
                             /\ (Len(s) + i) - Len(s) = i
  OBVIOUS
<1>4. u \in Seq(A) /\ Joins(u, s, t)
  BY <1>1, <1>2, <1>3 DEF Joins
<1> QED BY <1>4 DEF u

\* A part of a text.
LEMMA Part ==
  ASSUME NEW A, NEW s \in Seq(A), NEW i \in Nat \ {0}, NEW j \in Nat, i <= j + 1, j <= Len(s),
         NEW u, u = SubSeq(s, i, j)
  PROVE  /\ u \in Seq(A) /\ Len(u) = (j - i) + 1
         /\ \A k \in 1 .. (j - i) + 1 : u[k] = s[(i - 1) + k]
<1>1. \A k \in i .. j : s[k] \in A
  OBVIOUS
<1>2. /\ u \in Seq(A) /\ Len(u) = IF i <= j THEN j - i + 1 ELSE 0
      /\ \A k \in 1 .. j - i + 1 : u[k] = s[i + k - 1]
  BY <1>1, SubSeqProperties
<1>3. \A k \in 1 .. (j - i) + 1 : k \in 1 .. j - i + 1 /\ i + k - 1 = (i - 1) + k
  OBVIOUS
<1>4. (IF i <= j THEN j - i + 1 ELSE 0) = (j - i) + 1
  OBVIOUS
<1> QED BY <1>2, <1>3, <1>4

\* What a text in groups holds where.
LEMMA GroupedIs ==
  ASSUME NEW text \in Seq(Typeable), Len(text) >= 9, NEW ch \in Separator
  PROVE  LET read == Grouped(ch, text)
         IN /\ read \in Seq(Typeable)
            /\ Len(read) = Len(text) + 3 /\ DOMAIN read = 1 .. Len(read)
            /\ \A k \in 1 .. Len(read) :
                 \/ k \in {1, 11, 12} /\ read[k] \in Separator
                 \/ k \in 2 .. 10 /\ read[k] = text[k - 1]
                 \/ k >= 13 /\ read[k] = text[k - 3]
<1> DEFINE n == Len(text)
           gap == <<ch>>
           first == SubSeq(text, 1, 9)
           gaps == <<ch, "-">>
           rest == SubSeq(text, 10, n)
           a == gap \o first
           b == a \o gaps
           read == b \o rest
<1>1. n \in Nat /\ n >= 9 /\ n - 9 \in Nat
  OBVIOUS
<1>2. ch \in Typeable /\ "-" \in Typeable /\ "-" \in Separator
  BY DEF Typeable, Separator
<1>3. gap \in Seq(Typeable) /\ Len(gap) = 1 /\ gap[1] \in Separator
  BY <1>2
<1>4. /\ gaps \in Seq(Typeable) /\ Len(gaps) = 2
      /\ \A i \in 1 .. 2 : gaps[i] \in Separator
  BY <1>2
<1>5. Grouped(ch, text) = read
  BY DEF Grouped
<1> HIDE DEF gap, gaps, n
<1>6. /\ first \in Seq(Typeable) /\ Len(first) = 9
      /\ \A i \in 1 .. 9 : first[i] = text[i]
  <2>1. /\ first \in Seq(Typeable) /\ Len(first) = (9 - 1) + 1
        /\ \A i \in 1 .. (9 - 1) + 1 : first[i] = text[(1 - 1) + i]
    BY <1>1, Part DEF n
  <2> HIDE DEF first
  <2>2. \A i \in 1 .. 9 : i \in 1 .. (9 - 1) + 1 /\ (1 - 1) + i = i
    OBVIOUS
  <2> QED BY <2>1, <2>2
<1>7. /\ rest \in Seq(Typeable) /\ Len(rest) = n - 9
      /\ \A i \in 1 .. n - 9 : rest[i] = text[9 + i]
  <2>1. /\ rest \in Seq(Typeable) /\ Len(rest) = (n - 10) + 1
        /\ \A i \in 1 .. (n - 10) + 1 : rest[i] = text[(10 - 1) + i]
    <3>1. n \in Nat /\ 10 \in Nat \ {0} /\ 10 <= n + 1 /\ n <= Len(text)
      BY <1>1 DEF n
    <3> HIDE DEF rest
    <3>2. rest = SubSeq(text, 10, n)
      BY DEF rest
    <3> QED BY <3>1, <3>2, Part
  <2> HIDE DEF rest
  <2>2. (n - 10) + 1 = n - 9 /\ \A i \in 1 .. n - 9 : (10 - 1) + i = 9 + i
    BY <1>1
  <2> QED BY <2>1, <2>2
<1> HIDE DEF first, rest
<1>8. /\ a \in Seq(Typeable) /\ Len(a) = 1 + 9
      /\ \A i \in 1 .. 1 : a[i] = gap[i]
      /\ \A i \in 1 .. 9 : a[1 + i] = first[i]
  <2> HIDE DEF a
  <2>1. a = gap \o first
    BY DEF a
  <2>2. a \in Seq(Typeable) /\ Joins(a, gap, first)
    BY <1>3, <1>6, <2>1, Joined, Zenon
  <2> QED BY <1>3, <1>6, <2>1, <2>2 DEF Joins
<1> HIDE DEF a
<1>9. /\ b \in Seq(Typeable) /\ Len(b) = 10 + 2
      /\ \A i \in 1 .. 10 : b[i] = a[i]
      /\ \A i \in 1 .. 2 : b[10 + i] = gaps[i]
  <2> HIDE DEF b
  <2>1. b = a \o gaps /\ Len(a) = 10
    BY <1>8 DEF b
  <2>2. b \in Seq(Typeable) /\ Joins(b, a, gaps)
    BY <1>4, <1>8, <2>1, Joined, Zenon
  <2> QED BY <1>4, <1>8, <2>1, <2>2 DEF Joins
<1> HIDE DEF b
<1>10. /\ read \in Seq(Typeable)
       /\ Len(read) = 12 + (n - 9) /\ DOMAIN read = 1 .. Len(read)
       /\ \A i \in 1 .. 12 : read[i] = b[i]
       /\ \A i \in 1 .. n - 9 : read[12 + i] = rest[i]
  <2> HIDE DEF read
  <2>1. read = b \o rest /\ Len(b) = 12
    BY <1>9 DEF read
  <2>2. read \in Seq(Typeable) /\ Joins(read, b, rest)
    BY <1>1, <1>7, <1>9, <2>1, Joined, Zenon
  <2>3. /\ Len(read) = 12 + (n - 9)
        /\ \A i \in 1 .. 12 : read[i] = b[i]
        /\ \A i \in 1 .. n - 9 : read[12 + i] = rest[i]
    BY <1>1, <1>7, <1>9, <2>1, <2>2 DEF Joins
  <2>4. DOMAIN read = 1 .. Len(read)
    BY <2>2
  <2> QED BY <2>2, <2>3, <2>4
<1> HIDE DEF read
<1>11. 12 + (n - 9) = n + 3
  BY <1>1
<1>12. ASSUME NEW k \in 1 .. n + 3
       PROVE  \/ k \in {1, 11, 12} /\ read[k] \in Separator
              \/ k \in 2 .. 10 /\ read[k] = text[k - 1]
              \/ k >= 13 /\ read[k] = text[k - 3]
  <2>1. CASE k = 1
    BY <1>3, <1>8, <1>9, <1>10, <2>1
  <2>2. CASE k \in 2 .. 10
    <3>1. k \in 1 .. 12 /\ k \in 1 .. 10 /\ k - 1 \in 1 .. 9 /\ k = 1 + (k - 1)
      BY <2>2
    <3>2. a[k] = first[k - 1]
      BY <1>8, <3>1
    <3> QED BY <1>6, <1>9, <1>10, <2>2, <3>1, <3>2
  <2>3. CASE k \in 11 .. 12
    <3>1. k \in 1 .. 12 /\ k - 10 \in 1 .. 2 /\ k = 10 + (k - 10) /\ k \in {1, 11, 12}
      BY <2>3
    <3>2. b[k] = gaps[k - 10]
      BY <1>9, <3>1
    <3> QED BY <1>4, <1>10, <3>1, <3>2
  <2>4. CASE k >= 13
    <3>1. k - 12 \in 1 .. n - 9 /\ k = 12 + (k - 12) /\ 9 + (k - 12) = k - 3
      BY <1>1, <2>4
    <3>2. read[k] = rest[k - 12]
      BY <1>10, <3>1
    <3> QED BY <1>7, <2>4, <3>1, <3>2
  <2>5. k = 1 \/ k \in 2 .. 10 \/ k \in 11 .. 12 \/ k >= 13
    BY <1>1
  <2> QED BY <2>1, <2>2, <2>3, <2>4, <2>5
<1> QED BY <1>5, <1>10, <1>11, <1>12 DEF n

\* In whatever manner it is written down, a text has the same symbols.
LEMMA WrittenAlike ==
  ASSUME NEW manner \in Manner, NEW text \in Seq(Typeable), Len(text) >= 9
  PROVE  /\ normalizeSymbols(Written(manner, text)) = normalizeSymbols(text)
         /\ Len(Written(manner, text)) \in Nat /\ Len(Written(manner, text)) <= Len(text) + 3
         /\ DOMAIN Written(manner, text) = 1 .. Len(Written(manner, text))
         /\ \E A : Written(manner, text) \in Seq(A)
<1> DEFINE read == Written(manner, text)
<1>1. Len(text) \in Nat
  OBVIOUS
<1>2. CASE manner = "printed"
  <2>1. read = text
    BY <1>2 DEF Written
  <2>2. \E A : text \in Seq(A)
    OBVIOUS
  <2> QED BY <1>1, <2>1, <2>2
<1>3. CASE manner = "lookalike"
  <2>1. read = [i \in DOMAIN text |-> Lookalike(text[i])]
    BY <1>3 DEF Written
  <2>2. /\ Len(read) = Len(text) /\ DOMAIN read = 1 .. Len(read)
        /\ \A i \in 1 .. Len(text) : read[i] = Lookalike(text[i])
        /\ read \in Seq({Lookalike(text[i]) : i \in DOMAIN text})
    BY <2>1
  <2>3. \A ch : Folded(Lookalike(ch)) = Folded(ch)
    BY Zenon DEF Folded, Lookalike
  <2>4. \A ch : Lookalike(ch) \in Separator <=> ch \in Separator
    BY Zenon DEF Lookalike, Separator
  <2> DEFINE at == [i \in 0 .. Len(text) |-> i]
  <2>5. /\ at \in [0 .. Len(text) -> 0 .. Len(text)] /\ at[0] = 0 /\ at[Len(text)] = Len(text)
        /\ \A i \in 1 .. Len(text) : at[i] = i /\ at[i] = at[i - 1] + 1
    BY <1>1
  <2> HIDE DEF at, read
  <2>6. \A i \in 1 .. Len(read) :
           \/ at[i] = at[i - 1] /\ read[i] \in Separator
           \/ /\ at[i] = at[i - 1] + 1
              /\ read[i] \in Separator <=> text[at[i]] \in Separator
              /\ Folded(read[i]) = Folded(text[at[i]])
    <3> TAKE i \in 1 .. Len(read)
    <3>1. i \in 1 .. Len(text) /\ at[i] = i /\ at[i] = at[i - 1] + 1 /\ read[i] = Lookalike(text[i])
      BY <2>2, <2>5
    <3> QED BY <2>3, <2>4, <3>1
  <2>7. normalizeSymbols(read) = normalizeSymbols(text)
    BY <1>1, <2>2, <2>5, <2>6, Alike
  <2>8. /\ Len(read) \in Nat /\ Len(read) <= Len(text) + 3 /\ DOMAIN read = 1 .. Len(read)
        /\ \E A : read \in Seq(A)
    BY <1>1, <2>2
  <2> QED BY <2>7, <2>8 DEF read
<1>4. ASSUME NEW ch \in Separator, read = Grouped(ch, text)
      PROVE  /\ normalizeSymbols(read) = normalizeSymbols(text)
             /\ Len(read) \in Nat /\ Len(read) <= Len(text) + 3
             /\ DOMAIN read = 1 .. Len(read) /\ \E A : read \in Seq(A)
  <2>1. /\ read \in Seq(Typeable) /\ Len(read) = Len(text) + 3 /\ DOMAIN read = 1 .. Len(read)
        /\ \A k \in 1 .. Len(read) :
             \/ k \in {1, 11, 12} /\ read[k] \in Separator
             \/ k \in 2 .. 10 /\ read[k] = text[k - 1]
             \/ k >= 13 /\ read[k] = text[k - 3]
    BY <1>4, GroupedIs
  <2> HIDE DEF read
  <2> DEFINE at == [k \in 0 .. Len(text) + 3 |->
                      IF k = 0 THEN 0 ELSE IF k <= 10 THEN k - 1 ELSE IF k <= 12 THEN 9
                      ELSE k - 3]
  <2>2. /\ at \in [0 .. Len(text) + 3 -> 0 .. Len(text)]
        /\ at[0] = 0 /\ at[Len(text) + 3] = Len(text)
    <3>1. PICK n \in Nat : n = Len(text) /\ n >= 9
      BY <1>1
    <3>2. at = [k \in 0 .. n + 3 |->
                  IF k = 0 THEN 0 ELSE IF k <= 10 THEN k - 1 ELSE IF k <= 12 THEN 9 ELSE k - 3]
      BY <3>1
    <3> HIDE DEF at
    <3>3. \A k \in 0 .. n + 3 : at[k] \in 0 .. n
      BY <3>1, <3>2
    <3>4. at[0] = 0 /\ at[n + 3] = n
      BY <3>1, <3>2
    <3>5. at \in [0 .. n + 3 -> 0 .. n]
      BY <3>2, <3>3
    <3> QED BY <3>1, <3>4, <3>5
  <2>3. \A k \in 1 .. Len(text) + 3 :
          /\ k \in {1, 11, 12} => at[k] = at[k - 1]
          /\ k \in 2 .. 10 => at[k] = at[k - 1] + 1 /\ at[k] = k - 1
          /\ k >= 13 => at[k] = at[k - 1] + 1 /\ at[k] = k - 3
    BY <1>1
  <2> HIDE DEF at
  <2>4. \A i \in 1 .. Len(read) :
           \/ at[i] = at[i - 1] /\ read[i] \in Separator
           \/ /\ at[i] = at[i - 1] + 1
              /\ read[i] \in Separator <=> text[at[i]] \in Separator
              /\ Folded(read[i]) = Folded(text[at[i]])
    BY <2>1, <2>3
  <2>5. Len(read) \in Nat
    BY <1>1, <2>1
  <2>6. normalizeSymbols(read) = normalizeSymbols(text)
    BY <1>1, <2>1, <2>2, <2>4, <2>5, Alike
  <2> QED BY <1>1, <2>1, <2>5, <2>6 DEF read
<1>5. CASE manner = "spaced"
  <2>1. read = Grouped("space", text) /\ "space" \in Separator
    BY <1>5 DEF Written, Separator
  <2> HIDE DEF read
  <2>2. /\ normalizeSymbols(read) = normalizeSymbols(text)
        /\ Len(read) \in Nat /\ Len(read) <= Len(text) + 3
        /\ DOMAIN read = 1 .. Len(read) /\ \E A : read \in Seq(A)
    BY <1>4, <2>1
  <2> QED BY <2>2 DEF read
<1>6. CASE manner = "hyphenated"
  <2>1. read = Grouped("-", text) /\ "-" \in Separator
    BY <1>6 DEF Written, Separator
  <2> HIDE DEF read
  <2>2. /\ normalizeSymbols(read) = normalizeSymbols(text)
        /\ Len(read) \in Nat /\ Len(read) <= Len(text) + 3
        /\ DOMAIN read = 1 .. Len(read) /\ \E A : read \in Seq(A)
    BY <1>4, <2>1
  <2> QED BY <2>2 DEF read
<1> QED BY <1>2, <1>3, <1>5, <1>6 DEF Manner

-----------------------------------------------------------------------------
(* A code, and what is read of a text *)

\* What a code's characters are.
LEMMA FormatIs ==
  ASSUME NEW v \in Value
  PROVE  LET code == format(v)
         IN /\ code \in Seq(Typeable) /\ Len(code) = BodyLength + 5
            /\ code[1] = "T" /\ code[2] = "P" /\ code[3] = "1" /\ code[4] = "-"
            /\ \A i \in 1 .. BodyLength : code[4 + i] = CHECK_ALPHABET[v[i] + 1]
            /\ code[BodyLength + 5] = checkSymbol(v)
<1> DEFINE first == <<"T", "P", "1", "-">>
           body == encodeSymbols(v)
           last == <<checkSymbol(v)>>
           a == first \o body
           code == a \o last
<1>1. BodyLength \in Nat
  BY PagesAssumption
<1>2. format(v) = code
  BY DEF format
<1>3. "T" \in Typeable /\ "P" \in Typeable /\ "1" \in Typeable /\ "-" \in Typeable
  BY CheckAlphabet, CheckSymbolsStay DEF Typeable, Separator
<1>4. /\ first \in Seq(Typeable) /\ Len(first) = 4
      /\ first[1] = "T" /\ first[2] = "P" /\ first[3] = "1" /\ first[4] = "-"
  BY <1>3
<1>5. \A i \in 1 .. BodyLength : /\ ALPHABET[v[i] + 1] = CHECK_ALPHABET[v[i] + 1]
                                 /\ CHECK_ALPHABET[v[i] + 1] \in Typeable
  BY RemainderIs, Alphabet, CheckSymbolsStay
<1>6. /\ body \in Seq(Typeable) /\ Len(body) = BodyLength
      /\ \A i \in 1 .. BodyLength : body[i] = CHECK_ALPHABET[v[i] + 1]
  <2>1. body = [i \in 1 .. BodyLength |-> ALPHABET[v[i] + 1]]
    BY DEF encodeSymbols
  <2> HIDE DEF body
  <2> QED BY <1>1, <1>5, <2>1
<1>7. last \in Seq(Typeable) /\ Len(last) = 1 /\ last[1] = checkSymbol(v)
  <2>1. checkSymbol(v) \in Typeable
    BY CheckSymbolIs, CheckSymbolsStay
  <2> QED BY <2>1
<1> HIDE DEF first, body, last
<1>8. a \in Seq(Typeable) /\ Joins(a, first, body)
  BY <1>4, <1>6, Joined, Zenon
<1> HIDE DEF a
<1>9. code \in Seq(Typeable) /\ Joins(code, a, last)
  BY <1>7, <1>8, Joined, Zenon
<1> HIDE DEF code
<1>10. /\ Len(a) = BodyLength + 4
       /\ a[1] = "T" /\ a[2] = "P" /\ a[3] = "1" /\ a[4] = "-"
       /\ \A i \in 1 .. BodyLength : a[4 + i] = CHECK_ALPHABET[v[i] + 1]
  BY <1>1, <1>4, <1>6, <1>8 DEF Joins
<1>11. /\ Len(code) = BodyLength + 5
       /\ \A i \in 1 .. BodyLength + 4 : code[i] = a[i]
       /\ code[BodyLength + 5] = checkSymbol(v)
  <2>1. (BodyLength + 4) + 1 = BodyLength + 5 /\ 1 \in 1 .. 1
    BY <1>1
  <2> QED BY <1>1, <1>7, <1>9, <1>10, <2>1 DEF Joins
<1>12. \A i \in 1 .. BodyLength : 4 + i \in 1 .. BodyLength + 4
  BY <1>1
<1>13. \A i \in 1 .. 4 : i \in 1 .. BodyLength + 4
  BY <1>1
<1> QED BY <1>2, <1>9, <1>10, <1>11, <1>12, <1>13

\* Every character but the hyphen is a check symbol.
LEMMA FormatStays ==
  ASSUME NEW v \in Value
  PROVE  /\ format(v)[4] \in Separator
         /\ \A k \in 1 .. BodyLength + 5 : k # 4 =>
              /\ format(v)[k] \notin Separator /\ Folded(format(v)[k]) = format(v)[k]
              /\ \E r \in 1 .. 37 : format(v)[k] = CHECK_ALPHABET[r]
<1>1. BodyLength \in Nat
  BY PagesAssumption
<1>2. format(v)[4] \in Separator
  BY FormatIs DEF Separator
<1>3. ASSUME NEW k \in 1 .. BodyLength + 5, k # 4
      PROVE  \E r \in 1 .. 37 : format(v)[k] = CHECK_ALPHABET[r]
  <2>1. CASE k \in 1 .. 3
    <3>1. k = 1 \/ k = 2 \/ k = 3
      BY <2>1
    <3>2. /\ format(v)[1] = CHECK_ALPHABET[27] /\ format(v)[2] = CHECK_ALPHABET[23]
          /\ format(v)[3] = CHECK_ALPHABET[2]
      BY FormatIs, CheckAlphabet
    <3>3. 27 \in 1 .. 37 /\ 23 \in 1 .. 37 /\ 2 \in 1 .. 37
      OBVIOUS
    <3> QED BY <3>1, <3>2, <3>3
  <2>2. CASE k \in 5 .. BodyLength + 4
    <3>1. k - 4 \in 1 .. BodyLength /\ 4 + (k - 4) = k
      BY <1>1, <2>2
    <3>2. format(v)[k] = CHECK_ALPHABET[v[k - 4] + 1]
      BY <3>1, FormatIs
    <3>3. v[k - 4] + 1 \in 1 .. 37
      BY <3>1, RemainderIs, Alphabet
    <3> QED BY <3>2, <3>3
  <2>3. CASE k = BodyLength + 5
    BY <2>3, FormatIs, CheckSymbolIs
  <2> QED BY <1>1, <1>3, <2>1, <2>2, <2>3
<1> QED BY <1>2, <1>3, CheckSymbolsStay

\* The symbols of a code, and of what is taken for one.
Reads(s, w) ==
  /\ w \in Value /\ Len(s) = BodyLength + 4
  /\ s[1] = "T" /\ s[2] = "P" /\ s[3] = "1"
  /\ \A i \in 1 .. BodyLength : s[3 + i] \in Symbol /\ w[i] = IndexOf[s[3 + i]]
  /\ s[BodyLength + 4] = checkSymbol(w)

\* What a text's symbols decode to.
LEMMA BodyIs ==
  ASSUME NEW A, NEW s \in Seq(A), Len(s) = BodyLength + 4
  PROVE  LET body == SubSeq(s, 4, 3 + BodyLength)
         IN /\ DOMAIN body = 1 .. BodyLength
            /\ \A i \in 1 .. BodyLength : body[i] = s[3 + i]
            /\ decodeSymbols(body) = [i \in 1 .. BodyLength |-> IndexOf[s[3 + i]]]
            /\ SubSeq(s, 1, 2) = <<"T", "P">> <=> s[1] = "T" /\ s[2] = "P"
<1>1. BodyLength \in Nat /\ BodyLength >= 5
  BY PagesAssumption
<1> DEFINE body == SubSeq(s, 4, 3 + BodyLength)
<1>2. /\ body \in Seq(A) /\ Len(body) = BodyLength
      /\ \A i \in 1 .. BodyLength : body[i] = s[3 + i]
  <2>1. 4 \in Nat \ {0} /\ 3 + BodyLength \in Nat /\ 4 <= (3 + BodyLength) + 1
        /\ 3 + BodyLength <= Len(s)
    BY <1>1
  <2>2. body = SubSeq(s, 4, 3 + BodyLength)
    OBVIOUS
  <2> HIDE DEF body
  <2>3. /\ body \in Seq(A) /\ Len(body) = ((3 + BodyLength) - 4) + 1
        /\ \A k \in 1 .. ((3 + BodyLength) - 4) + 1 : body[k] = s[(4 - 1) + k]
    BY <2>1, <2>2, Part
  <2>4. ((3 + BodyLength) - 4) + 1 = BodyLength /\ \A k \in 1 .. BodyLength : (4 - 1) + k = 3 + k
    BY <1>1
  <2> QED BY <2>3, <2>4
<1> DEFINE two == SubSeq(s, 1, 2)
<1>3. /\ two \in Seq(A) /\ Len(two) = 2 /\ two[1] = s[1] /\ two[2] = s[2]
  <2>1. 1 \in Nat \ {0} /\ 2 \in Nat /\ 1 <= 2 + 1 /\ 2 <= Len(s)
    BY <1>1
  <2>2. two = SubSeq(s, 1, 2)
    OBVIOUS
  <2> HIDE DEF two
  <2>3. /\ two \in Seq(A) /\ Len(two) = (2 - 1) + 1
        /\ \A k \in 1 .. (2 - 1) + 1 : two[k] = s[(1 - 1) + k]
    BY <2>1, <2>2, Part
  <2>4. 1 \in 1 .. (2 - 1) + 1 /\ 2 \in 1 .. (2 - 1) + 1 /\ (1 - 1) + 1 = 1 /\ (1 - 1) + 2 = 2
    OBVIOUS
  <2> QED BY <2>3, <2>4
<1> HIDE DEF body, two
<1>4. two = <<"T", "P">> <=> s[1] = "T" /\ s[2] = "P"
  <2>1. two = <<two[1], two[2]>>
    BY <1>3
  <2> QED BY <1>3, <2>1
<1>5. decodeSymbols(body) = [i \in 1 .. BodyLength |-> IndexOf[s[3 + i]]]
  BY <1>2 DEF decodeSymbols
<1>6. DOMAIN body = 1 .. BodyLength
  BY <1>2
<1> QED BY <1>2, <1>4, <1>5, <1>6 DEF body, two

\* What is taken for a code reads like one.
LEMMA ParsedReads ==
  ASSUME NEW text, NEW A, normalizeSymbols(text) \in Seq(A), parseTrustPassId(text).ok
  PROVE  Reads(normalizeSymbols(text), parseTrustPassId(text).id)
<1> DEFINE s == normalizeSymbols(text)
           body == SubSeq(s, 4, 3 + BodyLength)
           p == parseTrustPassId(text)
<1>1. \A e : ~Refused(e).ok
  BY DEF Refused
<1>2. /\ Len(s) = BodyLength + 4 /\ SubSeq(s, 1, 2) = <<"T", "P">> /\ s[3] = "1"
      /\ \A i \in DOMAIN body : body[i] \in Symbol
      /\ s[BodyLength + 4] = checkSymbol(decodeSymbols(body))
      /\ p = [ok |-> TRUE, id |-> decodeSymbols(body)]
  <2> HIDE DEF s, body
  <2> DEFINE empty == \A i \in DOMAIN text : text[i] = "space"
             d == decodeSymbols(body)
             known == \A i \in DOMAIN body : body[i] \in Symbol
             two == SubSeq(s, 1, 2)
             check == checkSymbol(d)
  <2>1. p = IF empty THEN Refused("empty")
            ELSE IF Len(s) # BodyLength + 4 THEN Refused("invalid_length")
            ELSE IF two # <<"T", "P">> THEN Refused("invalid_prefix")
            ELSE IF s[3] # "1" THEN Refused("unsupported_version")
            ELSE IF ~known THEN Refused("invalid_symbol")
            ELSE IF s[BodyLength + 4] # check THEN Refused("checksum_mismatch")
            ELSE [ok |-> TRUE, id |-> d]
    BY DEF parseTrustPassId, s, body
  <2>2. p.ok
    OBVIOUS
  <2> HIDE DEF p, empty, d, known, two, check
  <2>3. /\ Len(s) = BodyLength + 4 /\ two = <<"T", "P">> /\ s[3] = "1" /\ known
        /\ s[BodyLength + 4] = check /\ p = [ok |-> TRUE, id |-> d]
    BY <1>1, <2>1, <2>2
  <2> QED BY <2>3 DEF d, known, two, check
<1> HIDE DEF s, p
<1>3. /\ DOMAIN body = 1 .. BodyLength
      /\ \A i \in 1 .. BodyLength : body[i] = s[3 + i]
      /\ decodeSymbols(body) = [i \in 1 .. BodyLength |-> IndexOf[s[3 + i]]]
      /\ s[1] = "T" /\ s[2] = "P"
  <2>1. s \in Seq(A)
    BY DEF s
  <2> QED BY <1>2, <2>1, BodyIs
<1> HIDE DEF body
<1>4. p.id = decodeSymbols(body)
  BY <1>2
<1>5. \A i \in 1 .. BodyLength : s[3 + i] \in Symbol
  BY <1>2, <1>3
<1>6. p.id \in Value /\ \A i \in 1 .. BodyLength : p.id[i] = IndexOf[s[3 + i]]
  BY <1>3, <1>4, <1>5, DigitOfSymbol DEF Value
<1> QED BY <1>2, <1>3, <1>4, <1>5, <1>6 DEF Reads, s, p

\* And what reads like one, is.
LEMMA ReadsParsed ==
  ASSUME NEW text, NEW A, normalizeSymbols(text) \in Seq(A), Len(text) \in Nat,
         DOMAIN text = 1 .. Len(text), NEW w, Reads(normalizeSymbols(text), w)
  PROVE  parseTrustPassId(text) = [ok |-> TRUE, id |-> w]
<1> DEFINE s == normalizeSymbols(text)
           body == SubSeq(s, 4, 3 + BodyLength)
           p == parseTrustPassId(text)
<1>1. /\ Len(s) = BodyLength + 4 /\ s[1] = "T" /\ s[2] = "P" /\ s[3] = "1" /\ w \in Value
      /\ \A i \in 1 .. BodyLength : s[3 + i] \in Symbol /\ w[i] = IndexOf[s[3 + i]]
      /\ s[BodyLength + 4] = checkSymbol(w)
  BY DEF Reads
<1>2. /\ DOMAIN body = 1 .. BodyLength
      /\ \A i \in 1 .. BodyLength : body[i] = s[3 + i]
      /\ decodeSymbols(body) = [i \in 1 .. BodyLength |-> IndexOf[s[3 + i]]]
      /\ SubSeq(s, 1, 2) = <<"T", "P">>
  BY <1>1, BodyIs
<1>3. ~ \A i \in DOMAIN text : text[i] = "space"
  <2> SUFFICES ASSUME \A i \in 1 .. Len(text) : text[i] \in Separator PROVE FALSE
    BY DEF Separator
  <2> DEFINE c == [i \in 0 .. Len(text) |-> 0]
  <2>1. /\ c \in [0 .. Len(text) -> Nat] /\ c[0] = 0 /\ c[Len(text)] = 0
        /\ \A i \in 1 .. Len(text) : c[i] = c[i - 1]
    OBVIOUS
  <2> HIDE DEF c
  <2>2. Len(normalizeSymbols(text)) = c[Len(text)]
    BY <2>1, Counted
  <2>3. BodyLength + 4 # 0
    BY PagesAssumption
  <2>4. Len(s) = 0
    BY <2>1, <2>2
  <2> QED BY <1>1, <2>3, <2>4
<1>4. decodeSymbols(body) = w
  <2>1. w = [i \in 1 .. BodyLength |-> w[i]]
    BY <1>1 DEF Value
  <2> QED BY <1>1, <1>2, <2>1
<1>5. \A i \in DOMAIN body : body[i] \in Symbol
  BY <1>1, <1>2
<1>6. p = [ok |-> TRUE, id |-> w]
  <2> HIDE DEF s, body
  <2> DEFINE empty == \A i \in DOMAIN text : text[i] = "space"
             d == decodeSymbols(body)
             known == \A i \in DOMAIN body : body[i] \in Symbol
             two == SubSeq(s, 1, 2)
             check == checkSymbol(d)
  <2>1. p = IF empty THEN Refused("empty")
            ELSE IF Len(s) # BodyLength + 4 THEN Refused("invalid_length")
            ELSE IF two # <<"T", "P">> THEN Refused("invalid_prefix")
            ELSE IF s[3] # "1" THEN Refused("unsupported_version")
            ELSE IF ~known THEN Refused("invalid_symbol")
            ELSE IF s[BodyLength + 4] # check THEN Refused("checksum_mismatch")
            ELSE [ok |-> TRUE, id |-> d]
    BY DEF parseTrustPassId, s, body
  <2>2. /\ ~empty /\ Len(s) = BodyLength + 4 /\ two = <<"T", "P">> /\ s[3] = "1" /\ known
        /\ s[BodyLength + 4] = check /\ d = w
    BY <1>1, <1>2, <1>3, <1>4, <1>5
  <2> HIDE DEF p, empty, d, known, two, check
  <2> QED BY <2>1, <2>2
<1> QED BY <1>6

-----------------------------------------------------------------------------
(* One slip *)

\* The symbols of a text that has its one separator where a code has it.
Aligned(s, code) ==
  /\ Len(s) = BodyLength + 4
  /\ \A k \in 1 .. 3 : s[k] = Folded(code[k])
  /\ \A k \in 5 .. BodyLength + 5 : s[k - 1] = Folded(code[k])

\* A text of the length of a code, with one separator, in its place.
LEMMA OneInPlace ==
  ASSUME NEW text, Len(text) = BodyLength + 5,
         \A k \in 1 .. BodyLength + 5 : text[k] \in Separator <=> k = 4
  PROVE  Aligned(normalizeSymbols(text), text)
<1> DEFINE s == normalizeSymbols(text)
<1>1. BodyLength \in Nat /\ BodyLength + 5 \in Nat /\ 4 \in 1 .. BodyLength + 5
      /\ (BodyLength + 5) - 1 = BodyLength + 4
  BY PagesAssumption
<1>2. /\ Len(s) = BodyLength + 4
      /\ \A k \in 1 .. BodyLength + 5 : /\ k < 4 => s[k] = Folded(text[k])
                                        /\ k > 4 => s[k - 1] = Folded(text[k])
  <2>1. /\ Len(text) \in Nat /\ 4 \in 1 .. Len(text)
        /\ \A k \in 1 .. Len(text) : text[k] \in Separator <=> k = 4
    BY <1>1
  <2>2. /\ Len(s) = Len(text) - 1
        /\ \A k \in 1 .. Len(text) : /\ k < 4 => s[k] = Folded(text[k])
                                     /\ k > 4 => s[k - 1] = Folded(text[k])
    BY ONLY <2>1, OneSeparator
  <2> QED BY <1>1, <2>2
<1> HIDE DEF s
<1>3. Aligned(s, text)
  BY <1>1, <1>2 DEF Aligned
<1> QED BY <1>3 DEF s

\* A code's own symbols.
LEMMA FormatAligned ==
  ASSUME NEW v \in Value
  PROVE  Aligned(normalizeSymbols(format(v)), format(v))
<1>1. Len(format(v)) = BodyLength + 5
  BY FormatIs
<1>2. \A k \in 1 .. BodyLength + 5 : format(v)[k] \in Separator <=> k = 4
  BY FormatStays
<1> QED BY <1>1, <1>2, OneInPlace

\* A code in which another character stands at i: it is refused for its length, or its
\* symbols are in place.
LEMMA Replaced ==
  ASSUME NEW v \in Value, NEW i \in 1 .. BodyLength + 5, NEW ch \in Typeable,
         Len(normalizeSymbols([format(v) EXCEPT ![i] = ch])) = BodyLength + 4
  PROVE  \/ Aligned(normalizeSymbols([format(v) EXCEPT ![i] = ch]), format(v))
         \/ i # 4 /\ Aligned(normalizeSymbols([format(v) EXCEPT ![i] = ch]),
                             [format(v) EXCEPT ![i] = ch])
<1> DEFINE code == format(v)
           text == [code EXCEPT ![i] = ch]
<1>1. /\ code \in Seq(Typeable) /\ Len(code) = BodyLength + 5 /\ code[4] \in Separator
      /\ \A k \in 1 .. BodyLength + 5 : k # 4 => code[k] \notin Separator
      /\ BodyLength \in Nat /\ BodyLength >= 5
  BY FormatIs, FormatStays, PagesAssumption
<1> HIDE DEF code
<1>2. /\ Len(text) = BodyLength + 5 /\ text[i] = ch
      /\ \A k \in 1 .. BodyLength + 5 : k # i => text[k] = code[k]
  BY <1>1, ExceptSeq
<1>3. Len(normalizeSymbols(text)) = BodyLength + 4
  BY DEF code
<1> HIDE DEF text
<1>4. CASE i = 4
  <2>1. ch \in Separator
    <3> SUFFICES ASSUME ch \notin Separator PROVE FALSE
      OBVIOUS
    <3>1. \A k \in 1 .. BodyLength + 5 : text[k] \notin Separator
      BY <1>1, <1>2, <1>4
    <3>2. Len(normalizeSymbols(text)) = BodyLength + 5
      BY <1>1, <1>2, <3>1, NoSeparator
    <3> QED BY <1>1, <1>3, <3>2
  <2>2. \A k \in 1 .. BodyLength + 5 : text[k] \in Separator <=> k = 4
    BY <1>1, <1>2, <1>4, <2>1
  <2>3. Aligned(normalizeSymbols(text), text)
    BY <1>2, <2>2, OneInPlace
  <2>4. Aligned(normalizeSymbols(text), code)
    BY <1>1, <1>2, <1>4, <2>3 DEF Aligned
  <2> QED BY <2>4 DEF text, code
<1>5. CASE i # 4
  <2>1. ch \notin Separator
    <3> SUFFICES ASSUME ch \in Separator PROVE FALSE
      OBVIOUS
    <3>1. \A k \in 1 .. BodyLength + 5 : text[k] \in Separator <=> (k = 4 \/ k = i)
      BY <1>1, <1>2, <1>5
    <3>2. (i < 4 \/ 4 < i) /\ 4 \in 1 .. BodyLength + 5
      BY <1>1, <1>5
    <3>3. Len(normalizeSymbols(text)) = (BodyLength + 5) - 2
      <4>1. CASE i < 4
        <5>1. /\ Len(text) \in Nat /\ i \in 1 .. Len(text) /\ 4 \in 1 .. Len(text) /\ i < 4
              /\ \A k \in 1 .. Len(text) : text[k] \in Separator <=> (k = i \/ k = 4)
          BY <1>1, <1>2, <3>1, <3>2, <4>1
        <5>2. Len(normalizeSymbols(text)) = Len(text) - 2
          BY ONLY <5>1, TwoSeparators
        <5> QED BY <1>2, <5>2
      <4>2. CASE 4 < i
        <5>1. /\ Len(text) \in Nat /\ 4 \in 1 .. Len(text) /\ i \in 1 .. Len(text) /\ 4 < i
              /\ \A k \in 1 .. Len(text) : text[k] \in Separator <=> (k = 4 \/ k = i)
          BY <1>1, <1>2, <3>1, <3>2, <4>2
        <5>2. Len(normalizeSymbols(text)) = Len(text) - 2
          BY ONLY <5>1, TwoSeparators
        <5> QED BY <1>2, <5>2
      <4> QED BY <3>2, <4>1, <4>2
    <3> QED BY <1>1, <1>3, <3>3
  <2>2. \A k \in 1 .. BodyLength + 5 : text[k] \in Separator <=> k = 4
    BY <1>1, <1>2, <1>5, <2>1
  <2>3. Aligned(normalizeSymbols(text), text)
    BY <1>2, <2>2, OneInPlace
  <2> QED BY <1>5, <2>3 DEF text, code
<1> QED BY <1>4, <1>5

\* What is left out, or typed twice.
LEMMA RemovedIs ==
  ASSUME NEW A, NEW t \in Seq(A), NEW i \in 1 .. Len(t)
  PROVE  LET u == RemoveAt(t, i)
         IN /\ u \in Seq(A) /\ Len(u) = Len(t) - 1
            /\ \A k \in 1 .. Len(t) - 1 : u[k] = IF k < i THEN t[k] ELSE t[k + 1]
<1> DEFINE n == Len(t)
           a == SubSeq(t, 1, i - 1)
           b == SubSeq(t, i + 1, n)
           u == a \o b
<1>1. n \in Nat /\ i \in 1 .. n /\ i - 1 \in Nat
  OBVIOUS
<1>2. /\ a \in Seq(A) /\ Len(a) = i - 1 /\ \A k \in 1 .. i - 1 : a[k] = t[k]
  <2>1. 1 \in Nat \ {0} /\ i - 1 \in Nat /\ 1 <= (i - 1) + 1 /\ i - 1 <= Len(t)
    BY <1>1
  <2>2. a = SubSeq(t, 1, i - 1)
    OBVIOUS
  <2> HIDE DEF a
  <2>3. /\ a \in Seq(A) /\ Len(a) = ((i - 1) - 1) + 1
        /\ \A k \in 1 .. ((i - 1) - 1) + 1 : a[k] = t[(1 - 1) + k]
    BY <2>1, <2>2, Part
  <2>4. ((i - 1) - 1) + 1 = i - 1 /\ \A k \in 1 .. i - 1 : (1 - 1) + k = k
    BY <1>1
  <2> QED BY <2>3, <2>4
<1>3. /\ b \in Seq(A) /\ Len(b) = n - i /\ \A k \in 1 .. n - i : b[k] = t[i + k]
  <2>1. i + 1 \in Nat \ {0} /\ n \in Nat /\ i + 1 <= n + 1 /\ n <= Len(t)
    BY <1>1
  <2>2. b = SubSeq(t, i + 1, n)
    OBVIOUS
  <2> HIDE DEF b, n
  <2>3. /\ b \in Seq(A) /\ Len(b) = (n - (i + 1)) + 1
        /\ \A k \in 1 .. (n - (i + 1)) + 1 : b[k] = t[((i + 1) - 1) + k]
    BY <2>1, <2>2, Part
  <2>4. (n - (i + 1)) + 1 = n - i /\ \A k \in 1 .. n - i : ((i + 1) - 1) + k = i + k
    BY <1>1
  <2> QED BY <2>3, <2>4
<1>4. RemoveAt(t, i) = u
  BY DEF RemoveAt
<1> HIDE DEF a, b, n
<1>5. u \in Seq(A) /\ Joins(u, a, b)
  BY <1>2, <1>3, Joined, Zenon
<1> HIDE DEF u
<1>6. Len(u) = n - 1
  BY <1>1, <1>2, <1>3, <1>5 DEF Joins
<1>7. ASSUME NEW k \in 1 .. n - 1
      PROVE  u[k] = IF k < i THEN t[k] ELSE t[k + 1]
  <2>1. CASE k < i
    <3>1. k \in 1 .. i - 1
      BY <1>1, <2>1
    <3> QED BY <1>2, <1>5, <2>1, <3>1 DEF Joins
  <2>2. CASE ~(k < i)
    <3>1. k - (i - 1) \in 1 .. n - i /\ (i - 1) + (k - (i - 1)) = k /\ i + (k - (i - 1)) = k + 1
      BY <1>1, <2>2
    <3> QED BY <1>2, <1>3, <1>5, <2>2, <3>1 DEF Joins
  <2> QED BY <2>1, <2>2
<1> QED BY <1>4, <1>5, <1>6, <1>7 DEF n

\* What is typed twice.
LEMMA DoubledIs ==
  ASSUME NEW A, NEW t \in Seq(A), NEW i \in 1 .. Len(t)
  PROVE  LET u == InsertAt(t, i, t[i])
         IN /\ u \in Seq(A) /\ Len(u) = Len(t) + 1
            /\ \A k \in 1 .. Len(t) + 1 : u[k] = IF k <= i THEN t[k] ELSE t[k - 1]
<1> DEFINE n == Len(t)
           a == SubSeq(t, 1, i - 1)
           e == <<t[i]>>
           b == SubSeq(t, i, n)
           h == a \o e
           u == h \o b
<1>1. n \in Nat /\ i \in 1 .. n /\ i - 1 \in Nat /\ t[i] \in A
  OBVIOUS
<1>2. /\ a \in Seq(A) /\ Len(a) = i - 1 /\ \A k \in 1 .. i - 1 : a[k] = t[k]
  <2>1. 1 \in Nat \ {0} /\ i - 1 \in Nat /\ 1 <= (i - 1) + 1 /\ i - 1 <= Len(t)
    BY <1>1
  <2>2. a = SubSeq(t, 1, i - 1)
    OBVIOUS
  <2> HIDE DEF a
  <2>3. /\ a \in Seq(A) /\ Len(a) = ((i - 1) - 1) + 1
        /\ \A k \in 1 .. ((i - 1) - 1) + 1 : a[k] = t[(1 - 1) + k]
    BY <2>1, <2>2, Part
  <2>4. ((i - 1) - 1) + 1 = i - 1 /\ \A k \in 1 .. i - 1 : (1 - 1) + k = k
    BY <1>1
  <2> QED BY <2>3, <2>4
<1>3. /\ b \in Seq(A) /\ Len(b) = (n - i) + 1 /\ \A k \in 1 .. (n - i) + 1 : b[k] = t[(i - 1) + k]
  <2>1. i \in Nat \ {0} /\ n \in Nat /\ i <= n + 1 /\ n <= Len(t)
    BY <1>1
  <2>2. b = SubSeq(t, i, n)
    OBVIOUS
  <2> HIDE DEF b, n
  <2> QED BY <2>1, <2>2, Part
<1>4. e \in Seq(A) /\ Len(e) = 1 /\ e[1] = t[i]
  BY <1>1
<1>5. InsertAt(t, i, t[i]) = u
  BY DEF InsertAt
<1> HIDE DEF a, b, n, e
<1>6. h \in Seq(A) /\ Joins(h, a, e)
  BY <1>2, <1>4, Joined, Zenon
<1> HIDE DEF h
<1>7. u \in Seq(A) /\ Joins(u, h, b)
  BY <1>3, <1>6, Joined, Zenon
<1> HIDE DEF u
<1>8. Len(h) = i /\ \A k \in 1 .. i : h[k] = t[k]
  <2>1. (i - 1) + 1 = i /\ 1 \in 1 .. 1 /\ \A k \in 1 .. i : k = i \/ k \in 1 .. i - 1
    BY <1>1
  <2> QED BY <1>2, <1>4, <1>6, <2>1 DEF Joins
<1>9. Len(u) = n + 1
  BY <1>1, <1>3, <1>7, <1>8 DEF Joins
<1>10. ASSUME NEW k \in 1 .. n + 1
       PROVE  u[k] = IF k <= i THEN t[k] ELSE t[k - 1]
  <2>1. CASE k <= i
    <3>1. k \in 1 .. i
      BY <1>1, <2>1
    <3> QED BY <1>7, <1>8, <2>1, <3>1 DEF Joins
  <2>2. CASE ~(k <= i)
    <3>1. k - i \in 1 .. (n - i) + 1 /\ i + (k - i) = k /\ (i - 1) + (k - i) = k - 1
      BY <1>1, <2>2
    <3> QED BY <1>3, <1>7, <1>8, <2>2, <3>1 DEF Joins
  <2> QED BY <2>1, <2>2
<1> QED BY <1>5, <1>7, <1>9, <1>10 DEF n

\* A code without one of its characters is too short, unless it is the hyphen.
LEMMA Removed ==
  ASSUME NEW v \in Value, NEW i \in 1 .. BodyLength + 5,
         Len(normalizeSymbols(RemoveAt(format(v), i))) = BodyLength + 4
  PROVE  Aligned(normalizeSymbols(RemoveAt(format(v), i)), format(v))
<1> DEFINE code == format(v)
           text == RemoveAt(code, i)
           s == normalizeSymbols(text)
           n == BodyLength + 5
<1>1. /\ code \in Seq(Typeable) /\ Len(code) = n /\ code[4] \in Separator
      /\ \A k \in 1 .. n : k # 4 => code[k] \notin Separator
      /\ n \in Nat /\ n >= 10 /\ BodyLength \in Nat
  BY FormatIs, FormatStays, PagesAssumption
<1> HIDE DEF code
<1>2. /\ Len(text) = n - 1
      /\ \A k \in 1 .. n - 1 : text[k] = IF k < i THEN code[k] ELSE code[k + 1]
  <2>1. Len(code) = n /\ i \in 1 .. Len(code)
    BY <1>1
  <2>2. /\ Len(text) = Len(code) - 1
        /\ \A k \in 1 .. Len(code) - 1 : text[k] = IF k < i THEN code[k] ELSE code[k + 1]
    BY <1>1, <2>1, RemovedIs
  <2> HIDE DEF text, n
  <2> QED BY <2>1, <2>2
<1>3. Len(s) = BodyLength + 4 /\ n - 1 = BodyLength + 4 /\ i \in 1 .. n
  BY <1>1 DEF code
<1> HIDE DEF text
<1>4. i = 4
  <2> SUFFICES ASSUME i # 4 PROVE FALSE
    OBVIOUS
  <2> DEFINE p == IF i < 4 THEN 3 ELSE 4
  <2>1. p \in 1 .. Len(text) /\ Len(text) \in Nat
    BY <1>1, <1>2
  <2>2. \A k \in 1 .. n - 1 : text[k] \in Separator <=> k = p
    BY <1>1, <1>2, <1>3
  <2> HIDE DEF p
  <2>3. Len(s) = Len(text) - 1
    BY <1>2, <2>1, <2>2, OneSeparator
  <2> QED BY <1>1, <1>2, <1>3, <2>3
<1>5. \A k \in 1 .. Len(text) : text[k] \notin Separator
  BY <1>1, <1>2, <1>4
<1>6. \A k \in 1 .. n - 1 : s[k] = Folded(text[k])
  BY <1>1, <1>2, <1>5, NoSeparator
<1> HIDE DEF s
<1>7. Aligned(s, code)
  <2>1. ASSUME NEW k \in 1 .. 3 PROVE s[k] = Folded(code[k])
    BY <1>1, <1>2, <1>4, <1>6
  <2>2. ASSUME NEW k \in 5 .. n PROVE s[k - 1] = Folded(code[k])
    <3>1. k - 1 \in 1 .. n - 1 /\ ~(k - 1 < 4) /\ (k - 1) + 1 = k
      BY <1>1
    <3> QED BY <1>2, <1>4, <1>6, <3>1
  <2> QED BY <1>3, <2>1, <2>2 DEF Aligned
<1> QED BY <1>7 DEF s, text, code

\* With one of its characters twice it is too long, unless it is the hyphen.
LEMMA Doubled ==
  ASSUME NEW v \in Value, NEW i \in 1 .. BodyLength + 5,
         Len(normalizeSymbols(InsertAt(format(v), i, format(v)[i]))) = BodyLength + 4
  PROVE  Aligned(normalizeSymbols(InsertAt(format(v), i, format(v)[i])), format(v))
<1> DEFINE code == format(v)
           text == InsertAt(code, i, code[i])
           s == normalizeSymbols(text)
           n == BodyLength + 5
<1>1. /\ code \in Seq(Typeable) /\ Len(code) = n /\ code[4] \in Separator
      /\ \A k \in 1 .. n : k # 4 => code[k] \notin Separator
      /\ n \in Nat /\ n >= 10 /\ BodyLength \in Nat
  BY FormatIs, FormatStays, PagesAssumption
<1> HIDE DEF code
<1>2. /\ Len(text) = n + 1
      /\ \A k \in 1 .. n + 1 : text[k] = IF k <= i THEN code[k] ELSE code[k - 1]
  <2>1. Len(code) = n /\ i \in 1 .. Len(code)
    BY <1>1
  <2>2. /\ Len(text) = Len(code) + 1
        /\ \A k \in 1 .. Len(code) + 1 : text[k] = IF k <= i THEN code[k] ELSE code[k - 1]
    BY <1>1, <2>1, DoubledIs
  <2> HIDE DEF text, n
  <2> QED BY <2>1, <2>2
<1>3. Len(s) = BodyLength + 4 /\ n - 1 = BodyLength + 4 /\ i \in 1 .. n
  BY <1>1 DEF code
<1> HIDE DEF text
<1>4. i = 4
  <2> SUFFICES ASSUME i # 4 PROVE FALSE
    OBVIOUS
  <2> DEFINE p == IF i < 4 THEN 5 ELSE 4
  <2>1. p \in 1 .. Len(text) /\ Len(text) \in Nat
    BY <1>1, <1>2
  <2>2. \A k \in 1 .. n + 1 : text[k] \in Separator <=> k = p
    BY <1>1, <1>2, <1>3
  <2> HIDE DEF p
  <2>3. Len(s) = Len(text) - 1
    BY <1>2, <2>1, <2>2, OneSeparator
  <2> QED BY <1>1, <1>2, <1>3, <2>3
<1>5. \A k \in 1 .. Len(text) : text[k] \in Separator <=> (k = 4 \/ k = 5)
  BY <1>1, <1>2, <1>4
<1>6. \A k \in 1 .. n + 1 : /\ k < 4 => s[k] = Folded(text[k])
                            /\ k > 5 => s[k - 2] = Folded(text[k])
  <2>1. 4 \in 1 .. Len(text) /\ 5 \in 1 .. Len(text) /\ 4 < 5 /\ Len(text) \in Nat
    BY <1>1, <1>2
  <2>2. \A k \in 1 .. Len(text) : /\ k < 4 => s[k] = Folded(text[k])
                                  /\ k > 5 => s[k - 2] = Folded(text[k])
    BY <1>5, <2>1, TwoSeparators
  <2> QED BY <1>2, <2>2
<1> HIDE DEF s
<1>7. Aligned(s, code)
  <2>1. ASSUME NEW k \in 1 .. 3 PROVE s[k] = Folded(code[k])
    <3>1. k \in 1 .. n + 1 /\ k < 4 /\ k <= 4
      BY <1>1
    <3> QED BY <1>2, <1>4, <1>6, <3>1
  <2>2. ASSUME NEW k \in 5 .. n PROVE s[k - 1] = Folded(code[k])
    <3>1. k + 1 \in 1 .. n + 1 /\ k + 1 > 5 /\ (k + 1) - 1 = k /\ (k + 1) - 2 = k - 1
          /\ ~(k + 1 <= 4)
      BY <1>1
    <3> QED BY <1>2, <1>4, <1>6, <3>1
  <2> QED BY <1>3, <2>1, <2>2 DEF Aligned
<1> QED BY <1>7 DEF s, text, code

\* Two characters have changed places.
Swapped(text, i, j) == [text EXCEPT ![i] = text[j], ![j] = text[i]]

\* When they are two of a code's, and neither is its hyphen, its symbols are in place.
LEMMA Exchanged ==
  ASSUME NEW v \in Value, NEW i \in 1 .. BodyLength + 5, NEW j \in 1 .. BodyLength + 5,
         i < j, i # 4, j # 4
  PROVE  LET text == Swapped(format(v), i, j)
         IN /\ text \in Seq(Typeable) /\ Len(text) = BodyLength + 5
            /\ text[i] = format(v)[j] /\ text[j] = format(v)[i]
            /\ \A k \in 1 .. BodyLength + 5 : k \notin {i, j} => text[k] = format(v)[k]
            /\ Aligned(normalizeSymbols(text), text)
<1> DEFINE code == format(v)
           n == BodyLength + 5
           half == [code EXCEPT ![i] = code[j]]
           text == [half EXCEPT ![j] = code[i]]
<1>1. /\ code \in Seq(Typeable) /\ Len(code) = n /\ code[4] \in Separator
      /\ \A k \in 1 .. n : k # 4 => code[k] \notin Separator
      /\ BodyLength \in Nat /\ n \in Nat /\ i \in 1 .. n /\ j \in 1 .. n
  BY FormatIs, FormatStays, PagesAssumption
<1>2. Swapped(format(v), i, j) = text
  BY DEF Swapped
<1> HIDE DEF code, n
<1>3. code[i] \in Typeable /\ code[j] \in Typeable /\ i \in 1 .. Len(code) /\ j \in 1 .. Len(code)
  BY <1>1
<1>4. /\ half \in Seq(Typeable) /\ Len(half) = Len(code) /\ half[i] = code[j]
      /\ \A k \in 1 .. Len(code) : k # i => half[k] = code[k]
  BY <1>1, <1>3, ExceptSeq
<1> HIDE DEF half
<1>5. /\ text \in Seq(Typeable) /\ Len(text) = Len(half) /\ text[j] = code[i]
      /\ \A k \in 1 .. Len(half) : k # j => text[k] = half[k]
  <2>1. j \in 1 .. Len(half)
    BY <1>3, <1>4
  <2> QED BY <1>3, <1>4, <2>1, ExceptSeq
<1> HIDE DEF text
<1>6. /\ Len(text) = n /\ text[i] = code[j] /\ text[j] = code[i]
      /\ \A k \in 1 .. n : k \notin {i, j} => text[k] = code[k]
  BY <1>1, <1>3, <1>4, <1>5
<1>7. \A k \in 1 .. n : text[k] \in Separator <=> k = 4
  <2> TAKE k \in 1 .. n
  <2>1. CASE k = i
    BY <1>1, <1>6, <2>1
  <2>2. CASE k = j
    BY <1>1, <1>6, <2>2
  <2>3. CASE k \notin {i, j}
    BY <1>1, <1>6, <2>3
  <2> QED BY <2>1, <2>2, <2>3
<1>8. Aligned(normalizeSymbols(text), text)
  BY <1>6, <1>7, OneInPlace DEF n
<1> QED BY <1>2, <1>5, <1>6, <1>8 DEF code, n

\* What is accepted of a text whose symbols are in place.
LEMMA AlignedReads ==
  ASSUME NEW s, NEW u, NEW w, Aligned(s, u), Reads(s, w)
  PROVE  /\ w \in Value
         /\ Folded(u[1]) = "T" /\ Folded(u[2]) = "P" /\ Folded(u[3]) = "1"
         /\ \A i \in 1 .. BodyLength :
              Folded(u[4 + i]) \in Symbol /\ w[i] = IndexOf[Folded(u[4 + i])]
         /\ Folded(u[BodyLength + 5]) = checkSymbol(w)
<1>1. BodyLength \in Nat
  BY PagesAssumption
<1>2. /\ \A k \in 1 .. 3 : s[k] = Folded(u[k])
      /\ \A k \in 5 .. BodyLength + 5 : s[k - 1] = Folded(u[k])
  BY DEF Aligned
<1>3. ASSUME NEW i \in 1 .. BodyLength
      PROVE  s[3 + i] = Folded(u[4 + i])
  <2>1. 4 + i \in 5 .. BodyLength + 5 /\ (4 + i) - 1 = 3 + i
    BY <1>1
  <2> QED BY <1>2, <2>1
<1>4. s[BodyLength + 4] = Folded(u[BodyLength + 5])
  <2>1. BodyLength + 5 \in 5 .. BodyLength + 5 /\ (BodyLength + 5) - 1 = BodyLength + 4
    BY <1>1
  <2> QED BY <1>2, <2>1
<1>5. s[1] = Folded(u[1]) /\ s[2] = Folded(u[2]) /\ s[3] = Folded(u[3])
  BY <1>2
<1> QED BY <1>3, <1>4, <1>5 DEF Reads

\* A code's digits and its check symbol, where they are read.
LEMMA WhereTheyAre ==
  ASSUME NEW v \in Value
  PROVE  /\ \A i \in 1 .. BodyLength :
              IndexOf[Folded(format(v)[4 + i])] = v[i]
         /\ Folded(format(v)[BodyLength + 5]) = checkSymbol(v)
<1>1. BodyLength \in Nat
  BY PagesAssumption
<1>2. ASSUME NEW i \in 1 .. BodyLength
      PROVE  IndexOf[Folded(format(v)[4 + i])] = v[i]
  <2>1. 4 + i \in 1 .. BodyLength + 5 /\ 4 + i # 4
    BY <1>1
  <2>2. Folded(format(v)[4 + i]) = CHECK_ALPHABET[v[i] + 1]
    BY <2>1, FormatIs, FormatStays
  <2>3. v[i] \in Digit
    BY RemainderIs
  <2>4. CHECK_ALPHABET[v[i] + 1] = ALPHABET[v[i] + 1]
    BY <2>3, Alphabet
  <2>5. IndexOf[ALPHABET[v[i] + 1]] = v[i]
    BY <2>3, SymbolOfDigit
  <2> QED BY <2>2, <2>4, <2>5
<1>3. Folded(format(v)[BodyLength + 5]) = checkSymbol(v)
  <2>1. BodyLength + 5 \in 1 .. BodyLength + 5 /\ BodyLength + 5 # 4
    BY <1>1
  <2> QED BY <2>1, FormatIs, FormatStays
<1> QED BY <1>2, <1>3

\* A text that is a code but for one character is refused, or read as that code.
LEMMA OneCharacter ==
  ASSUME NEW v \in Value, NEW s, NEW u, NEW w, Aligned(s, u), Reads(s, w),
         NEW i \in 1 .. BodyLength + 5, i # 4,
         \A k \in 1 .. BodyLength + 5 : k # i => u[k] = format(v)[k]
  PROVE  w = v
<1> DEFINE code == format(v)
<1>1. /\ w \in Value
      /\ \A k \in 1 .. BodyLength : w[k] = IndexOf[Folded(u[4 + k])]
      /\ Folded(u[BodyLength + 5]) = checkSymbol(w)
  BY AlignedReads
<1>2. /\ \A k \in 1 .. BodyLength : IndexOf[Folded(code[4 + k])] = v[k]
      /\ Folded(code[BodyLength + 5]) = checkSymbol(v)
  BY WhereTheyAre
<1>3. BodyLength \in Nat
  BY PagesAssumption
<1> HIDE DEF code
<1>4. ASSUME NEW k \in 1 .. BodyLength, 4 + k # i
      PROVE  w[k] = v[k]
  <2>1. 4 + k \in 1 .. BodyLength + 5
    BY <1>3
  <2>2. u[4 + k] = code[4 + k]
    BY <1>4, <2>1 DEF code
  <2> QED BY <1>1, <1>2, <2>2
<1>5. CASE i \in 5 .. BodyLength + 4
  <2>1. i - 4 \in 1 .. BodyLength /\ BodyLength + 5 # i /\ BodyLength + 5 \in 1 .. BodyLength + 5
    BY <1>3, <1>5
  <2>2. AgreeBut(w, v, i - 4, BodyLength)
    <3>1. \A k \in 1 .. BodyLength : k # i - 4 => 4 + k # i
      BY <1>3, <1>5
    <3> QED BY <1>4, <3>1 DEF AgreeBut
  <2>3. checkSymbol(w) = checkSymbol(v)
    BY <1>1, <1>2, <2>1 DEF code
  <2>4. Remainder(w) = Remainder(v)
    BY <1>1, <2>3, CheckSymbolIs, RemainderIs
  <2> QED BY <1>1, <2>1, <2>2, <2>4, OneDigit
<1>6. CASE i \notin 5 .. BodyLength + 4
  <2>1. \A k \in 1 .. BodyLength : 4 + k # i
    BY <1>3, <1>6
  <2> QED BY <1>1, <1>4, <2>1, SameValue
<1> QED BY <1>5, <1>6

\* So is one in which two characters have changed places, but for the two that may.
LEMMA TwoCharacters ==
  ASSUME NEW v \in Value, NEW s, NEW u, NEW w, Aligned(s, u), Reads(s, w),
         NEW i \in 1 .. BodyLength + 5, NEW j \in 1 .. BodyLength + 5, i < j, i # 4, j # 4,
         ~(i = (BodyLength + 5) - 19 /\ j = BodyLength + 5),
         u[i] = format(v)[j], u[j] = format(v)[i],
         \A k \in 1 .. BodyLength + 5 : k \notin {i, j} => u[k] = format(v)[k]
  PROVE  w = v
<1> DEFINE code == format(v)
           n == BodyLength + 5
<1>1. /\ w \in Value
      /\ Folded(u[1]) = "T" /\ Folded(u[2]) = "P" /\ Folded(u[3]) = "1"
      /\ \A k \in 1 .. BodyLength :
           Folded(u[4 + k]) \in Symbol /\ w[k] = IndexOf[Folded(u[4 + k])]
      /\ Folded(u[n]) = checkSymbol(w)
  BY AlignedReads
<1>2. /\ \A k \in 1 .. BodyLength : IndexOf[Folded(code[4 + k])] = v[k]
      /\ Folded(code[n]) = checkSymbol(v)
  BY WhereTheyAre
<1>3. BodyLength \in Nat /\ BodyLength >= 5
  BY ONLY PagesAssumption
<1>4. /\ \A k \in 1 .. n : k # 4 => Folded(code[k]) = code[k]
      /\ code[1] = "T" /\ code[2] = "P" /\ code[3] = "1"
      /\ \A k \in 1 .. BodyLength : code[4 + k] = CHECK_ALPHABET[v[k] + 1]
      /\ code[n] = checkSymbol(v)
  BY FormatIs, FormatStays
<1>5. u[i] = code[j] /\ u[j] = code[i]
      /\ \A k \in 1 .. n : k \notin {i, j} => u[k] = code[k]
  OBVIOUS
<1> HIDE DEF code
<1>6. ASSUME NEW k \in 1 .. BodyLength, 4 + k \notin {i, j}
      PROVE  w[k] = v[k]
  <2>1. 4 + k \in 1 .. n
    BY <1>3
  <2> QED BY <1>1, <1>2, <1>5, <1>6, <2>1
<1>7. CASE i \in 1 .. 3
  <2>1. u[j] = code[j] \/ j \in 1 .. 3
    <3>1. i = 1 \/ i = 2 \/ i = 3
      BY <1>7
    <3>2. Folded(u[i]) = code[i]
      BY <1>1, <1>4, <3>1
    <3>3. Folded(u[i]) = code[j]
      BY <1>4, <1>5
    <3> QED BY <1>5, <3>2, <3>3
  <2>2. ASSUME NEW k \in 1 .. BodyLength PROVE w[k] = v[k]
    <3>1. CASE 4 + k = j
      <4>1. u[4 + k] = code[4 + k]
        BY <1>3, <2>1, <3>1
      <4> QED BY <1>1, <1>2, <4>1
    <3>2. CASE 4 + k # j
      <4>1. 4 + k # i
        BY <1>3, <1>7
      <4> QED BY <1>6, <3>2, <4>1
    <3> QED BY <3>1, <3>2
  <2> QED BY <1>1, <2>2, SameValue
<1>8. CASE i \notin 1 .. 3 /\ j # n
  <2> DEFINE a == i - 4  b == j - 4
  <2>1. /\ a \in 1 .. BodyLength /\ b \in 1 .. BodyLength /\ a < b
        /\ 4 + a = i /\ 4 + b = j /\ n \in 1 .. n /\ n \notin {i, j}
        /\ \A k \in 1 .. BodyLength : k \notin {a, b} => 4 + k \notin {i, j}
    BY <1>3, <1>8
  <2> HIDE DEF a, b, n
  <2>2. w[a] = v[b] /\ w[b] = v[a]
    BY <1>1, <1>2, <1>5, <2>1
  <2>3. \A k \in 1 .. BodyLength : k \notin {a, b} => w[k] = v[k]
    BY <1>6, <2>1
  <2>4. checkSymbol(w) = checkSymbol(v)
    BY <1>1, <1>2, <1>5, <2>1
  <2>5. Remainder(w) = Remainder(v)
    BY <1>1, <2>4, CheckSymbolIs, RemainderIs
  <2> QED BY <1>1, <2>1, <2>2, <2>3, <2>5, TwoDigits
<1>9. CASE i \notin 1 .. 3 /\ j = n
  <2> DEFINE q == i - 4
  <2>1. /\ q \in 1 .. BodyLength /\ 4 + q = i /\ i \in 1 .. n /\ n # 4
        /\ \A k \in 1 .. BodyLength : k # q => 4 + k \notin {i, j}
    BY <1>3, <1>9
  <2>2. BodyLength - q # 18
    <3>1. i # n - 19
      BY <1>9
    <3> QED BY <1>3, <3>1
  <2> HIDE DEF q
  <2>3. AgreeBut(w, v, q, BodyLength)
    BY <1>6, <2>1 DEF AgreeBut
  <2>4. v[q] \in Digit /\ v[q] \in Residue /\ Remainder(v) \in Residue
    BY <2>1, RemainderIs, Differences
  <2>5. w[q] = Remainder(v)
    <3>1. u[i] = checkSymbol(v) /\ Folded(u[i]) = checkSymbol(v)
      BY <1>2, <1>4, <1>5, <1>9
    <3>2. checkSymbol(v) \in Symbol /\ w[q] = IndexOf[checkSymbol(v)]
      BY <1>1, <2>1, <3>1
    <3>3. checkSymbol(v) = CHECK_ALPHABET[Remainder(v) + 1]
      BY CheckSymbolIs
    <3> QED BY <2>4, <3>2, <3>3, SymbolOfRemainder
  <2>6. Remainder(w) = v[q]
    <3>1. Folded(u[n]) = code[i]
      BY <1>4, <1>5, <1>9, <2>1
    <3>2. checkSymbol(w) = CHECK_ALPHABET[v[q] + 1]
      BY <1>1, <1>4, <2>1, <3>1
    <3> QED BY <1>1, <2>4, <3>2, CheckSymbolIs
  <2> QED BY <1>1, <2>1, <2>2, <2>3, <2>5, <2>6, DigitAndCheck
<1> QED BY <1>7, <1>8, <1>9

\* The kinds of slips.
LEMMA SlipKinds ==
  ASSUME NEW v \in Value, NEW slip \in Slips(format(v))
  PROVE  LET n == BodyLength + 5  code == format(v)
         IN \/ \E i \in 1 .. n, ch \in Typeable : slip = [code EXCEPT ![i] = ch]
            \/ \E i, j \in 1 .. n : /\ i < j /\ i # 4 /\ j # 4 /\ ~(i = n - 19 /\ j = n)
                                    /\ slip = Swapped(code, i, j)
            \/ \E i \in 1 .. n : slip = RemoveAt(code, i)
            \/ \E i \in 1 .. n : slip = InsertAt(code, i, code[i])
<1> DEFINE n == BodyLength + 5  code == format(v)
           Pairs == {q \in (1 .. Len(code)) \X (1 .. Len(code)) :
                       q[1] < q[2] /\ 4 \notin {q[1], q[2]}
                                   /\ q # <<Len(code) - 19, Len(code)>>}
           Retyped == {[code EXCEPT ![i] = ch] : i \in 1 .. Len(code), ch \in Typeable}
           Turned == {[code EXCEPT ![p[1]] = code[p[2]], ![p[2]] = code[p[1]]] : p \in Pairs}
           Left == {RemoveAt(code, i) : i \in 1 .. Len(code)}
           Twice == {InsertAt(code, i, code[i]) : i \in 1 .. Len(code)}
<1>1. Len(code) = n
  BY FormatIs
<1>2. Slips(code) = Retyped \cup Turned \cup Left \cup Twice
  BY DEF Slips
<1>3. slip \in Retyped \/ slip \in Turned \/ slip \in Left \/ slip \in Twice
  <2> HIDE DEF Retyped, Turned, Left, Twice
  <2> QED BY <1>2
<1> HIDE DEF n, code
<1>4. CASE slip \in Retyped
  <2>1. \E i \in 1 .. Len(code), ch \in Typeable : slip = [code EXCEPT ![i] = ch]
    BY <1>4
  <2> QED BY <1>1, <2>1 DEF n, code
<1>5. CASE slip \in Turned
  <2>1. PICK p \in Pairs : slip = [code EXCEPT ![p[1]] = code[p[2]], ![p[2]] = code[p[1]]]
    <3> HIDE DEF Pairs
    <3> QED BY <1>5, Zenon
  <2>2. /\ p \in (1 .. Len(code)) \X (1 .. Len(code)) /\ p[1] < p[2] /\ 4 \notin {p[1], p[2]}
        /\ p # <<Len(code) - 19, Len(code)>>
    OBVIOUS
  <2> HIDE DEF Pairs
  <2>3. /\ p[1] \in 1 .. Len(code) /\ p[2] \in 1 .. Len(code) /\ p = <<p[1], p[2]>>
        /\ p[1] # 4 /\ p[2] # 4
    BY <2>2
  <2>4. ~(p[1] = Len(code) - 19 /\ p[2] = Len(code))
    BY <2>2, <2>3
  <2>5. slip = Swapped(code, p[1], p[2])
    BY <2>1 DEF Swapped
  <2>6. \E i, j \in 1 .. Len(code) :
           /\ i < j /\ i # 4 /\ j # 4 /\ ~(i = Len(code) - 19 /\ j = Len(code))
           /\ slip = Swapped(code, i, j)
    BY <2>2, <2>3, <2>4, <2>5, Zenon
  <2> QED BY <1>1, <2>6, Zenon DEF n, code
<1>6. CASE slip \in Left
  <2>1. \E i \in 1 .. Len(code) : slip = RemoveAt(code, i)
    BY <1>6, Zenon
  <2> QED BY <1>1, <2>1, Zenon DEF n, code
<1>7. CASE slip \in Twice
  <2>1. \E i \in 1 .. Len(code) : slip = InsertAt(code, i, code[i])
    BY <1>7, Zenon
  <2> QED BY <1>1, <2>1, Zenon DEF n, code
<1> QED BY <1>3, <1>4, <1>5, <1>6, <1>7

\* A slip makes a text of nine characters at least.
LEMMA SlipIsText ==
  ASSUME NEW v \in Value, NEW text \in {format(v)} \cup Slips(format(v))
  PROVE  text \in Seq(Typeable) /\ Len(text) >= 9
<1> DEFINE n == BodyLength + 5  code == format(v)
<1>1. code \in Seq(Typeable) /\ Len(code) = n
  BY FormatIs
<1>2. n \in Nat /\ n >= 10
  BY PagesAssumption
<1>3. CASE text = code
  BY <1>1, <1>2, <1>3
<1>4. ASSUME NEW i \in 1 .. n, NEW ch \in Typeable, text = [code EXCEPT ![i] = ch]
      PROVE  text \in Seq(Typeable) /\ Len(text) >= 9
  <2> HIDE DEF code, n
  <2>1. i \in 1 .. Len(code)
    BY <1>1
  <2>2. [code EXCEPT ![i] = ch] \in Seq(Typeable) /\ Len([code EXCEPT ![i] = ch]) = Len(code)
    BY <1>1, <2>1, ExceptSeq
  <2> QED BY <1>1, <1>2, <1>4, <2>2
<1>5. ASSUME NEW i \in 1 .. n, NEW j \in 1 .. n, i < j, i # 4, j # 4,
             text = Swapped(code, i, j)
      PROVE  text \in Seq(Typeable) /\ Len(text) >= 9
  BY <1>2, <1>5, Exchanged
<1>6. ASSUME NEW i \in 1 .. n, text = RemoveAt(code, i)
      PROVE  text \in Seq(Typeable) /\ Len(text) >= 9
  <2> HIDE DEF code, n
  <2>1. i \in 1 .. Len(code)
    BY <1>1
  <2>2. text \in Seq(Typeable) /\ Len(text) = Len(code) - 1
    BY <1>1, <1>6, <2>1, RemovedIs
  <2> QED BY <1>1, <1>2, <2>2
<1>7. ASSUME NEW i \in 1 .. n, text = InsertAt(code, i, code[i])
      PROVE  text \in Seq(Typeable) /\ Len(text) >= 9
  <2> HIDE DEF code, n
  <2>1. i \in 1 .. Len(code)
    BY <1>1
  <2>2. text \in Seq(Typeable) /\ Len(text) = Len(code) + 1
    BY <1>1, <1>7, <2>1, DoubledIs
  <2> QED BY <1>1, <1>2, <2>2
<1> QED BY <1>3, <1>4, <1>5, <1>6, <1>7, SlipKinds

\* After one slip a text is refused or read as the code it was.
LEMMA SlipRead ==
  ASSUME NEW v \in Value, NEW text \in {format(v)} \cup Slips(format(v)), NEW w,
         Reads(normalizeSymbols(text), w)
  PROVE  w = v
<1> DEFINE n == BodyLength + 5  code == format(v)
<1>1. Len(normalizeSymbols(text)) = BodyLength + 4
  BY DEF Reads
<1>2. BodyLength \in Nat /\ BodyLength >= 5 /\ 1 \in 1 .. n
  BY PagesAssumption
<1>3. ASSUME Aligned(normalizeSymbols(text), code) PROVE w = v
  <2>1. \A k \in 1 .. n : k # 1 => code[k] = format(v)[k]
    OBVIOUS
  <2> QED BY <1>2, <1>3, <2>1, OneCharacter
<1>4. CASE text = code
  BY <1>3, <1>4, FormatAligned
<1>5. ASSUME NEW i \in 1 .. n, NEW ch \in Typeable, text = [code EXCEPT ![i] = ch]
      PROVE  w = v
  <2>1. \/ Aligned(normalizeSymbols(text), code)
        \/ i # 4 /\ Aligned(normalizeSymbols(text), text)
    BY <1>1, <1>5, Replaced
  <2>2. CASE i # 4 /\ Aligned(normalizeSymbols(text), text)
    <3>1. \A k \in 1 .. n : k # i => text[k] = code[k]
      <4>1. code \in Seq(Typeable) /\ Len(code) = n
        BY FormatIs
      <4> HIDE DEF code, n
      <4>2. i \in 1 .. Len(code)
        BY <4>1
      <4>3. \A k \in 1 .. Len(code) : k # i => [code EXCEPT ![i] = ch][k] = code[k]
        BY <4>1, <4>2, ExceptSeq
      <4> QED BY <1>5, <4>1, <4>3
    <3> QED BY <2>2, <3>1, OneCharacter
  <2> QED BY <1>3, <2>1, <2>2
<1>6. ASSUME NEW i \in 1 .. n, NEW j \in 1 .. n, i < j, i # 4, j # 4,
             ~(i = n - 19 /\ j = n), text = Swapped(code, i, j)
      PROVE  w = v
  <2>1. /\ text[i] = code[j] /\ text[j] = code[i]
        /\ \A k \in 1 .. n : k \notin {i, j} => text[k] = code[k]
        /\ Aligned(normalizeSymbols(text), text)
    BY <1>6, Exchanged
  <2>2. i < j /\ i # 4 /\ j # 4 /\ ~(i = n - 19 /\ j = n)
    BY <1>6
  <2> QED BY <2>1, <2>2, TwoCharacters
<1>7. ASSUME NEW i \in 1 .. n, text = RemoveAt(code, i)
      PROVE  w = v
  BY <1>1, <1>3, <1>7, Removed
<1>8. ASSUME NEW i \in 1 .. n, text = InsertAt(code, i, code[i])
      PROVE  w = v
  BY <1>1, <1>3, <1>8, Doubled
<1> QED BY <1>4, <1>5, <1>6, <1>7, <1>8, SlipKinds

\* A code's own symbols are its value's.
LEMMA FormatReads ==
  ASSUME NEW v \in Value
  PROVE  Reads(normalizeSymbols(format(v)), v)
<1> DEFINE code == format(v)
           s == normalizeSymbols(code)
<1>1. BodyLength \in Nat
  BY PagesAssumption
<1>2. /\ Len(s) = BodyLength + 4
      /\ \A k \in 1 .. 3 : s[k] = Folded(code[k])
      /\ \A k \in 5 .. BodyLength + 5 : s[k - 1] = Folded(code[k])
  BY FormatAligned DEF Aligned
<1>3. /\ \A k \in 1 .. BodyLength + 5 : k # 4 => Folded(code[k]) = code[k]
      /\ code[1] = "T" /\ code[2] = "P" /\ code[3] = "1"
      /\ \A i \in 1 .. BodyLength : code[4 + i] = CHECK_ALPHABET[v[i] + 1]
  BY FormatIs, FormatStays
<1>4. /\ \A i \in 1 .. BodyLength : IndexOf[Folded(code[4 + i])] = v[i]
      /\ Folded(code[BodyLength + 5]) = checkSymbol(v)
  BY WhereTheyAre
<1> HIDE DEF s, code
<1>5. s[1] = "T" /\ s[2] = "P" /\ s[3] = "1"
  <2>1. \A k \in 1 .. 3 : k \in 1 .. BodyLength + 5 /\ k # 4
    BY <1>1
  <2>2. 1 \in 1 .. 3 /\ 2 \in 1 .. 3 /\ 3 \in 1 .. 3
    OBVIOUS
  <2> QED BY <1>2, <1>3, <2>1, <2>2
<1>6. ASSUME NEW i \in 1 .. BodyLength
      PROVE  s[3 + i] \in Symbol /\ v[i] = IndexOf[s[3 + i]]
  <2>1. 4 + i \in 5 .. BodyLength + 5 /\ (4 + i) - 1 = 3 + i /\ 4 + i \in 1 .. BodyLength + 5
        /\ 4 + i # 4
    BY <1>1
  <2>2. s[3 + i] = Folded(code[4 + i])
    BY <1>2, <2>1
  <2>3. s[3 + i] = CHECK_ALPHABET[v[i] + 1] /\ v[i] \in Digit
    BY <1>3, <2>1, <2>2, RemainderIs
  <2>4. CHECK_ALPHABET[v[i] + 1] \in Symbol
    BY <2>3, Alphabet, SymbolOfDigit
  <2> QED BY <1>4, <2>2, <2>3, <2>4
<1>7. s[BodyLength + 4] = checkSymbol(v)
  <2>1. BodyLength + 5 \in 5 .. BodyLength + 5 /\ (BodyLength + 5) - 1 = BodyLength + 4
    BY <1>1
  <2> QED BY <1>2, <1>4, <2>1
<1> QED BY <1>2, <1>5, <1>6, <1>7 DEF Reads, s, code

\* A text's symbols are a text.
LEMMA SymbolsAreText ==
  ASSUME NEW text, Len(text) \in Nat
  PROVE  \E A : normalizeSymbols(text) \in Seq(A)
<1> DEFINE A == {Folded(text[i]) : i \in 1 .. Len(text)}
           f == Symbols(text)
           S == {n \in Nat : n <= Len(text) => f[n] \in Seq(A)}
<1>1. /\ f[0] = <<>> /\ \A i \in 1 .. Len(text) : f[i] = Then(text, i, f[i - 1])
      /\ normalizeSymbols(text) = f[Len(text)]
  BY SymbolsAre
<1> HIDE DEF f
<1>2. 0 \in S
  <2> HIDE DEF A
  <2>1. <<>> \in Seq(A)
    OBVIOUS
  <2> QED BY <1>1, <2>1
<1>3. ASSUME NEW n \in Nat, n \in S PROVE n + 1 \in S
  <2> SUFFICES ASSUME n + 1 <= Len(text) PROVE f[n + 1] \in Seq(A)
    OBVIOUS
  <2>1. n + 1 \in 1 .. Len(text) /\ (n + 1) - 1 = n /\ n <= Len(text)
    OBVIOUS
  <2>2. f[n] \in Seq(A) /\ Folded(text[n + 1]) \in A
    BY <1>3, <2>1
  <2>3. f[n + 1] = Then(text, n + 1, f[n])
    BY <1>1, <2>1
  <2> HIDE DEF A
  <2> QED BY <2>2, <2>3 DEF Then
<1>4. Nat \subseteq S
  <2> HIDE DEF S
  <2> QED BY <1>2, <1>3, SetInduction
<1>5. f[Len(text)] \in Seq(A)
  BY <1>4
<1> QED BY <1>1, <1>5

\* In whatever manner it is written down, a code read with at most one slip is refused or
\* taken for itself; without one it is taken for itself, and is short enough to be looked up.
THEOREM OneSlip ==
  ASSUME NEW v \in Value, NEW manner \in Manner, NEW text \in {format(v)} \cup Slips(format(v))
  PROVE  LET p == parseTrustPassId(Written(manner, text))
         IN /\ p.ok => p.id = v
            /\ text = format(v) => p.ok /\ p.id = v /\ Len(Written(manner, text)) <= 64
<1> DEFINE read == Written(manner, text)
           p == parseTrustPassId(read)
<1>1. text \in Seq(Typeable) /\ Len(text) >= 9
  BY SlipIsText
<1>2. /\ normalizeSymbols(read) = normalizeSymbols(text)
      /\ Len(read) \in Nat /\ Len(read) <= Len(text) + 3 /\ DOMAIN read = 1 .. Len(read)
  BY <1>1, WrittenAlike
<1> HIDE DEF read
<1>3. PICK A : normalizeSymbols(read) \in Seq(A)
  BY <1>2, SymbolsAreText
<1>4. ASSUME p.ok PROVE p.id = v
  <2>1. Reads(normalizeSymbols(read), p.id)
    BY <1>3, <1>4, ParsedReads
  <2> HIDE DEF p
  <2>2. Reads(normalizeSymbols(text), p.id)
    BY <1>2, <2>1
  <2> QED BY <2>2, SlipRead
<1>5. ASSUME text = format(v) PROVE p.ok /\ p.id = v /\ Len(read) <= 64
  <2>1. Reads(normalizeSymbols(read), v)
    BY <1>2, <1>5, FormatReads
  <2>2. p = [ok |-> TRUE, id |-> v]
    BY <1>2, <1>3, <2>1, ReadsParsed
  <2>3. Len(text) = BodyLength + 5 /\ BodyLength \in 5 .. 36
    BY <1>5, FormatIs, PagesAssumption
  <2>4. Len(read) <= 64
    BY <1>2, <2>3
  <2> HIDE DEF p
  <2> QED BY <2>2, <2>4
<1> QED BY <1>4, <1>5 DEF read

-----------------------------------------------------------------------------
(* What the API is asked for *)

More(text, i, escaped) == escaped \o Escape(text[i])
Escaped(text) ==
  CHOOSE f : f = [i \in 0 .. Len(text) |-> IF i = 0 THEN <<>> ELSE More(text, i, f[i - 1])]

\* The escapes of a text's beginnings exist, each from the one before.
LEMMA EscapesExist ==
  ASSUME NEW text
  PROVE  \A n \in Nat : \E f :
           f = [i \in 0 .. n |-> IF i = 0 THEN <<>> ELSE More(text, i, f[i - 1])]
<1> DEFINE Goes(f, n) ==
             f = [i \in 0 .. n |-> IF i = 0 THEN <<>> ELSE More(text, i, f[i - 1])]
           S == {n \in Nat : \E f : Goes(f, n)}
<1>1. 0 \in S
  <2>1. Goes([i \in 0 .. 0 |-> <<>>], 0)
    OBVIOUS
  <2> QED BY <2>1
<1>2. ASSUME NEW n \in Nat, n \in S
      PROVE  n + 1 \in S
  <2>1. PICK f : Goes(f, n)
    BY <1>2
  <2> DEFINE g == [i \in 0 .. n + 1 |->
                     IF i = n + 1 THEN More(text, n + 1, f[n]) ELSE f[i]]
  <2>2. ASSUME NEW i \in 0 .. n + 1
        PROVE  g[i] = IF i = 0 THEN <<>> ELSE More(text, i, g[i - 1])
    <3>1. CASE i = n + 1
      BY <3>1
    <3>2. CASE i \in 0 .. n
      <4>1. f[i] = IF i = 0 THEN <<>> ELSE More(text, i, f[i - 1])
        BY <2>1, <3>2
      <4>2. i # 0 => i - 1 \in 0 .. n /\ i - 1 # n + 1
        BY <3>2
      <4> QED BY <3>2, <4>1, <4>2
    <3> QED BY <3>1, <3>2
  <2>3. Goes(g, n + 1)
    <3> HIDE DEF g
    <3>1. g = [i \in 0 .. n + 1 |-> g[i]]
      BY DEF g
    <3> QED BY <2>2, <3>1
  <2> HIDE DEF Goes, g
  <2>4. \E h : Goes(h, n + 1)
    BY <2>3
  <2> QED BY <2>4
<1>3. Nat \subseteq S
  <2> HIDE DEF S
  <2> QED BY <1>1, <1>2, SetInduction
<1> QED BY <1>3

\* Character by character, from none.
LEMMA EscapedIs ==
  ASSUME NEW text, Len(text) \in Nat
  PROVE  /\ Asked(text) = Escaped(text)[Len(text)]
         /\ Escaped(text)[0] = <<>>
         /\ \A i \in 1 .. Len(text) : Escaped(text)[i] = More(text, i, Escaped(text)[i - 1])
<1> DEFINE Goes(f) == f = [i \in 0 .. Len(text) |->
                             IF i = 0 THEN <<>> ELSE More(text, i, f[i - 1])]
           f == Escaped(text)
<1>1. Goes(f)
  <2>1. \E g : Goes(g)
    BY EscapesExist
  <2>2. f = CHOOSE g : Goes(g)
    BY DEF Escaped
  <2> HIDE DEF Goes, f
  <2> QED BY <2>1, <2>2
<1>2. Asked(text) = f[Len(text)]
  BY DEF Asked, Escaped, More
<1> HIDE DEF f
<1>3. \A i \in 0 .. Len(text) : f[i] = IF i = 0 THEN <<>> ELSE More(text, i, f[i - 1])
  BY <1>1
<1>4. f[0] = <<>> /\ \A i \in 1 .. Len(text) : f[i] = More(text, i, f[i - 1])
  BY <1>3
<1> QED BY <1>2, <1>4 DEF f

Letter(A) == A \cup {"%", "2", "3", "4", "D", "0"}

\* A character is what it was, or begins with a percent sign.
LEMMA EscapeIs ==
  ASSUME NEW A, NEW ch \in A
  PROVE  /\ Escape(ch) \in Seq(Letter(A)) /\ Len(Escape(ch)) >= 1
         /\ Escape(ch) = <<ch>> \/ Escape(ch)[1] = "%"
<1>1. \/ Escape(ch) = <<"%", "2", "4">> \/ Escape(ch) = <<"%", "3", "D">>
      \/ Escape(ch) = <<"%", "2", "0">> \/ Escape(ch) = <<ch>>
  BY Zenon DEF Escape
<1>2. CASE Escape(ch) = <<ch>>
  BY <1>2 DEF Letter
<1>3. CASE Escape(ch) = <<"%", "2", "4">>
  BY <1>3 DEF Letter
<1>4. CASE Escape(ch) = <<"%", "3", "D">>
  BY <1>4 DEF Letter
<1>5. CASE Escape(ch) = <<"%", "2", "0">>
  BY <1>5 DEF Letter
<1> QED BY <1>1, <1>2, <1>3, <1>4, <1>5

HasPercent(s) == \E k \in 1 .. Len(s) : s[k] = "%"

\* The API is asked for the text itself, or for one with a percent sign.
LEMMA AskedIs ==
  ASSUME NEW A, NEW text \in Seq(A)
  PROVE  /\ \E B : Asked(text) \in Seq(B)
         /\ Asked(text) = text \/ HasPercent(Asked(text))
<1> DEFINE f == Escaped(text)
           Good(n) == /\ f[n] \in Seq(Letter(A))
                      /\ HasPercent(f[n]) \/ /\ Len(f[n]) = n
                                             /\ \A i \in 1 .. n : f[n][i] = text[i]
           S == {n \in Nat : n <= Len(text) => Good(n)}
<1>1. Len(text) \in Nat
  OBVIOUS
<1>2. /\ f[0] = <<>> /\ \A i \in 1 .. Len(text) : f[i] = More(text, i, f[i - 1])
      /\ Asked(text) = f[Len(text)]
  BY <1>1, EscapedIs
<1> HIDE DEF f
<1>3. 0 \in S
  <2>1. Good(0)
    BY <1>2
  <2> QED BY <2>1
<1>4. ASSUME NEW n \in Nat, n \in S PROVE n + 1 \in S
  <2> SUFFICES ASSUME n + 1 <= Len(text) PROVE Good(n + 1)
    OBVIOUS
  <2>1. n + 1 \in 1 .. Len(text) /\ (n + 1) - 1 = n /\ n <= Len(text)
    BY <1>1
  <2>2. Good(n)
    BY <1>4, <2>1
  <2> DEFINE g == f[n]  e == Escape(text[n + 1])
  <2>3. f[n + 1] = g \o e
    BY <1>2, <2>1 DEF More
  <2>4. text[n + 1] \in A
    BY <2>1
  <2>5. /\ e \in Seq(Letter(A)) /\ Len(e) >= 1
        /\ e = <<text[n + 1]>> \/ e[1] = "%"
    BY <2>4, EscapeIs
  <2>6. g \in Seq(Letter(A))
    BY <2>2
  <2> HIDE DEF g, e
  <2>7. g \o e \in Seq(Letter(A)) /\ Joins(g \o e, g, e)
    BY <2>5, <2>6, Joined, Zenon
  <2> DEFINE h == f[n + 1]
  <2>8. h \in Seq(Letter(A)) /\ Joins(h, g, e)
    BY <2>3, <2>7
  <2>9. Len(g) \in Nat /\ Len(e) \in Nat
    BY <2>5, <2>6
  <2> HIDE DEF h
  <2>10. CASE HasPercent(g)
    <3>1. PICK k \in 1 .. Len(g) : g[k] = "%"
      BY <2>10 DEF HasPercent
    <3>2. k \in 1 .. Len(h) /\ h[k] = "%"
      BY <2>8, <2>9, <3>1 DEF Joins
    <3>3. HasPercent(h)
      BY <3>2 DEF HasPercent
    <3> QED BY <2>8, <3>3 DEF h
  <2>11. CASE e[1] = "%"
    <3>1. 1 \in 1 .. Len(e)
      BY <2>5, <2>9
    <3>2. Len(g) + 1 \in 1 .. Len(h) /\ h[Len(g) + 1] = "%"
      BY <2>5, <2>8, <2>9, <2>11, <3>1 DEF Joins
    <3>3. HasPercent(h)
      BY <3>2 DEF HasPercent
    <3> QED BY <2>8, <3>3 DEF h
  <2>12. CASE /\ Len(g) = n /\ \A i \in 1 .. n : g[i] = text[i]
              /\ e = <<text[n + 1]>>
    <3>1. Len(e) = 1 /\ e[1] = text[n + 1]
      BY <2>12
    <3>2. Len(h) = n + 1
      BY <2>8, <2>12, <3>1 DEF Joins
    <3>3. ASSUME NEW i \in 1 .. n + 1 PROVE h[i] = text[i]
      <4>1. CASE i \in 1 .. n
        BY <2>8, <2>12, <4>1 DEF Joins
      <4>2. CASE i = n + 1
        <5>1. 1 \in 1 .. Len(e) /\ Len(g) + 1 = n + 1
          BY <2>12, <3>1
        <5> QED BY <2>8, <3>1, <4>2, <5>1 DEF Joins
      <4> QED BY <4>1, <4>2
    <3> QED BY <2>8, <3>2, <3>3 DEF h
  <2>13. HasPercent(g) \/ (Len(g) = n /\ \A i \in 1 .. n : g[i] = text[i])
    BY <2>2 DEF g
  <2> HIDE DEF Good
  <2> QED BY <2>5, <2>10, <2>11, <2>12, <2>13
<1>5. Nat \subseteq S
  <2> HIDE DEF S
  <2> QED BY <1>3, <1>4, SetInduction
<1>6. Good(Len(text))
  <2> HIDE DEF Good
  <2>1. Len(text) \in S
    <3> HIDE DEF S
    <3> QED BY <1>1, <1>5
  <2> QED BY <1>1, <2>1
<1>7. ASSUME Len(Asked(text)) = Len(text), \A i \in 1 .. Len(text) : Asked(text)[i] = text[i]
      PROVE  Asked(text) = text
  <2> DEFINE a == Asked(text)
  <2>1. a \in Seq(Letter(A))
    BY <1>2, <1>6
  <2>2. Len(a) = Len(text) /\ \A i \in 1 .. Len(text) : a[i] = text[i]
    BY <1>7
  <2> HIDE DEF a
  <2>3. a = [i \in 1 .. Len(text) |-> a[i]] /\ text = [i \in 1 .. Len(text) |-> text[i]]
    BY <2>1, <2>2
  <2>4. a = text
    BY <2>2, <2>3
  <2> QED BY <2>4 DEF a
<1> QED BY <1>2, <1>6, <1>7

\* A percent sign stays among the symbols.
LEMMA PercentStays ==
  ASSUME NEW text, Len(text) \in Nat, HasPercent(text)
  PROVE  HasPercent(normalizeSymbols(text))
<1>1. PICK k \in 1 .. Len(text) : text[k] = "%"
  BY DEF HasPercent
<1>2. Folded("%") = "%" /\ "%" \notin Separator
  <2>1. Folded("%") = "%"
    BY Zenon DEF Folded
  <2>2. "%" \notin Separator
    BY DEF Separator
  <2> QED BY <2>1, <2>2
<1> DEFINE A == {Folded(text[i]) : i \in 1 .. Len(text)}
           f == Symbols(text)
           Good(n) == f[n] \in Seq(A) /\ (k <= n => HasPercent(f[n]))
           S == {n \in Nat : n <= Len(text) => Good(n)}
<1>3. /\ f[0] = <<>> /\ \A i \in 1 .. Len(text) : f[i] = Then(text, i, f[i - 1])
      /\ normalizeSymbols(text) = f[Len(text)]
  BY SymbolsAre
<1> HIDE DEF f
<1>4. 0 \in S
  <2>1. Good(0)
    BY <1>3
  <2> QED BY <2>1
<1>5. ASSUME NEW n \in Nat, n \in S PROVE n + 1 \in S
  <2> SUFFICES ASSUME n + 1 <= Len(text) PROVE Good(n + 1)
    OBVIOUS
  <2>1. n + 1 \in 1 .. Len(text) /\ (n + 1) - 1 = n /\ n <= Len(text)
    OBVIOUS
  <2>2. Good(n)
    BY <1>5, <2>1
  <2>3. f[n + 1] = Then(text, n + 1, f[n])
    BY <1>3, <2>1
  <2>4. Folded(text[n + 1]) \in A
    BY <2>1
  <2> HIDE DEF A
  <2> DEFINE g == f[n]  h == f[n + 1]  ch == Folded(text[n + 1])
  <2>5. CASE text[n + 1] \in Separator
    <3>1. h = g
      BY <2>3, <2>5 DEF Then
    <3>2. k # n + 1
      BY <1>1, <1>2, <2>5
    <3> QED BY <2>2, <3>1, <3>2
  <2>6. CASE text[n + 1] \notin Separator
    <3>1. h = Append(g, ch)
      BY <2>3, <2>6 DEF Then
    <3>2. g \in Seq(A) /\ ch \in A
      BY <2>2, <2>4
    <3>3. k = n + 1 => ch = "%"
      BY <1>1, <1>2
    <3>4. k <= n => HasPercent(g)
      BY <2>2
    <3> HIDE DEF g, h, ch
    <3>5. /\ h \in Seq(A) /\ Len(h) = Len(g) + 1 /\ Len(g) \in Nat
          /\ h[Len(g) + 1] = ch /\ \A i \in 1 .. Len(g) : h[i] = g[i]
      BY <3>1, <3>2, AppendProperties
    <3>6. CASE k <= n
      <4>1. PICK i \in 1 .. Len(g) : g[i] = "%"
        BY <3>4, <3>6 DEF HasPercent
      <4>2. i \in 1 .. Len(h) /\ h[i] = "%"
        BY <3>5, <4>1
      <4>3. HasPercent(h)
        BY <4>2 DEF HasPercent
      <4> QED BY <3>5, <4>3 DEF h
    <3>7. CASE k = n + 1
      <4>1. Len(h) \in 1 .. Len(h) /\ h[Len(h)] = "%"
        BY <3>3, <3>5, <3>7
      <4>2. HasPercent(h)
        BY <4>1 DEF HasPercent
      <4> QED BY <3>5, <4>2 DEF h
    <3>8. CASE k > n + 1
      BY <3>5, <3>8 DEF h
    <3> QED BY <3>6, <3>7, <3>8
  <2> QED BY <2>5, <2>6
<1>6. Nat \subseteq S
  <2> HIDE DEF S
  <2> QED BY <1>4, <1>5, SetInduction
<1>7. Good(Len(text))
  <2> HIDE DEF Good
  <2>1. Len(text) \in S
    <3> HIDE DEF S
    <3> QED BY <1>6
  <2> QED BY <2>1
<1> QED BY <1>3, <1>7

\* No text with a percent sign is taken for a code.
LEMMA PercentIsNoCode ==
  ASSUME NEW B, NEW text \in Seq(B), HasPercent(text)
  PROVE  ~parseTrustPassId(text).ok
<1> SUFFICES ASSUME parseTrustPassId(text).ok PROVE FALSE
  OBVIOUS
<1> DEFINE s == normalizeSymbols(text)  w == parseTrustPassId(text).id
<1>1. Len(text) \in Nat
  OBVIOUS
<1>2. PICK A : s \in Seq(A)
  BY <1>1, SymbolsAreText
<1>3. Reads(s, w)
  BY <1>2, ParsedReads
<1>4. HasPercent(s)
  BY <1>1, PercentStays
<1> HIDE DEF s, w
<1>5. PICK k \in 1 .. BodyLength + 4 : s[k] = "%"
  BY <1>3, <1>4 DEF HasPercent, Reads
<1>6. \A i \in 1 .. 37 : CHECK_ALPHABET[i] # "%"
  BY CheckAlphabet
<1>7. "%" \notin Symbol
  <2>1. \A i \in 1 .. 32 : ALPHABET[i] # "%"
    <3> TAKE i \in 1 .. 32
    <3>1. i - 1 \in Digit /\ (i - 1) + 1 = i
      BY DEF Digit
    <3> QED BY <1>6, <3>1, Alphabet
  <2> QED BY <2>1, Alphabet DEF Symbol, ToSet
<1>8. checkSymbol(w) # "%"
  BY <1>3, <1>6, CheckSymbolIs DEF Reads
<1>9. \/ k = 1 \/ k = 2 \/ k = 3 \/ k = BodyLength + 4
      \/ \E i \in 1 .. BodyLength : k = 3 + i
  <2>1. BodyLength \in Nat
    BY PagesAssumption
  <2>2. k \in 4 .. BodyLength + 3 => k - 3 \in 1 .. BodyLength /\ k = 3 + (k - 3)
    BY <2>1
  <2> QED BY <2>1, <2>2
<1> QED BY <1>3, <1>5, <1>7, <1>8, <1>9 DEF Reads

-----------------------------------------------------------------------------
(* The visit *)

Refusals == {"mistyped_trustpass_id", "malformed_trustpass_id", "validation_failed"}

\* What the API answered of a label's product, or what was taken for its answer.
AnswerStands(v, slip, plain, reached, r, response) ==
  \/ reached /\ r \in Record /\ response = [status |-> 200, body |-> PassportOf(v, r)]
  \/ /\ reached /\ (slip \/ ~plain)
     /\ \E code \in Refusals :
          response = [status |-> 422, body |-> Error(code)]
  \/ ~reached /\ response \in Failures

\* What a page says of a record, and no more.
SaysNoMore(page, r, production) ==
  /\ \A c \in DOMAIN page.claims : page.claims[c] = "positive" =>
       c = "issuer" /\ r.issuer = "verified"
  /\ r.status = "suspended" => "product_suspended" \in page.banners
  /\ r.status = "retired" => "product_retired" \in page.banners
  /\ r.issuer = NoIssuer => "no_issuer" \in page.banners /\ ~page.company
  /\ r.issuer \in {"unverified", "suspended"} =>
       page.banners \cap {"issuer_unverified", "issuer_suspended"} # {}
  /\ "negative" \notin page.history
  /\ 2 * page.serial.suffix < r.serial \/ page.serial = NotShown
  /\ production => page.qr \in {"ours", "none"}

PageStands(v, slip, plain, reached, r, production, page) ==
  /\ page.kind # "not_found"
  /\ page.kind = "found" => page.id = v
  /\ reached /\ ~slip /\ plain => page.kind = "found"
  /\ ~reached => page.kind = "unavailable"
  /\ page.kind = "found" => SaysNoMore(page, r, production)

IsTyped ==
  \E v \in Values, manner \in Manner :
    \E text \in {format(v)} \cup Slips(format(v)) :
      visit = [at |-> "typed", label |-> v, text |-> Written(manner, text),
               slip |-> text # format(v),
               plain |-> Asked(Written(manner, text)) = Written(manner, text)]
IsAnswered ==
  /\ visit.at = "answered"
  /\ AnswerStands(visit.label, visit.slip, visit.plain, visit.reached, visit.record,
                  visit.response)
IsShown ==
  /\ visit.at = "shown"
  /\ PageStands(visit.label, visit.slip, visit.plain, visit.reached, visit.record,
                visit.production, visit.page)
IsDownloaded ==
  /\ visit.at = "downloaded"
  /\ visit.qr \in {"ours"} \cup (IF visit.production THEN {} ELSE {visit.host})

\* The inductive invariant: the cache keeps our own address or none, and a visit has come to
\* a text with at most one slip, to the answer that text has, or to the page of that answer.
PagesInv ==
  /\ kept \in {"nothing", "ours"}
  /\ visit = Nobody \/ IsTyped \/ IsAnswered \/ IsShown \/ IsDownloaded

\* An origin is ours, unknown, or outside production the request's host.
LEMMA Origins ==
  ASSUME NEW site \in Site, NEW host \in Host
  PROVE  LET origin == resolvePassportOrigin(site, host)
         IN \/ origin = [kind |-> "configured", base |-> "ours"]
            \/ ~site.production /\ origin = [kind |-> "request", base |-> host]
            \/ origin = Unknown
<1> QED BY DEF resolvePassportOrigin

\* The words of a page.
LEMMA Wording ==
  /\ describeClaim("verified") = "positive"
  /\ \A state : describeClaim(state) = "positive" => state = "verified"
  /\ \A type : describeHistoryEntry(type) # "negative"
<1>1. describeClaim("verified") = "positive"
  BY Zenon DEF describeClaim
<1>2. \A state : describeClaim(state) = "positive" => state = "verified"
  BY Zenon DEF describeClaim
<1>3. \A type : describeHistoryEntry(type) # "negative"
  BY DEF describeHistoryEntry
<1> QED BY <1>1, <1>2, <1>3

\* A warning stands above everything whenever there is a reason for it.
LEMMA Warned ==
  ASSUME NEW p
  PROVE  /\ p.status = "suspended" => "product_suspended" \in Warnings(p)
         /\ p.status = "retired" => "product_retired" \in Warnings(p)
         /\ p.issuer = NoIssuer => "no_issuer" \in Warnings(p)
         /\ p.issuer = "unverified" => "issuer_unverified" \in Warnings(p)
         /\ p.issuer = "suspended" => "issuer_suspended" \in Warnings(p)
<1> DEFINE Reason(b) ==
             CASE b = "product_suspended" -> p.status = "suspended"
               [] b = "product_retired" -> p.status = "retired"
               [] b = "no_issuer" -> p.issuer = NoIssuer
               [] b = "issuer_unverified" -> p.issuer = "unverified"
               [] b = "issuer_suspended" -> p.issuer = "suspended"
           Banners == {"product_suspended", "product_retired", "no_issuer", "issuer_unverified",
                       "issuer_suspended"}
<1>1. /\ p.status = "suspended" => Reason("product_suspended")
      /\ p.status = "retired" => Reason("product_retired")
  BY Zenon
<1>2. /\ p.issuer = NoIssuer => Reason("no_issuer")
      /\ p.issuer = "unverified" => Reason("issuer_unverified")
      /\ p.issuer = "suspended" => Reason("issuer_suspended")
  BY Zenon
<1>3. Warnings(p) = {b \in Banners : Reason(b)}
  BY Zenon DEF Warnings
<1> HIDE DEF Reason
<1> QED BY <1>1, <1>2, <1>3

\* The page of a product's passport.
LEMMA PageOfRecord ==
  ASSUME NEW v, NEW r \in Record, NEW site \in Site, NEW host \in Host
  PROVE  LET page == Passport(PassportOf(v, r), site, host)
         IN page.kind = "found" /\ page.id = v /\ SaysNoMore(page, r, site.production)
<1> DEFINE p == PassportOf(v, r)
           page == Passport(p, site, host)
<1>1. /\ p.id = v /\ p.status = r.status /\ p.issuer = r.issuer
      /\ p.serial = discloseSerial(r.serial) /\ p.claims = computeVerificationClaims(r.issuer)
      /\ p.history = r.history
  BY DEF PassportOf
<1> HIDE DEF p
<1>2. /\ page.kind = "found" /\ page.id = v /\ page.banners = Warnings(p)
      /\ page.claims = [c \in DOMAIN p.claims |-> describeClaim(p.claims[c])]
      /\ page.history = History(p) /\ page.serial = p.serial
      /\ page.company = (p.issuer # NoIssuer) /\ page.qr = PassportQr(site, host)
  BY <1>1 DEF Passport
<1> HIDE DEF page
<1>3. ASSUME NEW c \in DOMAIN page.claims, page.claims[c] = "positive"
      PROVE  c = "issuer" /\ r.issuer = "verified"
  <2>1. c \in DOMAIN p.claims /\ p.claims[c] = "verified"
    BY <1>2, <1>3, Wording
  <2> QED BY <1>1, <2>1 DEF computeVerificationClaims
<1>4. /\ r.status = "suspended" => "product_suspended" \in page.banners
      /\ r.status = "retired" => "product_retired" \in page.banners
      /\ r.issuer = NoIssuer => "no_issuer" \in page.banners /\ ~page.company
      /\ r.issuer \in {"unverified", "suspended"} =>
           page.banners \cap {"issuer_unverified", "issuer_suspended"} # {}
  <2>1. /\ r.status = "suspended" => "product_suspended" \in page.banners
        /\ r.status = "retired" => "product_retired" \in page.banners
        /\ r.issuer = NoIssuer => "no_issuer" \in page.banners
        /\ r.issuer = "unverified" => "issuer_unverified" \in page.banners
        /\ r.issuer = "suspended" => "issuer_suspended" \in page.banners
    BY <1>1, <1>2, Warned
  <2>2. r.issuer = NoIssuer => ~page.company
    BY <1>1, <1>2
  <2> QED BY <2>1, <2>2
<1>5. "negative" \notin page.history
  BY <1>2, Wording DEF History
<1>6. 2 * page.serial.suffix < r.serial \/ page.serial = NotShown
  <2>1. r.serial \in Nat
    BY PagesAssumption DEF Record
  <2>2. page.serial = discloseSerial(r.serial)
    BY <1>1, <1>2
  <2> QED BY <2>1, <2>2 DEF discloseSerial
<1>7. site.production => page.qr \in {"ours", "none"}
  <2>1. page.qr = resolvePassportOrigin(site, host).base
    BY <1>2 DEF PassportQr
  <2> QED BY <2>1, Origins DEF Unknown
<1> QED BY <1>2, <1>3, <1>4, <1>5, <1>6, <1>7 DEF SaysNoMore, page, p

\* By the error's code, and never by the status alone.
LEMMA Outcomes ==
  /\ \A v, r : Outcome([status |-> 200, body |-> PassportOf(v, r)]) = "found"
  /\ Outcome([status |-> 422, body |-> Error("mistyped_trustpass_id")]) = "mistyped"
  /\ Outcome([status |-> 422, body |-> Error("malformed_trustpass_id")]) = "malformed"
  /\ Outcome([status |-> 422, body |-> Error("validation_failed")]) = "unavailable"
  /\ \A response \in Failures : Outcome(response) = "unavailable"
<1> DEFINE By(found, code) ==
             CASE found -> "found"
               [] code = "passport_not_found"     -> "not_found"
               [] code = "mistyped_trustpass_id"  -> "mistyped"
               [] code = "malformed_trustpass_id" -> "malformed"
               [] OTHER -> "unavailable"
           Code(response) ==
             IF response.status \in {404, 422} THEN response.body.error ELSE "none"
           Found(response) == response.status = 200 /\ isPassportView(response.body)
<1>1. /\ By(TRUE, "none") = "found"
      /\ By(FALSE, "mistyped_trustpass_id") = "mistyped"
      /\ By(FALSE, "malformed_trustpass_id") = "malformed"
      /\ \A code \in {"none", "not_found", "validation_failed"} : By(FALSE, code) = "unavailable"
  BY Zenon
<1>2. \A response : Outcome(response) = By(Found(response), Code(response))
  BY Zenon DEF Outcome
<1> HIDE DEF By
<1>3. ASSUME NEW v, NEW r
      PROVE  LET response == [status |-> 200, body |-> PassportOf(v, r)]
             IN Found(response) = TRUE /\ Code(response) = "none"
  BY DEF isPassportView, PassportOf
<1>4. ASSUME NEW code
      PROVE  LET response == [status |-> 422, body |-> Error(code)]
             IN Found(response) = FALSE /\ Code(response) = code
  BY DEF Error
<1>5. ASSUME NEW response \in Failures
      PROVE  Found(response) = FALSE /\ Code(response) \in {"none", "not_found"}
  BY DEF Failures, isPassportView, NoBody, Error
<1> HIDE DEF Found, Code
<1>6. ASSUME NEW v, NEW r
      PROVE  Outcome([status |-> 200, body |-> PassportOf(v, r)]) = "found"
  <2> DEFINE response == [status |-> 200, body |-> PassportOf(v, r)]
  <2>1. Found(response) = TRUE /\ Code(response) = "none"
    BY <1>3
  <2> HIDE DEF response
  <2>2. Outcome(response) = "found"
    BY <1>1, <1>2, <2>1, Zenon
  <2> QED BY <2>2 DEF response
<1>7. ASSUME NEW code
      PROVE  Outcome([status |-> 422, body |-> Error(code)]) = By(FALSE, code)
  <2> DEFINE response == [status |-> 422, body |-> Error(code)]
  <2>1. Found(response) = FALSE /\ Code(response) = code
    BY <1>4
  <2> HIDE DEF response
  <2>2. Outcome(response) = By(FALSE, code)
    BY <1>2, <2>1, Zenon
  <2> QED BY <2>2 DEF response
<1>8. ASSUME NEW response \in Failures PROVE Outcome(response) = "unavailable"
  <2>1. Found(response) = FALSE /\ Code(response) \in {"none", "not_found"}
    BY <1>5
  <2> QED BY <1>1, <1>2, <2>1, Zenon
<1> QED BY <1>1, <1>6, <1>7, <1>8

\* The page of an answer.
LEMMA PageOfAnswer ==
  ASSUME NEW v, NEW slip, NEW reached, NEW r, NEW response,
         NEW plain, AnswerStands(v, slip, plain, reached, r, response),
         NEW site \in Site, NEW host \in Host
  PROVE  PageStands(v, slip, plain, reached, r, site.production,
                    PassportPage(response, site, host))
<1> DEFINE page == PassportPage(response, site, host)
<1>1. CASE reached /\ r \in Record /\ response = [status |-> 200, body |-> PassportOf(v, r)]
  <2>1. page = Passport(PassportOf(v, r), site, host)
    BY <1>1, Outcomes DEF PassportPage
  <2> QED BY <1>1, <2>1, PageOfRecord DEF PageStands
<1>2. CASE /\ reached /\ (slip \/ ~plain)
           /\ \E code \in Refusals : response = [status |-> 422, body |-> Error(code)]
  <2>1. Outcome(response) \in {"mistyped", "malformed", "unavailable"}
    BY <1>2, Outcomes DEF Refusals
  <2>2. page.kind \in {"mistyped", "malformed", "unavailable"}
    BY <2>1 DEF PassportPage, Words
  <2> QED BY <1>2, <2>2 DEF PageStands
<1>3. CASE ~reached /\ response \in Failures
  <2>1. Outcome(response) = "unavailable"
    BY <1>3, Outcomes
  <2>2. page.kind = "unavailable"
    BY <2>1 DEF PassportPage, Words
  <2> QED BY <1>3, <2>2 DEF PageStands
<1> QED BY <1>1, <1>2, <1>3 DEF AnswerStands

\* The answer of a text: refused, or the passport of what it names.
LEMMA AnswerOf ==
  ASSUME NEW text, Len(text) \in Nat, NEW found, NEW r
  PROVE  LET p == parseTrustPassId(text)  answer == Answer(text, found, r)
         IN /\ answer.status \in {200, 404} <=> Len(text) <= 64 /\ p.ok
            /\ answer.status = 404 => p.id \notin found
            /\ answer.status = 200 => /\ p.id \in found
                                      /\ answer = [status |-> 200, body |-> PassportOf(p.id, r)]
            /\ answer.status \notin {200, 404} =>
                 \E code \in Refusals :
                   answer = [status |-> 422, body |-> Error(code)]
<1> DEFINE p == parseTrustPassId(text)  answer == Answer(text, found, r)
           mistyped == p.error = "checksum_mismatch"
           body == PassportOf(p.id, r)
<1>1. answer = IF Len(text) > 64
               THEN [status |-> 422, body |-> Error("validation_failed")]
               ELSE IF ~p.ok
               THEN [status |-> 422,
                     body |-> Error(IF mistyped
                                    THEN "mistyped_trustpass_id" ELSE "malformed_trustpass_id")]
               ELSE IF p.id \in found THEN [status |-> 200, body |-> body]
               ELSE [status |-> 404, body |-> Error("passport_not_found")]
  BY DEF Answer
<1> HIDE DEF p, answer, mistyped, body
<1>2. CASE Len(text) > 64
  <2>1. answer = [status |-> 422, body |-> Error("validation_failed")] /\ ~(Len(text) <= 64)
    BY <1>1, <1>2
  <2> QED BY <2>1 DEF p, answer, Refusals
<1>3. CASE ~(Len(text) > 64) /\ ~p.ok
  <2>1. \E code \in Refusals : answer = [status |-> 422, body |-> Error(code)]
    BY <1>1, <1>3 DEF Refusals
  <2>2. answer.status = 422
    BY <2>1
  <2> QED BY <1>3, <2>1, <2>2 DEF p, answer
<1>4. CASE ~(Len(text) > 64) /\ p.ok /\ p.id \in found
  <2>1. answer = [status |-> 200, body |-> body] /\ Len(text) <= 64
    BY <1>1, <1>4
  <2>2. answer.status = 200
    BY <2>1
  <2> QED BY <1>4, <2>1, <2>2 DEF p, answer, body
<1>5. CASE ~(Len(text) > 64) /\ p.ok /\ p.id \notin found
  <2>1. answer.status = 404 /\ Len(text) <= 64
    BY <1>1, <1>5
  <2> QED BY <1>5, <2>1 DEF p, answer
<1> QED BY <1>2, <1>3, <1>4, <1>5

\* What the API is asked for when a code is read with at most one slip is refused or taken
\* for that code; without one, and plain, it is taken for it.
LEMMA AskedReads ==
  ASSUME NEW v \in Value, NEW manner \in Manner, NEW text \in {format(v)} \cup Slips(format(v))
  PROVE  LET read == Written(manner, text)  asked == Asked(read)  p == parseTrustPassId(asked)
         IN /\ Len(asked) \in Nat
            /\ p.ok => p.id = v
            /\ ~(text # format(v)) /\ asked = read => p.ok /\ Len(asked) <= 64
<1> DEFINE read == Written(manner, text)
           asked == Asked(read)
           p == parseTrustPassId(asked)
<1>1. PICK A : read \in Seq(A)
  <2>1. text \in Seq(Typeable) /\ Len(text) >= 9
    BY SlipIsText
  <2> QED BY <2>1, WrittenAlike
<1>2. /\ parseTrustPassId(read).ok => parseTrustPassId(read).id = v
      /\ text = format(v) => parseTrustPassId(read).ok /\ Len(read) <= 64
  BY OneSlip
<1> HIDE DEF read
<1>3. PICK B : asked \in Seq(B)
  BY <1>1, AskedIs
<1>4. asked = read \/ HasPercent(asked)
  BY <1>1, AskedIs
<1> HIDE DEF asked
<1>5. HasPercent(asked) => ~p.ok
  BY <1>3, PercentIsNoCode
<1>6. Len(asked) \in Nat
  BY <1>3
<1>7. asked = read => p = parseTrustPassId(read)
  OBVIOUS
<1>8. p.ok => p.id = v
  BY <1>2, <1>4, <1>5, <1>7
<1>9. text = format(v) /\ asked = read => p.ok /\ Len(asked) <= 64
  BY <1>2, <1>7
<1> QED BY <1>6, <1>8, <1>9 DEF asked, read

\* A text with at most one slip is answered as it should be, by the API or not.
LEMMA FetchKeeps == PagesInv /\ Fetch => PagesInv'
<1> SUFFICES ASSUME PagesInv, Fetch PROVE PagesInv'
  OBVIOUS
<1>1. visit.at = "typed" /\ kept' = kept /\ kept \in {"nothing", "ours"}
  BY DEF PagesInv, Fetch
<1>2. PICK v \in Values, manner \in Manner :
        \E text \in {format(v)} \cup Slips(format(v)) :
          visit = [at |-> "typed", label |-> v, text |-> Written(manner, text),
                   slip |-> text # format(v),
                   plain |-> Asked(Written(manner, text)) = Written(manner, text)]
  <2>1. ~(visit = Nobody) /\ ~IsAnswered /\ ~IsShown /\ ~IsDownloaded
    BY <1>1 DEF Nobody, IsAnswered, IsShown, IsDownloaded
  <2> QED BY <2>1 DEF PagesInv, IsTyped
<1>3. PICK text \in {format(v)} \cup Slips(format(v)) :
        visit = [at |-> "typed", label |-> v, text |-> Written(manner, text),
                 slip |-> text # format(v),
                 plain |-> Asked(Written(manner, text)) = Written(manner, text)]
  BY <1>2
<1> DEFINE read == Written(manner, text)
           asked == Asked(read)
           p == parseTrustPassId(asked)
           slip == text # format(v)
           plain == asked = read
<1>4. v \in Value
  BY PagesAssumption DEF Value
<1>5. /\ Len(asked) \in Nat
      /\ (p.ok => p.id = v) /\ (~slip /\ plain => p.ok /\ Len(asked) <= 64)
  BY <1>4, AskedReads
<1>6. visit.label = v /\ visit.text = read /\ visit.slip = slip /\ visit.plain = plain
  BY <1>3
<1>7. asked = Asked(read)
  OBVIOUS
<1> HIDE DEF read, asked, p, slip, plain
<1>8. ASSUME NEW response, NEW reached, NEW r, Answered(response, reached, r),
             AnswerStands(v, slip, plain, reached, r, response)
      PROVE  PagesInv'
  <2>1. visit' = [at |-> "answered", label |-> v, slip |-> slip, plain |-> plain,
                  response |-> response, reached |-> reached, record |-> r]
    BY <1>6, <1>8 DEF Answered
  <2>2. IsAnswered'
    <3>1. /\ visit'.at = "answered" /\ visit'.label = v /\ visit'.slip = slip
          /\ visit'.plain = plain /\ visit'.response = response /\ visit'.reached = reached /\ visit'.record = r
      BY <2>1
    <3>2. AnswerStands(visit'.label, visit'.slip, visit'.plain, visit'.reached,
                       visit'.record, visit'.response)
      BY <1>8, <3>1
    <3> QED BY <3>1, <3>2 DEF IsAnswered
  <2> QED BY <1>1, <2>2 DEF PagesInv
<1> DEFINE unread == Answer(asked, {}, NoRecord)
<1>9. /\ unread.status \in {200, 404} <=> Len(asked) <= 64 /\ p.ok
      /\ unread.status # 200
      /\ unread.status \notin {200, 404} =>
           \E code \in Refusals : unread = [status |-> 422, body |-> Error(code)]
  BY <1>5, AnswerOf DEF p
<1>10. CASE unread.status # 404 /\ Answered(unread, TRUE, NoRecord)
  <2> HIDE DEF unread
  <2>1. slip \/ ~plain
    BY <1>5, <1>9, <1>10
  <2>2. AnswerStands(v, slip, plain, TRUE, NoRecord, unread)
    BY <1>9, <1>10, <2>1 DEF AnswerStands
  <2> QED BY <1>8, <1>10, <2>2
<1>11. ASSUME NEW r \in Record, unread.status = 404, Answered(Answer(asked, Values, r), TRUE, r)
       PROVE  PagesInv'
  <2> DEFINE answer == Answer(asked, Values, r)
  <2>1. Len(asked) <= 64 /\ p.ok /\ p.id = v
    BY <1>5, <1>9, <1>11
  <2>2. /\ answer.status \in {200, 404} <=> Len(asked) <= 64 /\ p.ok
        /\ answer.status = 404 => p.id \notin Values
        /\ answer.status = 200 => answer = [status |-> 200, body |-> PassportOf(p.id, r)]
    BY <1>5, AnswerOf DEF p
  <2> HIDE DEF answer
  <2>3. answer = [status |-> 200, body |-> PassportOf(v, r)]
    BY <2>1, <2>2
  <2>4. AnswerStands(v, slip, plain, TRUE, r, answer)
    BY <2>3 DEF AnswerStands
  <2> QED BY <1>8, <1>11, <2>4 DEF answer
<1>12. ASSUME NEW response \in Failures, Answered(response, FALSE, NoRecord)
       PROVE  PagesInv'
  <2>1. AnswerStands(v, slip, plain, FALSE, NoRecord, response)
    BY DEF AnswerStands
  <2> QED BY <1>8, <1>12, <2>1
<1>13. \/ unread.status # 404 /\ Answered(unread, TRUE, NoRecord)
       \/ unread.status = 404 /\ \E r \in Record : Answered(Answer(asked, Values, r), TRUE, r)
       \/ \E response \in Failures : Answered(response, FALSE, NoRecord)
  BY <1>6, <1>7 DEF Fetch
<1> QED BY <1>10, <1>11, <1>12, <1>13

\* The page says what was answered.
LEMMA RenderKeeps == PagesInv /\ Render => PagesInv'
<1> SUFFICES ASSUME PagesInv, Render PROVE PagesInv'
  OBVIOUS
<1>1. visit.at = "answered" /\ kept' = kept /\ kept \in {"nothing", "ours"}
  BY DEF PagesInv, Render
<1>2. IsAnswered
  <2>1. ~(visit = Nobody) /\ ~IsTyped /\ ~IsShown /\ ~IsDownloaded
    BY <1>1 DEF Nobody, IsTyped, IsShown, IsDownloaded
  <2> QED BY <2>1 DEF PagesInv
<1>3. PICK site \in Site, host \in Host :
        visit' = [at |-> "shown", production |-> site.production,
                  label |-> visit.label, slip |-> visit.slip, plain |-> visit.plain,
                  reached |-> visit.reached, record |-> visit.record,
                  page |-> PassportPage(visit.response, site, host)]
  BY DEF Render
<1> DEFINE page == PassportPage(visit.response, site, host)
<1>4. PageStands(visit.label, visit.slip, visit.plain, visit.reached, visit.record,
                 site.production, page)
  BY <1>2, PageOfAnswer DEF IsAnswered
<1> HIDE DEF page
<1>5. IsShown'
  <2>1. /\ visit'.at = "shown" /\ visit'.production = site.production
        /\ visit'.label = visit.label /\ visit'.slip = visit.slip
        /\ visit'.plain = visit.plain /\ visit'.reached = visit.reached
        /\ visit'.record = visit.record /\ visit'.page = page
    BY <1>3 DEF page
  <2>2. PageStands(visit'.label, visit'.slip, visit'.plain, visit'.reached, visit'.record,
                   visit'.production, visit'.page)
    BY <1>4, <2>1
  <2> QED BY <2>1, <2>2 DEF IsShown
<1> QED BY <1>1, <1>5 DEF PagesInv

\* What is downloaded, and what is kept of it.
LEMMA DownloadKeeps == PagesInv /\ Download => PagesInv'
<1> SUFFICES ASSUME PagesInv, Download PROVE PagesInv'
  OBVIOUS
<1>1. PICK site \in Site, host \in Host :
        LET origin == resolvePassportOrigin(site, host)
        IN /\ origin # Unknown
           /\ kept' = IF cacheControlFor(origin) = "no_store" THEN kept ELSE origin.base
           /\ visit' = [at |-> "downloaded", production |-> site.production, host |-> host,
                        qr |-> origin.base]
  BY DEF Download
<1> DEFINE origin == resolvePassportOrigin(site, host)
<1>2. \/ origin = [kind |-> "configured", base |-> "ours"]
      \/ ~site.production /\ origin = [kind |-> "request", base |-> host]
  BY <1>1, Origins
<1>3. /\ kept' = IF cacheControlFor(origin) = "no_store" THEN kept ELSE origin.base
      /\ visit' = [at |-> "downloaded", production |-> site.production, host |-> host,
                   qr |-> origin.base]
  BY <1>1
<1> HIDE DEF origin
<1>4. kept' \in {"nothing", "ours"}
  BY <1>2, <1>3 DEF PagesInv, cacheControlFor
<1>5. IsDownloaded'
  <2>1. /\ visit'.at = "downloaded" /\ visit'.production = site.production
        /\ visit'.host = host /\ visit'.qr = origin.base
    BY <1>3
  <2>2. origin.base = "ours" \/ (~site.production /\ origin.base = host)
    BY <1>2
  <2> QED BY <2>1, <2>2 DEF IsDownloaded
<1> QED BY <1>4, <1>5 DEF PagesInv

\* Every other step begins or ends a visit.
LEMMA PagesNextKeeps == PagesInv /\ [PagesNext]_vars => PagesInv'
<1> SUFFICES ASSUME PagesInv, [PagesNext]_vars PROVE PagesInv'
  OBVIOUS
<1>1. kept \in {"nothing", "ours"}
  BY DEF PagesInv
<1>2. CASE Type
  <2>1. IsTyped' /\ kept' = kept
    BY <1>2 DEF Type, IsTyped
  <2> QED BY <1>1, <2>1 DEF PagesInv
<1>3. CASE Fetch
  BY <1>3, FetchKeeps
<1>4. CASE Render
  BY <1>4, RenderKeeps
<1>5. CASE Leave \/ Done
  BY <1>1, <1>5 DEF PagesInv, Leave, Done, Nobody
<1>6. CASE Download
  BY <1>6, DownloadKeeps
<1>7. CASE DownloadKept
  <2>1. kept = "ours" /\ kept' = kept /\ visit'.at = "downloaded" /\ visit'.qr = kept
    BY <1>1, <1>7 DEF DownloadKept
  <2>2. IsDownloaded'
    BY <2>1 DEF IsDownloaded
  <2> QED BY <1>1, <2>1, <2>2 DEF PagesInv
<1>8. CASE UNCHANGED vars
  BY <1>8 DEF PagesInv, IsTyped, IsAnswered, IsShown, IsDownloaded, vars
<1> QED BY <1>2, <1>3, <1>4, <1>5, <1>6, <1>7, <1>8 DEF PagesNext

\* A visit has come to a text with at most one slip, to the answer that text has, or to the page of
\* that answer; and what a shared cache keeps names our own address.
THEOREM PagesInvariance == PagesSpec => []PagesInv
<1>1. PagesInit => PagesInv
  BY DEF PagesInit, PagesInv, Nobody
<1> QED BY <1>1, PagesNextKeeps, PTL DEF PagesSpec

\* No slip of the hand, no manner of writing, no escape of an address and no answer that did
\* not come makes a page deny a product that is registered, or show another's, whatever the
\* value of the label; and a code of plain characters, read without a slip, is found.
THEOREM NobodyIsAccused == PagesSpec => []NoFalseAccusation
<1>1. PagesInv => NoFalseAccusation
  <2> SUFFICES ASSUME PagesInv, Shown PROVE NoFalseAccusation
    BY DEF NoFalseAccusation
  <2>1. IsShown
    BY DEF PagesInv, Shown, Nobody, IsTyped, IsAnswered, IsShown, IsDownloaded
  <2> QED BY <2>1 DEF NoFalseAccusation, IsShown, PageStands
<1> QED BY <1>1, PagesInvariance, PTL

\* Nothing on a page is louder than the record it was read from, and no QR names an address
\* that is neither configured nor that of the request it answers.
THEOREM PagesSayNoMore == PagesSpec => []NothingBeyondTheRecord
<1>1. PagesInv => NothingBeyondTheRecord
  <2> SUFFICES ASSUME PagesInv PROVE NothingBeyondTheRecord
    OBVIOUS
  <2>1. CASE visit = Nobody \/ IsTyped \/ IsAnswered
    BY <2>1 DEF NothingBeyondTheRecord, Shown, Nobody, IsTyped, IsAnswered
  <2>2. CASE IsShown
    <3>1. visit.at = "shown"
      BY <2>2 DEF IsShown
    <3>2. visit.page.kind = "found" => SaysNoMore(visit.page, visit.record, visit.production)
      BY <2>2 DEF IsShown, PageStands
    <3> QED BY <3>1, <3>2 DEF NothingBeyondTheRecord, SaysNoMore
  <2>3. CASE IsDownloaded
    BY <2>3 DEF NothingBeyondTheRecord, Shown, IsDownloaded
  <2> QED BY <2>1, <2>2, <2>3 DEF PagesInv
<1> QED BY <1>1, PagesInvariance, PTL
=============================================================================
