-------------------------- MODULE RateLimiterProofs --------------------------
(***************************************************************************)
(* What the limiter promises for every burst, rate and threshold, any      *)
(* number of callers, and any rounding its assumptions allow. The one      *)
(* invariant behind all of it compares a bucket with the allowance its     *)
(* caller would have if it were filled tick by tick, and an instant        *)
(* somebody was told with what will be there a tick later.                 *)
(***************************************************************************)
EXTENDS RateLimiter, TLAPS

\* What somebody was told stands: by the tick after that instant a token will
\* be there, whatever rounding takes from every tick until then.
ToldIsTrue(k) ==
  \/ told[k] = Never
  \/ /\ k \notin Stalled
     /\ Tokens(k) + Greatest(0, told[k] + 1 - clock) * (Rate - Slip) >= Unit

LimiterInv ==
  /\ LimiterTypeOK
  /\ \A k \in Key : allowance[k] >= Tokens(k)
  /\ \A k \in Key : ToldIsTrue(k)

-----------------------------------------------------------------------------
(***************************************************************************)
(* Arithmetic.                                                             *)
(***************************************************************************)

\* The constants are what the arithmetic takes them for.
LEMMA Quantities ==
  /\ Unit \in Nat /\ Unit > 0 /\ Rate \in Nat /\ Rate > 0
  /\ Second \in Nat /\ Second > 0 /\ Burst \in Nat /\ Burst > 0
  /\ FullRefill \in Nat /\ FullRefill > 0 /\ MaxWait \in Nat /\ MaxWait > 0
  /\ Full \in Nat /\ Full >= Unit /\ MaxClock \in Nat /\ Slip \in Nat
  /\ Second * MaxWait \in Nat /\ Never \in Nat /\ MaxClock < Never
  /\ Rate - Slip \in Nat
  /\ Level \subseteq 0 .. Full /\ Full \in Level
<1>1. /\ Unit \in Nat /\ Unit > 0 /\ Rate \in Nat /\ Rate > 0
      /\ Second \in Nat /\ Second > 0 /\ Burst \in Nat /\ Burst > 0
      /\ FullRefill \in Nat /\ FullRefill > 0 /\ MaxWait \in Nat /\ MaxWait > 0
      /\ MaxClock \in Nat /\ Slip \in Nat
  BY LimiterAssumption
<1>2. \A x, y \in Nat : x > 0 => x * y \in Nat /\ x * y >= y
  BY SMT
<1>3. Full \in Nat /\ Full >= Unit
  BY <1>1, <1>2 DEF Full
<1>4. Second * MaxWait \in Nat
  BY <1>1, <1>2
<1>5. Rate - Slip \in Nat
  <2>1. (Second * MaxWait + 2) * Slip <= Rate
    BY WaitAssumption
  <2>2. Second * MaxWait + 2 \in Nat /\ Second * MaxWait + 2 > 0
    BY <1>4
  <2>3. (Second * MaxWait + 2) * Slip >= Slip
    BY <1>1, <1>2, <2>2
  <2> QED BY <1>1, <2>1, <2>2, <2>3
<1>6. Level \subseteq 0 .. Full /\ Full \in Level
  BY RoundingAssumption DEF Level
<1> QED BY <1>1, <1>3, <1>4, <1>5, <1>6 DEF Never

\* What a bucket holds some ticks later, and a tick after that.
LEMMA Filling ==
  ASSUME NEW t \in Level, NEW d \in 0 .. MaxClock
  PROVE  /\ Filled(t, d) \in Level /\ Filled(t, d) \in 0 .. Full
         /\ Filled(t, 0) = t
         /\ d >= FullRefill => Filled(t, d) = Full
         /\ \A e \in 0 .. d : Filled(t, e) <= Filled(t, d)
         /\ d < MaxClock =>
              /\ Filled(t, d) <= Filled(t, d + 1)
              /\ Filled(t, d + 1) <= Filled(t, d) + Rate + Slip
              /\ Least(Full, Filled(t, d) + Rate - Slip) <= Filled(t, d + 1)
<1>1. /\ Filled(t, d) \in Level
      /\ d >= FullRefill => Filled(t, d) = Full
      /\ \A e \in 0 .. d : Filled(t, e) <= Filled(t, d)
  BY RoundingAssumption
<1>2. Filled(t, 0) = t
  <2>1. 0 \in 0 .. MaxClock
    BY Quantities
  <2> QED BY <2>1, RoundingAssumption
<1>3. Filled(t, d) \in 0 .. Full
  BY <1>1, Quantities
<1>4. ASSUME d < MaxClock
      PROVE  /\ Filled(t, d) <= Filled(t, d + 1)
             /\ Filled(t, d + 1) <= Filled(t, d) + Rate + Slip
             /\ Least(Full, Filled(t, d) + Rate - Slip) <= Filled(t, d + 1)
  <2>1. d \in 0 .. MaxClock - 1 /\ d + 1 \in 0 .. MaxClock /\ d \in 0 .. d + 1
    BY <1>4, Quantities
  <2> QED BY <2>1, RoundingAssumption
<1> QED BY <1>1, <1>2, <1>3, <1>4

\* Math.ceil: the wait named in a refusal is the first whole number of seconds
\* after which a token is there, but for rounding; and a tick later one is.
LEMMA TheWait ==
  ASSUME NEW tokens \in 0 .. Unit - 1
  PROVE  /\ RetryAfter(tokens) \in 1 .. MaxWait
         /\ Second * RetryAfter(tokens) \in 0 .. Second * MaxWait
         /\ tokens + Rate * (Second * RetryAfter(tokens)) + Slip >= Unit
         /\ \A n \in 1 .. RetryAfter(tokens) - 1 : tokens + Rate * (Second * n) < Unit + Slip
         /\ tokens + (Second * RetryAfter(tokens) + 1) * (Rate - Slip) >= Unit
<1> DEFINE missing == Unit - tokens
           w == RetryAfter(tokens)
           x == Second * w
<1>1. missing \in 1 .. Unit /\ missing \in Nat /\ tokens = Unit - missing
  BY Quantities
<1>2. w = Greatest(1, Seconds(missing))
  BY DEF RetryAfter
<1>3. /\ w \in 1 .. MaxWait
      /\ missing <= Rate * (Second * w) + Slip
      /\ \A n \in 1 .. w - 1 : Rate * (Second * n) < missing + Slip
  <2> HIDE DEF missing, w
  <2> QED BY <1>1, <1>2, WaitAssumption
<1> HIDE DEF missing, w
<1>4. \A a, b \in Nat : a * b \in Nat
  BY SMT
<1>5. \A a, b, c \in Nat : a <= b => c * a <= c * b
  BY SMT
<1>6. x \in 0 .. Second * MaxWait
  BY <1>3, <1>4, <1>5, Quantities
<1>7. Rate * x \in Nat /\ \A n \in 1 .. w - 1 : Rate * (Second * n) \in Nat
  BY <1>3, <1>4, <1>6, Quantities
<1> HIDE DEF x
<1>8. tokens + Rate * x + Slip >= Unit
  BY <1>1, <1>3, <1>7, Quantities DEF x
<1>9. \A n \in 1 .. w - 1 : tokens + Rate * (Second * n) < Unit + Slip
  BY <1>1, <1>3, <1>7, Quantities
<1>10. (x + 2) * Slip <= Rate
  <2>1. (Second * MaxWait + 2) * Slip <= Rate
    BY WaitAssumption
  <2>2. \A a, b, c \in Nat : a <= b => a * c <= b * c
    BY SMT
  <2>3. (x + 2) * Slip <= (Second * MaxWait + 2) * Slip
    <3>1. x + 2 \in Nat /\ Second * MaxWait + 2 \in Nat /\ x + 2 <= Second * MaxWait + 2
      BY <1>6, Quantities
    <3> QED BY <2>2, <3>1, Quantities
  <2>4. (x + 2) * Slip \in Nat /\ (Second * MaxWait + 2) * Slip \in Nat
    BY <1>4, <1>6, Quantities
  <2> QED BY <2>1, <2>3, <2>4, Quantities
<1>11. tokens + (x + 1) * (Rate - Slip) >= Unit
  <2>1. \A a, r, s \in Nat : (a + 1) * (r - s) = r * a + r - (a + 2) * s + s
    BY SMT
  <2>2. (x + 1) * (Rate - Slip) = Rate * x + Rate - (x + 2) * Slip + Slip
    BY <1>6, <2>1, Quantities
  <2>3. (x + 2) * Slip \in Nat
    BY <1>4, <1>6, Quantities
  <2> QED BY <1>1, <1>7, <1>8, <1>10, <2>2, <2>3, Quantities
<1> QED BY <1>3, <1>6, <1>8, <1>9, <1>11 DEF w, x

-----------------------------------------------------------------------------
(***************************************************************************)
(* The invariant.                                                          *)
(***************************************************************************)

\* The tokens of every caller are a double, from none to a full bucket.
LEMMA TokensInBounds ==
  ASSUME LimiterTypeOK, NEW k \in Key
  PROVE  Tokens(k) \in Level /\ Tokens(k) \in 0 .. Full
<1>1. CASE k \in Kept
  <2>1. /\ buckets[k].tokens \in Level
        /\ buckets[k].lastRefill \in 0 .. MaxClock
        /\ clock \in 0 .. MaxClock
    BY <1>1 DEF LimiterTypeOK, Bucket
  <2>2. Greatest(0, clock - buckets[k].lastRefill) \in 0 .. MaxClock
    BY <2>1, Quantities DEF Greatest
  <2> QED BY <1>1, <2>1, <2>2, Filling DEF Tokens, Refill
<1>2. CASE k \notin Kept
  BY <1>2, Quantities DEF Tokens
<1> QED BY <1>1, <1>2

\* prune drops buckets that are full, and changes no other: after a check,
\* everybody else has the tokens they had, and the caller what was put back.
LEMMA KeepLeavesOthers ==
  ASSUME LimiterTypeOK, NEW k \in Key, NEW n \in Level,
         Keep(k, n), clock' = clock
  PROVE  /\ buckets' \in [Kept' -> Bucket] /\ Kept' \subseteq Key
         /\ Tokens(k)' = n
         /\ \A j \in Key \ {k} : Tokens(j)' = Tokens(j)
         /\ \A j \in Kept' \ {k} : j \in Kept /\ buckets'[j] = buckets[j]
         /\ k \in Kept' => buckets'[k] = [tokens |-> n, lastRefill |-> clock]
<1> DEFINE set == [j \in Kept \cup {k} |->
                     IF j = k THEN [tokens |-> n, lastRefill |-> clock] ELSE buckets[j]]
           over == Cardinality(DOMAIN set) > PruneAbove
           left == {j \in DOMAIN set : ~ (over /\ RefilledSince(set[j]))}
<1>1. buckets' = [j \in left |-> set[j]]
  BY DEF Keep
<1>2. DOMAIN set = Kept \cup {k}
  OBVIOUS
<1>3. left \subseteq Kept \cup {k} /\ Kept' = left
  BY <1>1 DEF Kept
<1>4. clock \in 0 .. MaxClock /\ [tokens |-> n, lastRefill |-> clock] \in Bucket
  BY DEF LimiterTypeOK, Bucket
<1>5. \A j \in Kept \cup {k} : set[j] \in Bucket
  BY <1>4 DEF LimiterTypeOK
<1>6. /\ set[k] = [tokens |-> n, lastRefill |-> clock]
      /\ \A j \in Kept \ {k} : set[j] = buckets[j]
  OBVIOUS
<1>7. \A j \in (Kept \cup {k}) \ left : RefilledSince(set[j])
  BY <1>2
<1> HIDE DEF set, over, left
<1>8. \A j \in left : buckets'[j] = set[j]
  BY <1>1
<1>9. buckets' \in [Kept' -> Bucket] /\ Kept' \subseteq Key
  BY <1>1, <1>3, <1>5 DEF LimiterTypeOK
<1>10. k \in left
  <2>1. SUFFICES ASSUME k \notin left PROVE FALSE
    OBVIOUS
  <2>2. RefilledSince(set[k])
    BY <1>7, <2>1
  <2>3. clock - clock >= FullRefill
    BY <1>6, <2>2 DEF RefilledSince
  <2> QED BY <1>4, <2>3, Quantities
<1>11. Tokens(k)' = n
  <2>1. Tokens(k)' = Refill(buckets[k])'
    BY <1>3, <1>10 DEF Tokens
  <2>2. Refill(buckets[k])' = Filled(n, Greatest(0, clock - clock))
    BY <1>6, <1>8, <1>10 DEF Refill
  <2>3. Greatest(0, clock - clock) = 0
    BY <1>4, Quantities DEF Greatest
  <2> QED BY <1>4, <2>1, <2>2, <2>3, Filling
<1>12. ASSUME NEW j \in Key \ {k} PROVE Tokens(j)' = Tokens(j)
  <2>1. CASE j \in left
    <3>1. j \in Kept /\ buckets'[j] = buckets[j]
      BY <1>3, <1>6, <1>8, <2>1
    <3> QED BY <1>3, <2>1, <3>1 DEF Tokens, Refill
  <2>2. CASE j \in Kept \ left
    <3>1. RefilledSince(buckets[j])
      BY <1>6, <1>7, <2>2
    <3>2. /\ buckets[j].tokens \in Level
          /\ buckets[j].lastRefill \in 0 .. MaxClock
      BY <2>2 DEF LimiterTypeOK, Bucket
    <3> DEFINE d == clock - buckets[j].lastRefill
    <3>3. d \in 0 .. MaxClock /\ d >= FullRefill /\ Greatest(0, d) = d
      BY <1>4, <3>1, <3>2, Quantities DEF RefilledSince, Greatest
    <3>4. Refill(buckets[j]) = Full
      BY <3>2, <3>3, Filling DEF Refill
    <3> QED BY <1>3, <2>2, <3>4 DEF Tokens
  <2>3. CASE j \notin Kept /\ j \notin left
    BY <1>3, <2>3 DEF Tokens
  <2> QED BY <1>3, <2>1, <2>2, <2>3
<1> QED BY <1>3, <1>6, <1>8, <1>9, <1>10, <1>11, <1>12

\* Time fills every bucket, by about one Rate; a clock set back fills none.
LEMMA TokensFollowTheClock ==
  ASSUME LimiterTypeOK, UNCHANGED buckets, clock' \in 0 .. MaxClock, NEW k \in Key
  PROVE  /\ Tokens(k)' \in 0 .. Full
         /\ clock' = clock + 1 =>
              /\ Tokens(k) <= Tokens(k)'
              /\ Tokens(k)' <= Least(Full, Tokens(k) + Rate + Slip)
         /\ (clock' = clock + 1 /\ k \notin Stalled)
              => Least(Full, Tokens(k) + Rate - Slip) <= Tokens(k)'
         /\ (clock' = clock + 1 /\ k \in Stalled) => Tokens(k)' = Tokens(k)
         /\ clock' <= clock => Tokens(k)' <= Tokens(k)
<1>1. CASE k \in Kept
  <2> DEFINE t == buckets[k].tokens
             l == buckets[k].lastRefill
             d == Greatest(0, clock - l)
             e == Greatest(0, clock' - l)
  <2>1. t \in Level /\ l \in 0 .. MaxClock /\ clock \in 0 .. MaxClock
    BY <1>1 DEF LimiterTypeOK, Bucket
  <2>2. Tokens(k) = Filled(t, d) /\ Tokens(k)' = Filled(t, e)
    BY <1>1 DEF Tokens, Refill, Kept
  <2>3. k \in Stalled <=> l > clock
    BY <1>1 DEF Stalled
  <2>4. /\ d \in 0 .. MaxClock /\ e \in 0 .. MaxClock
        /\ (clock' = clock + 1 /\ l <= clock) => e = d + 1 /\ d < MaxClock
        /\ (clock' = clock + 1 /\ l > clock) => e = d
        /\ clock' <= clock => e \in 0 .. d
    BY <2>1, Quantities DEF Greatest
  <2> HIDE DEF t, d, e, l
  <2>5. /\ Filled(t, d) \in 0 .. Full /\ Filled(t, e) \in 0 .. Full
        /\ e \in 0 .. d => Filled(t, e) <= Filled(t, d)
        /\ (e = d + 1 /\ d < MaxClock) =>
              /\ Filled(t, d) <= Filled(t, e)
              /\ Filled(t, e) <= Filled(t, d) + Rate + Slip
              /\ Least(Full, Filled(t, d) + Rate - Slip) <= Filled(t, e)
    BY <2>1, <2>4, Filling
  <2>6. l \in Int /\ clock \in Int
    BY <2>1
  <2> QED BY <2>2, <2>3, <2>4, <2>5, <2>6, Quantities DEF Least
<1>2. CASE k \notin Kept
  <2>1. Tokens(k) = Full /\ Tokens(k)' = Full
    BY <1>2 DEF Tokens, Kept
  <2>2. k \notin Stalled
    BY <1>2 DEF Stalled
  <2> QED BY <2>1, <2>2, Quantities DEF Least
<1> QED BY <1>1, <1>2

\* A check leaves its caller's bucket refilled as of now, and stalls nobody else.
LEMMA CheckUnstalls ==
  ASSUME LimiterTypeOK, NEW k \in Key, NEW n \in Level,
         Keep(k, n), clock' = clock
  PROVE  Stalled' = Stalled \ {k}
<1>1. /\ Kept' \subseteq Key
      /\ \A j \in Kept' \ {k} : j \in Kept /\ buckets'[j] = buckets[j]
      /\ k \in Kept' => buckets'[k] = [tokens |-> n, lastRefill |-> clock]
  BY KeepLeavesOthers
<1>2. clock \in Nat
  BY Quantities DEF LimiterTypeOK
<1>3. k \notin Stalled'
  BY <1>1, <1>2 DEF Stalled
<1>4. ASSUME NEW j \in Stalled', j # k PROVE j \in Stalled
  BY <1>1, <1>4 DEF Stalled
<1>5. ASSUME NEW j \in Stalled, j # k PROVE j \in Stalled'
  <2> DEFINE set == [i \in Kept \cup {k} |->
                       IF i = k THEN [tokens |-> n, lastRefill |-> clock] ELSE buckets[i]]
             over == Cardinality(DOMAIN set) > PruneAbove
             left == {i \in DOMAIN set : ~ (over /\ RefilledSince(set[i]))}
  <2>1. /\ buckets' = [i \in left |-> set[i]]
        /\ Kept' = left
    BY DEF Keep, Kept
  <2>2. j \in DOMAIN set /\ set[j] = buckets[j]
    BY <1>5 DEF Stalled
  <2>3. buckets[j].lastRefill \in Nat /\ buckets[j].lastRefill > clock
    BY <1>5, Quantities DEF Stalled, LimiterTypeOK, Bucket
  <2>4. ~ RefilledSince(buckets[j])
    BY <1>2, <2>3, Quantities DEF RefilledSince
  <2>5. j \in left
    BY <2>2, <2>4
  <2> HIDE DEF set, over, left
  <2> QED BY <1>2, <2>1, <2>2, <2>3, <2>5 DEF Stalled
<1> QED BY <1>3, <1>4, <1>5

\* A check leaves every bucket no fuller than the caller's allowance, and what
\* anybody was told still true.
LEMMA CheckKeepsInv ==
  ASSUME LimiterInv, NEW k \in Key, Check(k)
  PROVE  LimiterInv'
<1>1. LimiterTypeOK /\ ToldIsTrue(k) /\ clock' = clock
      /\ Tokens(k) \in 0 .. Full /\ Tokens(k) \in Level /\ allowance[k] \in 0 .. Full
      /\ allowance[k] >= Tokens(k) /\ clock \in 0 .. MaxClock
      /\ told \in [Key -> 0 .. Never] /\ allowance \in [Key -> 0 .. Full]
  BY TokensInBounds DEF LimiterInv, Check, Refuse, Allow, LimiterTypeOK
<1>2. CASE Refuse(k)
  <2> DEFINE w == RetryAfter(Tokens(k))
             x == Second * w
  <2>1. /\ Tokens(k) \in 0 .. Unit - 1
        /\ Keep(k, Tokens(k))
        /\ decision' = [allowed |-> FALSE, retryAfter |-> w]
        /\ told' = [told EXCEPT ![k] = Least(@, clock + x)]
        /\ allowance' = allowance
    BY <1>1, <1>2, Quantities DEF Refuse
  <2>2. /\ w \in 1 .. MaxWait
        /\ x \in 0 .. Second * MaxWait
        /\ Tokens(k) + (x + 1) * (Rate - Slip) >= Unit
    BY <2>1, TheWait
  <2>3. /\ buckets' \in [Kept' -> Bucket] /\ Kept' \subseteq Key
        /\ \A j \in Key : Tokens(j)' = Tokens(j)
    BY <1>1, <2>1, KeepLeavesOthers
  <2>4. Stalled' = Stalled \ {k}
    BY <1>1, <2>1, CheckUnstalls
  <2> HIDE DEF w, x
  <2>5. told' \in [Key -> 0 .. Never]
    BY <1>1, <2>1, <2>2, Quantities DEF Least, Never
  <2>6. LimiterTypeOK'
    BY <1>1, <2>1, <2>2, <2>3, <2>5, Quantities DEF LimiterTypeOK
  <2>7. ToldIsTrue(k)'
    <3>1. told'[k] = told[k] \/ told'[k] = clock + x
      BY <1>1, <2>1 DEF Least
    <3>2. CASE told'[k] = clock + x
      <4>1. Greatest(0, told'[k] + 1 - clock') = x + 1
        BY <1>1, <2>2, <3>2, Quantities DEF Greatest
      <4> QED BY <2>2, <2>3, <2>4, <4>1 DEF ToldIsTrue
    <3>3. CASE told'[k] = told[k]
      BY <1>1, <2>3, <2>4, <3>3 DEF ToldIsTrue
    <3> QED BY <3>1, <3>2, <3>3
  <2>8. ASSUME NEW j \in Key \ {k} PROVE ToldIsTrue(j)'
    <3>1. told'[j] = told[j] /\ ToldIsTrue(j)
      BY <1>1, <2>1 DEF LimiterInv
    <3> QED BY <1>1, <2>3, <2>4, <3>1 DEF ToldIsTrue
  <2> QED BY <2>1, <2>3, <2>6, <2>7, <2>8 DEF LimiterInv
<1>3. CASE Allow(k)
  <2> DEFINE n == Tokens(k) - Unit
  <2>1. /\ n \in Level /\ n \in 0 .. Full
        /\ Keep(k, n)
        /\ decision' = [allowed |-> TRUE, retryAfter |-> 0]
        /\ allowance' = [allowance EXCEPT ![k] = @ - Unit]
        /\ told' = [told EXCEPT ![k] = Never]
    BY <1>1, <1>3, Quantities, RoundingAssumption DEF Allow
  <2>2. /\ buckets' \in [Kept' -> Bucket] /\ Kept' \subseteq Key
        /\ Tokens(k)' = n
        /\ \A j \in Key \ {k} : Tokens(j)' = Tokens(j)
        /\ Stalled' = Stalled \ {k}
    BY <1>1, <2>1, KeepLeavesOthers, CheckUnstalls
  <2>3. allowance' \in [Key -> 0 .. Full] /\ allowance'[k] >= n
    BY <1>1, <1>3, <2>1, Quantities DEF Allow
  <2>4. LimiterTypeOK'
    BY <1>1, <2>1, <2>2, <2>3, Quantities DEF LimiterTypeOK
  <2>5. \A j \in Key : allowance'[j] >= Tokens(j)'
    BY <1>1, <2>1, <2>2, <2>3 DEF LimiterInv
  <2>6. ToldIsTrue(k)'
    BY <1>1, <2>1 DEF ToldIsTrue
  <2>7. ASSUME NEW j \in Key \ {k} PROVE ToldIsTrue(j)'
    <3>1. told'[j] = told[j] /\ ToldIsTrue(j)
      BY <1>1, <2>1 DEF LimiterInv
    <3> QED BY <1>1, <2>2, <3>1 DEF ToldIsTrue
  <2> QED BY <2>4, <2>5, <2>6, <2>7 DEF LimiterInv
<1> QED BY <1>2, <1>3 DEF Check

\* A limiter that remembers nobody.
LEMMA EmptyIsFull ==
  ASSUME Kept = {}
  PROVE  \A k \in Key : Tokens(k) = Full
  BY DEF Tokens

\* The invariant holds of a limiter that has just started.
LEMMA InitInv == LimiterInit => LimiterInv
<1> SUFFICES ASSUME LimiterInit PROVE LimiterInv
  OBVIOUS
<1>1. Kept = {} /\ buckets \in [Kept -> Bucket]
  BY DEF LimiterInit, Kept
<1>2. LimiterTypeOK
  BY <1>1, Quantities DEF LimiterInit, LimiterTypeOK
<1>3. \A k \in Key : allowance[k] >= Tokens(k)
  BY <1>1, EmptyIsFull, Quantities DEF LimiterInit
<1>4. \A k \in Key : told[k] = Never
  BY DEF LimiterInit
<1> QED BY <1>2, <1>3, <1>4 DEF LimiterInv, ToldIsTrue

\* A tick takes no more from what somebody still waits for than it brings.
LEMMA TicksKeepPromises ==
  ASSUME LimiterTypeOK, UNCHANGED <<buckets, told>>, clock' = clock + 1,
         clock' \in 0 .. MaxClock, NEW k \in Key, ToldIsTrue(k)
  PROVE  ToldIsTrue(k)'
<1>1. CASE told[k] = Never
  BY <1>1 DEF ToldIsTrue
<1>2. CASE told[k] # Never
  <2> DEFINE r == Greatest(0, told[k] + 1 - clock)
             s == Greatest(0, told[k] + 1 - clock')
             net == Rate - Slip
  <2>1. /\ clock \in Nat /\ told[k] \in Nat /\ net \in Nat
        /\ Tokens(k) \in 0 .. Full /\ k \notin Stalled
        /\ Tokens(k) + r * net >= Unit
    BY <1>2, TokensInBounds, Quantities DEF LimiterTypeOK, ToldIsTrue
  <2>2. /\ Tokens(k)' \in 0 .. Full /\ Tokens(k) <= Tokens(k)'
        /\ Least(Full, Tokens(k) + Rate - Slip) <= Tokens(k)'
    BY <2>1, TokensFollowTheClock
  <2>3. r \in Nat /\ s \in Nat /\ (r = s + 1 \/ (r = 0 /\ s = 0))
    <3> DEFINE x == told[k] - clock
    <3>1. x \in Int /\ told[k] + 1 - clock' = x /\ told[k] + 1 - clock = x + 1
      BY <2>1
    <3> HIDE DEF x
    <3>2. r = Greatest(0, x + 1) /\ s = Greatest(0, x)
      BY <3>1
    <3> HIDE DEF r, s
    <3>3. CASE x >= 0
      BY <3>1, <3>2, <3>3 DEF Greatest
    <3>4. CASE x < 0
      BY <3>1, <3>2, <3>4 DEF Greatest
    <3> QED BY <3>1, <3>3, <3>4
  <2>4. k \notin Stalled'
    <3>1. k \in Kept => buckets[k].lastRefill \in Nat /\ buckets[k].lastRefill <= clock
      BY <2>1, Quantities DEF Stalled, LimiterTypeOK, Bucket
    <3> QED BY <2>1, <3>1 DEF Stalled, Kept
  <2> HIDE DEF r, s
  <2>5. s * net \in Nat /\ (s + 1) * net = s * net + net /\ 0 * net = 0
    <3>1. \A a, b \in Nat : a * b \in Nat /\ (a + 1) * b = a * b + b /\ 0 * b = 0
      BY SMT
    <3> HIDE DEF net
    <3> QED BY <2>1, <2>3, <3>1
  <2>6. Tokens(k)' + s * net >= Unit
    <3>1. CASE r = 0 /\ s = 0
      BY <2>1, <2>2, <2>5, <3>1, Quantities
    <3>2. CASE r = s + 1
      <4>1. r * net = s * net + net
        BY <2>5, <3>2
      <4> DEFINE rest == s * net
      <4>2. rest \in Nat /\ Tokens(k) + rest + Rate - Slip >= Unit
        BY <2>1, <2>5, <4>1, Quantities
      <4> HIDE DEF rest
      <4>3. Tokens(k)' + rest >= Unit
        BY <2>1, <2>2, <4>2, Quantities DEF Least
      <4> QED BY <4>3 DEF rest
    <3> QED BY <2>3, <3>1, <3>2
  <2>7. told'[k] = told[k]
    OBVIOUS
  <2> QED BY <2>4, <2>6, <2>7 DEF ToldIsTrue, s
<1> QED BY <1>1, <1>2

\* Every step keeps the invariant.
LEMMA StepKeepsInv == LimiterInv /\ [LimiterNext]_vars => LimiterInv'
<1> SUFFICES ASSUME LimiterInv, [LimiterNext]_vars PROVE LimiterInv'
  OBVIOUS
<1>1. LimiterTypeOK
  BY DEF LimiterInv
<1>2. CASE ClockTicks
  <2>1. /\ clock \in Nat /\ clock' = clock + 1 /\ clock' \in 0 .. MaxClock
        /\ UNCHANGED <<buckets, decision, told>>
        /\ allowance' = [k \in Key |-> Least(Full, allowance[k] + Rate + Slip)]
    BY <1>1, <1>2, Quantities DEF ClockTicks, LimiterTypeOK
  <2>2. allowance \in [Key -> 0 .. Full]
    BY <1>1 DEF LimiterTypeOK
  <2>3. allowance' \in [Key -> 0 .. Full]
    BY <2>1, <2>2, Quantities DEF Least
  <2>4. LimiterTypeOK'
    BY <1>1, <2>1, <2>3 DEF LimiterTypeOK, Kept
  <2>5. ASSUME NEW k \in Key PROVE allowance'[k] >= Tokens(k)'
    <3>1. /\ Tokens(k)' <= Least(Full, Tokens(k) + Rate + Slip)
          /\ Tokens(k) \in 0 .. Full /\ Tokens(k)' \in 0 .. Full
      BY <1>1, <2>1, TokensFollowTheClock, TokensInBounds
    <3>2. allowance[k] >= Tokens(k)
      BY DEF LimiterInv
    <3> QED BY <2>1, <2>2, <3>1, <3>2, Quantities DEF Least
  <2>6. ASSUME NEW k \in Key PROVE ToldIsTrue(k)'
    BY <1>1, <2>1, TicksKeepPromises DEF LimiterInv
  <2> QED BY <2>4, <2>5, <2>6 DEF LimiterInv
<1>3. CASE ClockSetBack
  <2>1. /\ clock \in 0 .. MaxClock /\ clock' \in 0 .. MaxClock /\ clock' <= clock
        /\ UNCHANGED <<buckets, decision, allowance>>
        /\ told' = [k \in Key |-> Never]
    BY <1>1, <1>3, LimiterAssumption DEF ClockSetBack, LimiterTypeOK
  <2>2. LimiterTypeOK'
    BY <1>1, <2>1, Quantities DEF LimiterTypeOK, Kept
  <2>3. ASSUME NEW k \in Key PROVE allowance'[k] >= Tokens(k)'
    <3>1. /\ Tokens(k)' <= Tokens(k)
          /\ Tokens(k) \in 0 .. Full /\ Tokens(k)' \in 0 .. Full
      BY <1>1, <2>1, TokensFollowTheClock, TokensInBounds
    <3>2. allowance[k] >= Tokens(k) /\ allowance[k] \in 0 .. Full
      BY <1>1 DEF LimiterInv, LimiterTypeOK
    <3> QED BY <2>1, <3>1, <3>2, Quantities
  <2>4. \A k \in Key : ToldIsTrue(k)'
    BY <2>1 DEF ToldIsTrue
  <2> QED BY <2>2, <2>3, <2>4 DEF LimiterInv
<1>4. CASE Restart
  <2>1. Kept' = {} /\ buckets' \in [Kept' -> Bucket] /\ Stalled' = {}
    BY <1>4 DEF Restart, Kept, Stalled
  <2>2. LimiterTypeOK'
    BY <1>1, <1>4, <2>1, Quantities DEF Restart, LimiterTypeOK
  <2>3. \A k \in Key : Tokens(k)' = Full /\ allowance'[k] >= Tokens(k)'
    BY <1>4, <2>1, Quantities DEF Restart, Tokens
  <2>4. ASSUME NEW k \in Key PROVE ToldIsTrue(k)'
    <3> DEFINE r == Greatest(0, told'[k] + 1 - clock')
    <3>1. r \in Nat
      <4>1. told'[k] \in Nat /\ clock' \in Nat
        BY <2>2, Quantities DEF LimiterTypeOK
      <4> QED BY <4>1 DEF Greatest
    <3>2. r * (Rate - Slip) \in Nat
      <4>1. \A a, b \in Nat : a * b \in Nat
        BY SMT
      <4> HIDE DEF r
      <4> QED BY <3>1, <4>1, Quantities
    <3> QED BY <2>1, <2>3, <3>2, Quantities DEF ToldIsTrue
  <2> QED BY <2>2, <2>3, <2>4 DEF LimiterInv
<1>5. ASSUME NEW k \in Key, Check(k) PROVE LimiterInv'
  BY <1>5, CheckKeepsInv
<1>6. CASE UNCHANGED vars
  BY <1>6 DEF vars, LimiterInv, LimiterTypeOK, ToldIsTrue, Tokens, Refill, Kept, Stalled
<1> QED BY <1>2, <1>3, <1>4, <1>5, <1>6 DEF LimiterNext

\* The inductive invariant of the limiter.
THEOREM LimiterInvariance == LimiterSpec => []LimiterInv
  BY InitInv, StepKeepsInv, PTL DEF LimiterSpec

-----------------------------------------------------------------------------
(***************************************************************************)
(* What follows.                                                           *)
(***************************************************************************)

\* Buckets hold units, the map holds callers, and waits are at most a token's
\* worth of seconds.
THEOREM LimiterTypeCorrect == LimiterSpec => []LimiterTypeOK
<1>1. LimiterInv => LimiterTypeOK
  BY DEF LimiterInv
<1> QED BY <1>1, LimiterInvariance, PTL

\* No caller is let through more often than the burst and the rate allow,
\* whatever is forgotten and however often the clock is set back.
THEOREM TheRateHolds == LimiterSpec => []NeverAboveTheRate
<1>1. LimiterInv => NeverAboveTheRate
  <2> SUFFICES ASSUME LimiterInv, NEW k \in Key PROVE allowance[k] >= 0
    BY DEF NeverAboveTheRate
  <2> QED BY Quantities DEF LimiterInv, LimiterTypeOK
<1> QED BY <1>1, LimiterInvariance, PTL

\* Whoever comes back once the instant it was told has passed is let through.
THEOREM RetryAfterIsHonest == LimiterSpec => []HonestRetryAfter
<1>1. LimiterInv => HonestRetryAfter
  <2> SUFFICES ASSUME LimiterInv, NEW k \in Key, clock > told[k]
               PROVE  Tokens(k) >= Unit
    BY DEF HonestRetryAfter
  <2>1. /\ LimiterTypeOK /\ ToldIsTrue(k)
        /\ clock \in 0 .. MaxClock /\ told[k] \in 0 .. Never
        /\ Tokens(k) \in 0 .. Full
    BY TokensInBounds DEF LimiterInv, LimiterTypeOK
  <2>2. told[k] # Never
    BY <2>1, Quantities
  <2>3. Greatest(0, told[k] + 1 - clock) = 0
    BY <2>1, Quantities DEF Greatest
  <2>4. 0 * (Rate - Slip) = 0
    BY Quantities
  <2> QED BY <2>1, <2>2, <2>3, <2>4, Quantities DEF ToldIsTrue
<1> QED BY <1>1, LimiterInvariance, PTL

\* The map is pruned to callers seen lately as soon as it is over the threshold.
THEOREM MemoryStaysBounded == LimiterSpec => MemoryIsBounded
<1> DEFINE Pruned == buckets' # buckets /\ Cardinality(DOMAIN buckets') > PruneAbove
             => \A k \in DOMAIN buckets' : clock' - buckets'[k].lastRefill < FullRefill
<1>1. LimiterInv /\ [LimiterNext]_vars => [Pruned]_vars
  <2> SUFFICES ASSUME LimiterInv, LimiterNext, buckets' # buckets,
                      Cardinality(DOMAIN buckets') > PruneAbove,
                      NEW k \in DOMAIN buckets'
               PROVE  clock' - buckets'[k].lastRefill < FullRefill
    BY DEF vars
  <2>1. CASE Restart
    BY <2>1 DEF Restart
  <2>2. ASSUME NEW j \in Key, Check(j)
        PROVE  clock' - buckets'[k].lastRefill < FullRefill
    <3>1. PICK n : Keep(j, n)
      BY <2>2 DEF Check, Refuse, Allow
    <3>2. clock' = clock /\ clock \in Nat
      BY <2>2, Quantities DEF Check, Refuse, Allow, LimiterInv, LimiterTypeOK
    <3>3. LimiterTypeOK'
      BY <2>2, CheckKeepsInv DEF LimiterInv
    <3>4. buckets'[k].lastRefill \in Nat
      BY <3>3, Quantities DEF LimiterTypeOK, Kept, Bucket
    <3> DEFINE set == [i \in Kept \cup {j} |->
                   IF i = j THEN [tokens |-> n, lastRefill |-> clock] ELSE buckets[i]]
               over == Cardinality(DOMAIN set) > PruneAbove
               left == {i \in DOMAIN set : ~ (over /\ RefilledSince(set[i]))}
    <3>5. buckets' = [i \in left |-> set[i]]
      BY <3>1 DEF Keep
    <3>6. CASE ~over
      <4>1. left = DOMAIN set
        BY <3>6
      <4>2. DOMAIN buckets' = DOMAIN set
        BY <3>5, <4>1
      <4> QED BY <3>6, <4>2
    <3>7. CASE over
      <4>1. k \in left /\ buckets'[k] = set[k]
        BY <3>5
      <4>2. ~ RefilledSince(set[k])
        BY <3>7, <4>1
      <4>3. ~ (clock' - buckets'[k].lastRefill >= FullRefill)
        BY <3>2, <4>1, <4>2 DEF RefilledSince
      <4>4. clock' - buckets'[k].lastRefill \in Int
        BY <3>2, <3>4
      <4> QED BY <4>3, <4>4, Quantities
    <3> QED BY <3>6, <3>7
  <2> QED BY <2>1, <2>2 DEF LimiterNext, ClockTicks, ClockSetBack
<1> QED BY <1>1, LimiterInvariance, PTL DEF LimiterSpec, MemoryIsBounded

-----------------------------------------------------------------------------
(***************************************************************************)
(* The token bucket implemented.                                           *)
(***************************************************************************)

\* Each step of the limiter is one of the token bucket, or does not show.
LEMMA StepIsPromised ==
  ASSUME LimiterInv, [LimiterNext]_vars
  PROVE  [Promised!Next]_<<clock, [k \in Key |-> Tokens(k)], Stalled, decision>>
<1> DEFINE level == [k \in Key |-> Tokens(k)]
<1>1. LimiterTypeOK /\ clock \in Nat
  BY Quantities DEF LimiterInv, LimiterTypeOK
<1>2. \A k \in Key : Tokens(k) \in 0 .. Full /\ Tokens(k) \in Level
  BY <1>1, TokensInBounds
<1>3. Promised!Full = Full
  BY DEF Promised!Full, Full
<1>4. CASE ClockTicks
  <2>1. /\ clock' = clock + 1 /\ clock' \in 0 .. MaxClock
        /\ UNCHANGED buckets /\ UNCHANGED decision
    BY <1>1, <1>4, Quantities DEF ClockTicks
  <2>2. Stalled' \subseteq Stalled
    <3>1. \A k \in Kept : buckets[k].lastRefill \in Nat
      BY <1>1, Quantities DEF LimiterTypeOK, Bucket
    <3> QED BY <1>1, <2>1, <3>1 DEF Stalled, Kept
  <2>3. ASSUME NEW k \in Key
        PROVE  /\ Tokens(k)' \in 0 .. Full
               /\ IF k \in Stalled
                  THEN Tokens(k)' = Tokens(k)
                  ELSE /\ Tokens(k) <= Tokens(k)'
                       /\ Promised!Filled(Tokens(k), Rate - Slip) <= Tokens(k)'
                       /\ Tokens(k)' <= Promised!Filled(Tokens(k), Rate + Slip)
    <3>1. Tokens(k) \in 0 .. Full /\ Tokens(k)' \in 0 .. Full
      BY <1>1, <1>2, <2>1, TokensFollowTheClock
    <3>2. CASE k \in Stalled
      BY <1>1, <2>1, <3>1, <3>2, TokensFollowTheClock
    <3>3. CASE k \notin Stalled
      <4>1. /\ Tokens(k) <= Tokens(k)'
            /\ Tokens(k)' <= Least(Full, Tokens(k) + Rate + Slip)
            /\ Least(Full, Tokens(k) + Rate - Slip) <= Tokens(k)'
        BY <1>1, <2>1, <3>3, TokensFollowTheClock
      <4>2. /\ Promised!Filled(Tokens(k), Rate - Slip) = Least(Full, Tokens(k) + Rate - Slip)
            /\ Promised!Filled(Tokens(k), Rate + Slip) = Least(Full, Tokens(k) + Rate + Slip)
        BY <1>3, <3>1, Quantities DEF Promised!Filled, Least
      <4> QED BY <3>1, <3>3, <4>1, <4>2
    <3> QED BY <3>2, <3>3
  <2>4. /\ level' \in [Key -> 0 .. Full]
        /\ \A k \in Key : level[k] = Tokens(k) /\ level'[k] = Tokens(k)'
    BY <2>3
  <2> HIDE DEF level
  <2>5. Promised!Pass
    BY <1>3, <2>1, <2>2, <2>3, <2>4 DEF Promised!Pass, level
  <2> QED BY <2>5 DEF Promised!Next
<1>5. CASE Restart
  <2>1. Stalled' = {} /\ \A k \in Key : Tokens(k)' = Full
    BY <1>5 DEF Restart, Tokens, Kept, Stalled
  <2>2. Promised!Forget
    BY <1>3, <1>5, <2>1 DEF Restart, Promised!Forget
  <2> QED BY <2>2 DEF Promised!Next
<1>6. CASE ClockSetBack
  <2>1. /\ UNCHANGED buckets /\ UNCHANGED decision
        /\ clock' \in 0 .. MaxClock /\ clock' < clock /\ clock' <= clock
    BY <1>1, <1>6, LimiterAssumption DEF ClockSetBack, LimiterTypeOK
  <2>2. Stalled \subseteq Stalled' /\ Stalled' \subseteq Key
    <3>1. \A k \in Kept : k \in Key /\ buckets[k].lastRefill \in Nat
      BY <1>1, Quantities DEF LimiterTypeOK, Bucket
    <3> QED BY <1>1, <2>1, <3>1 DEF Stalled, Kept
  <2>3. \A k \in Key : Tokens(k)' \in 0 .. Full /\ Tokens(k)' <= Tokens(k)
    BY <1>1, <2>1, TokensFollowTheClock
  <2>4. Promised!SetBack
    BY <1>3, <2>1, <2>2, <2>3 DEF Promised!SetBack
  <2> QED BY <2>4 DEF Promised!Next
<1>7. ASSUME NEW k \in Key, Refuse(k)
      PROVE  Promised!Refuse(k)
  <2> DEFINE w == RetryAfter(Tokens(k))
  <2>1. /\ Tokens(k) \in 0 .. Unit - 1 /\ Tokens(k) < Unit
        /\ Keep(k, Tokens(k)) /\ clock' = clock
        /\ decision' = [allowed |-> FALSE, retryAfter |-> w]
    BY <1>2, <1>7, Quantities DEF Refuse
  <2>2. \A j \in Key : Tokens(j)' = Tokens(j)
    BY <1>1, <1>2, <2>1, KeepLeavesOthers
  <2>3. Stalled' = Stalled \ {k}
    BY <1>1, <1>2, <2>1, CheckUnstalls
  <2>4. /\ w \in 1 .. MaxWait
        /\ Tokens(k) + Rate * (Second * w) + Slip >= Unit
        /\ \A n \in 1 .. w - 1 : Tokens(k) + Rate * (Second * n) < Unit + Slip
    BY <2>1, TheWait
  <2> HIDE DEF w
  <2>5. decision'.retryAfter = w /\ decision' \in [allowed : {FALSE}, retryAfter : 1 .. MaxWait]
    BY <2>1, <2>4
  <2>6. UNCHANGED level
    BY <2>2
  <2>7. level[k] = Tokens(k)
    OBVIOUS
  <2> QED BY <2>1, <2>3, <2>4, <2>5, <2>6, <2>7 DEF Promised!Refuse, Promised!Worth
<1>8. ASSUME NEW k \in Key, Allow(k)
      PROVE  Promised!Grant(k)
  <2>1. /\ Tokens(k) - Unit \in Level
        /\ Keep(k, Tokens(k) - Unit) /\ clock' = clock
        /\ decision' = [allowed |-> TRUE, retryAfter |-> 0]
        /\ Tokens(k) >= Unit
    BY <1>2, <1>8, Quantities, RoundingAssumption DEF Allow
  <2>2. /\ Tokens(k)' = Tokens(k) - Unit
        /\ \A j \in Key \ {k} : Tokens(j)' = Tokens(j)
    BY <1>1, <2>1, KeepLeavesOthers
  <2>3. level' = [level EXCEPT ![k] = @ - Unit]
    BY <2>2
  <2>4. Stalled' = Stalled \ {k}
    BY <1>1, <2>1, CheckUnstalls
  <2> QED BY <2>1, <2>3, <2>4 DEF Promised!Grant
<1>9. CASE UNCHANGED vars
  BY <1>9 DEF vars, Tokens, Refill, Kept, Stalled
<1> QED BY <1>4, <1>5, <1>6, <1>7, <1>8, <1>9
        DEF LimiterNext, Check, Promised!Next

\* On any clock, the limiter answers as a token bucket does that forgets nobody
\* and whose ticks bring the rate give or take a slip: a look and a pruning
\* change nobody's level, whatever they round.
THEOREM DroppingLosesNothing == LimiterSpec => KeepsItsPromise
<1>1. LimiterInit => Promised!Init
  <2> SUFFICES ASSUME LimiterInit PROVE Promised!Init
    OBVIOUS
  <2>1. Kept = {}
    BY DEF LimiterInit, Kept
  <2>2. \A k \in Key : Tokens(k) = Promised!Full
    BY <2>1, EmptyIsFull DEF Promised!Full, Full
  <2> QED BY <2>1, <2>2 DEF LimiterInit, Promised!Init, Stalled
<1>2. LimiterInv /\ [LimiterNext]_vars
        => [Promised!Next]_<<clock, [k \in Key |-> Tokens(k)], Stalled, decision>>
  BY StepIsPromised
<1> QED BY <1>1, <1>2, LimiterInvariance, PTL
        DEF LimiterSpec, KeepsItsPromise, Promised!Spec

=============================================================================
