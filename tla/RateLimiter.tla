----------------------------- MODULE RateLimiter -----------------------------
(***************************************************************************)
(* The token buckets in front of the two routes that write. A bucket is    *)
(* refilled only when its caller is seen, by the time its last refill lies *)
(* in the past; it is dropped, once too many are kept, when it must have   *)
(* refilled; and the clock is Date.now, which can be set back.             *)
(*                                                                         *)
(* check() awaits nothing, so it is one step. The code counts tokens in    *)
(* doubles, which are whole numbers of units here: a token is Unit of them *)
(* and a tick of the clock is worth Rate. Every look at a bucket adds to   *)
(* it and rounds, so what a bucket holds depends on how often its caller   *)
(* asked. The rounded operations are constants; what is assumed of them is *)
(* what the properties need, and Doubles computes them.                    *)
(***************************************************************************)
EXTENDS Integers, FiniteSets

CONSTANTS
  Key,             \* what callerKey names: an actor, or an address
  Unit,            \* units in a token
  Rate,            \* units a bucket gains in a tick
  Second,          \* ticks in a second
  Burst,           \* tokens in a full bucket
  FullRefill,      \* fullRefillMs, in ticks
  PruneAbove,      \* PRUNE_ABOVE
  Double(_),       \* whether a number of units is a double
  Gained(_),       \* elapsed * limit.perSecond, of ticks
  Plus(_, _),      \* bucket.tokens + gained
  Seconds(_),      \* Math.ceil(missing / limit.perSecond)
  Slip,            \* what rounding takes or gives, at most, in a tick
  MaxWait,         \* the longest wait a refusal names, in seconds
  SetBacks,        \* bound: by how much the clock is set back at once
  MaxClock         \* bound: the latest reading of the clock

ASSUME LimiterAssumption ==
  /\ {Unit, Rate, Second, Burst, FullRefill, MaxWait} \subseteq Nat \ {0}
  /\ {Slip, PruneAbove, MaxClock} \subseteq Nat
  /\ SetBacks \subseteq Nat \ {0}

VARIABLES
  clock,      \* Date.now()
  buckets,    \* the map, from the callers it keeps to their buckets
  decision,   \* what the last check answered
  allowance,  \* ghost: what each caller may still spend, counted tick by tick
  told        \* ghost: the earliest instant any refusal told each caller to return

vars == <<clock, buckets, decision, allowance, told>>

Full == Burst * Unit
Never == MaxClock + Second * MaxWait + 1
Level == {n \in 0 .. Full : Double(n)}
Kept == DOMAIN buckets
Bucket == [tokens : Level, lastRefill : 0 .. MaxClock]

LimiterTypeOK ==
  /\ clock \in 0 .. MaxClock
  /\ Kept \subseteq Key
  /\ buckets \in [Kept -> Bucket]
  /\ decision \in [allowed : BOOLEAN, retryAfter : 0 .. MaxWait]
  /\ allowance \in [Key -> 0 .. Full]
  /\ told \in [Key -> 0 .. Never]

LimiterInit ==
  /\ clock = 0
  /\ buckets = [k \in {} |-> [tokens |-> Full, lastRefill |-> 0]]
  /\ decision = [allowed |-> TRUE, retryAfter |-> 0]
  /\ allowance = [k \in Key |-> Full]
  /\ told = [k \in Key |-> Never]

-----------------------------------------------------------------------------
(***************************************************************************)
(* check(key).                                                             *)
(***************************************************************************)
Least(a, b) == IF a < b THEN a ELSE b
Greatest(a, b) == IF a > b THEN a ELSE b

\* What a bucket holds when it is looked at some ticks after it held tokens.
Filled(tokens, ticks) == Least(Full, Plus(tokens, Gained(ticks)))

\* Taking a token off is exact, adding nothing changes nothing, a bucket not
\* looked at for as long as one takes to fill is full, and with every tick in
\* between it holds about Rate more, and never less.
ASSUME RoundingAssumption ==
  /\ Full \in Level
  /\ \A tokens \in Level : tokens >= Unit => tokens - Unit \in Level
  /\ \A tokens \in Level, ticks \in 0 .. MaxClock :
      /\ Filled(tokens, ticks) \in Level
      /\ ticks = 0 => Filled(tokens, ticks) = tokens
      /\ ticks >= FullRefill => Filled(tokens, ticks) = Full
      /\ \A fewer \in 0 .. ticks : Filled(tokens, fewer) <= Filled(tokens, ticks)
  /\ \A tokens \in Level, ticks \in 0 .. MaxClock - 1 :
      /\ Filled(tokens, ticks + 1) <= Filled(tokens, ticks) + Rate + Slip
      /\ Least(Full, Filled(tokens, ticks) + Rate - Slip) <= Filled(tokens, ticks + 1)

\* A wait is long enough and not a second longer, but for rounding; and a tick
\* is worth more than rounding takes over the longest of them.
ASSUME WaitAssumption ==
  /\ \A missing \in 1 .. Unit :
       LET wait == Greatest(1, Seconds(missing))
       IN  /\ wait \in 1 .. MaxWait
           /\ missing <= Rate * (Second * wait) + Slip
           /\ \A fewer \in 1 .. wait - 1 : Rate * (Second * fewer) < missing + Slip
  /\ (Second * MaxWait + 2) * Slip <= Rate

\* A mutant: what elapsed is added without Math.max(0, ...).
RefillUnguarded(bucket) == Filled(bucket.tokens, clock - bucket.lastRefill)

\* A mutant: the burst is not a ceiling.
RefillUncapped(bucket) == Plus(bucket.tokens, Gained(Greatest(0, clock - bucket.lastRefill)))

Refill(bucket) == Filled(bucket.tokens, Greatest(0, clock - bucket.lastRefill))

Tokens(k) == IF k \in Kept THEN Refill(buckets[k]) ELSE Full

\* A mutant: Math.floor for Math.ceil.
WaitRoundedDown(tokens) == Greatest(1, (Unit - tokens) \div (Rate * Second))

RetryAfter(tokens) == Greatest(1, Seconds(Unit - tokens))

\* A mutant: fullRefillMs without the * 1000.
RefilledInSeconds(bucket) == clock - bucket.lastRefill >= FullRefill \div Second

\* A mutant: the caller's own bucket, just spent, is the one asked about.
FullAfterSpending(bucket) == bucket.tokens >= Full

RefilledSince(bucket) == clock - bucket.lastRefill >= FullRefill

\* buckets.set(key, bucket), and prune(at) past the threshold.
Keep(k, tokens) ==
  LET set == [j \in Kept \cup {k} |->
                IF j = k THEN [tokens |-> tokens, lastRefill |-> clock] ELSE buckets[j]]
      over == Cardinality(DOMAIN set) > PruneAbove
      left == {j \in DOMAIN set : ~ (over /\ RefilledSince(set[j]))}
  IN  buckets' = [j \in left |-> set[j]]

Refuse(k) ==
  /\ Tokens(k) < Unit
  /\ Keep(k, Tokens(k))
  /\ decision' = [allowed |-> FALSE, retryAfter |-> RetryAfter(Tokens(k))]
  /\ told' = [told EXCEPT ![k] = Least(@, clock + Second * RetryAfter(Tokens(k)))]
  /\ UNCHANGED <<clock, allowance>>

Allow(k) ==
  /\ Tokens(k) >= Unit
  /\ Keep(k, Tokens(k) - Unit)
  /\ decision' = [allowed |-> TRUE, retryAfter |-> 0]
  /\ allowance' = [allowance EXCEPT ![k] = @ - Unit]
  /\ told' = [told EXCEPT ![k] = Never]
  /\ UNCHANGED clock

Check(k) == Refuse(k) \/ Allow(k)

-----------------------------------------------------------------------------
(***************************************************************************)
(* What happens around it.                                                 *)
(***************************************************************************)
ClockTicks ==
  /\ clock < MaxClock
  /\ clock' = clock + 1
  /\ allowance' = [k \in Key |-> Least(Full, allowance[k] + Rate + Slip)]
  /\ UNCHANGED <<buckets, decision, told>>

\* The instants callers were told mean nothing on a clock that was set back.
ClockSetBack ==
  /\ \E ticks \in SetBacks : ticks <= clock /\ clock' = clock - ticks
  /\ told' = [k \in Key |-> Never]
  /\ UNCHANGED <<buckets, decision, allowance>>

\* "one process, one map, reset on restart"
Restart ==
  /\ buckets' = [k \in {} |-> [tokens |-> Full, lastRefill |-> 0]]
  /\ allowance' = [k \in Key |-> Full]
  /\ UNCHANGED <<clock, decision, told>>

LimiterNext == ClockTicks \/ ClockSetBack \/ Restart \/ \E k \in Key : Check(k)

LimiterSpec == LimiterInit /\ [][LimiterNext]_vars

-----------------------------------------------------------------------------
(***************************************************************************)
(* Properties.                                                             *)
(***************************************************************************)

\* No caller is let through more often, over any stretch of time, than its
\* burst and the sustained rate allow: a window has no boundary to sit on.
\* Lazy refilling, rounding at every look, dropped buckets and a clock set back
\* do not lend anybody a token (the bucket of createRateLimiter).
NeverAboveTheRate == \A k \in Key : allowance[k] >= 0

\* A client that obeys Retry-After is not refused again, if it is not exact to
\* the tick: whatever it and everybody else asked in between, once the earliest
\* instant it was told has passed, and no request with its key was let through
\* since, the next one is (the ceiling in check). At that very instant it need
\* not be: a caller that kept asking may lack the last bit of a token.
HonestRetryAfter == \A k \in Key : clock > told[k] => Tokens(k) >= Unit

\* A caller is remembered only while its bucket says something or the map is
\* small: when more are kept than the threshold, each was seen within the
\* time a bucket takes to fill before the last request to change the map
\* (prune, and "its own test caught that").
MemoryIsBounded ==
  [][ buckets' # buckets /\ Cardinality(DOMAIN buckets') > PruneAbove
        => \A k \in DOMAIN buckets' : clock' - buckets'[k].lastRefill < FullRefill ]_vars

\* The callers whose last refill lies ahead of a clock that was set back.
Stalled == {k \in Kept : buckets[k].lastRefill > clock}

\* The limiter is a token bucket that forgets nobody and fills with every tick,
\* give or take the rounding of that tick: neither a look nor pruning shows by
\* itself ("dropping it loses nothing"), and a clock that is set back gives
\* nobody a token.
Promised == INSTANCE TokenBucket
  WITH level <- [k \in Key |-> Tokens(k)], stalled <- Stalled
KeepsItsPromise == Promised!Spec

=============================================================================
