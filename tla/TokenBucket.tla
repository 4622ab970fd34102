---------------------------- MODULE TokenBucket ----------------------------
(***************************************************************************)
(* What the rate limiter promises: one allowance per caller that fills at  *)
(* a fixed rate up to a burst, a request that costs one token, and a       *)
(* refusal that names the first whole second at which it would not be      *)
(* repeated. Nothing is lazy here and nobody is forgotten: every allowance *)
(* fills with every tick, by a rate that is kept up to a slip. A clock     *)
(* that is set back may take from an allowance, and stall it until its     *)
(* caller is seen or the clock has caught up; it never gives.              *)
(***************************************************************************)
EXTENDS Integers

CONSTANTS
  Key,      \* callers
  Unit,     \* units in a token
  Rate,     \* units that an allowance gains in a tick
  Second,   \* ticks in a second
  Burst,    \* tokens in a full allowance
  Slip,     \* units by which a tick may be worth more or less
  MaxWait   \* the longest wait a refusal names, in seconds

VARIABLES clock, level, stalled, decision

Full == Burst * Unit

Init ==
  /\ clock = 0
  /\ level = [k \in Key |-> Full]
  /\ stalled = {}
  /\ decision = [allowed |-> TRUE, retryAfter |-> 0]

Filled(l, gain) == IF l + gain < Full THEN l + gain ELSE Full

Pass ==
  /\ clock' = clock + 1
  /\ level' \in [Key -> 0 .. Full]
  /\ \A k \in Key :
       IF k \in stalled
       THEN level'[k] = level[k]
       ELSE /\ level[k] <= level'[k]
            /\ Filled(level[k], Rate - Slip) <= level'[k]
            /\ level'[k] <= Filled(level[k], Rate + Slip)
  /\ stalled' \in SUBSET stalled
  /\ UNCHANGED decision

SetBack ==
  /\ clock' < clock
  /\ level' \in [Key -> 0 .. Full]
  /\ \A k \in Key : level'[k] <= level[k]
  /\ stalled \subseteq stalled' /\ stalled' \subseteq Key
  /\ UNCHANGED decision

Grant(k) ==
  /\ level[k] >= Unit
  /\ level' = [level EXCEPT ![k] = @ - Unit]
  /\ stalled' = stalled \ {k}
  /\ UNCHANGED clock
  /\ decision' = [allowed |-> TRUE, retryAfter |-> 0]

Worth(seconds) == Rate * (Second * seconds)

Refuse(k) ==
  /\ level[k] < Unit
  /\ decision' \in [allowed : {FALSE}, retryAfter : 1 .. MaxWait]
  /\ level[k] + Worth(decision'.retryAfter) + Slip >= Unit
  /\ \A fewer \in 1 .. decision'.retryAfter - 1 : level[k] + Worth(fewer) < Unit + Slip
  /\ stalled' = stalled \ {k}
  /\ UNCHANGED <<clock, level>>

Forget ==
  /\ level' = [k \in Key |-> Full]
  /\ stalled' = {}
  /\ UNCHANGED <<clock, decision>>

Next == Pass \/ SetBack \/ Forget \/ \E k \in Key : Grant(k) \/ Refuse(k)

Spec == Init /\ [][Next]_<<clock, level, stalled, decision>>

=============================================================================
