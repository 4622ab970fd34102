------------------------------ MODULE Authority ------------------------------
(***************************************************************************)
(* Who may register for an organization, and when. One actor's grants, its *)
(* memberships of one organization, the operators who grant, revoke, join  *)
(* and end, and the writers who register products in the actor's name.     *)
(*                                                                         *)
(* No code under src writes the authority tables but migrations and tests: *)
(* the runtime may only read them (drizzle/0024). Operators do what the    *)
(* tables let them: a row may be dated with any instant, past or future,   *)
(* grants and revocations are inserted and never touched again, and the    *)
(* end of a membership may be set, moved and taken back.                   *)
(*                                                                         *)
(* A writer decides inside its own transaction, at the instant that began. *)
(* That instant reaches the decision as a JavaScript Date, which keeps     *)
(* milliseconds, while occurred_at keeps the database's microseconds. Time *)
(* here counts units of which Tick make a millisecond, and starts at 1: 0  *)
(* is SQL's NULL.                                                          *)
(***************************************************************************)
EXTENDS Naturals

CONSTANTS
  Grant,         \* ids of capacity_grant rows for this actor
  Issuing,       \* those whose capacity is issuer, over this organization
  Lifetime,      \* how long each is granted for; Null if no end is stated
  Membership,    \* ids of membership rows of this actor in this organization
  Writer,        \* transactions of insertProduct, each run once
  Tick,          \* units of time in a millisecond
  MaxClock,      \* bound: the last instant
  MaxActs,       \* bound: transactions of operators
  Standing       \* rows committed before this instance begins

Null == 0

ASSUME AuthorityAssumption ==
  /\ Grant \subseteq Nat \ {0}
  /\ Issuing \subseteq Grant
  /\ Lifetime \in [Grant -> Nat]
  /\ Tick \in Nat \ {0}
  /\ MaxClock \in Nat \ {0}
  /\ MaxActs \in Nat
  /\ Standing \subseteq Grant \cup Membership

VARIABLES
  clock,          \* the database's clock
  effectiveFrom,  \* capacity_grant.effective_from of each committed row
  revokedAt,      \* capacity_grant_revocation.revoked_at of each grant
  beganAt,        \* membership.began_at of each committed row
  endedAt,        \* membership.ended_at
  start,          \* now() in each writer's transaction: when it began
  phase,          \* where each writer stands
  named,          \* the grant a writer's decision found
  acts,           \* transactions operators have committed
  since           \* ghost: the acts committed since each writer began

records == <<effectiveFrom, revokedAt, beganAt, endedAt>>
writers == <<start, phase, named>>
vars == <<clock, records, writers, acts, since>>

Time == 1 .. MaxClock
Instant == Time \cup {Null}
Act == ({"grant", "revoke"} \X Grant) \cup ({"join", "end"} \X Membership)

\* The types, and what the tables' foreign key and CHECKs keep of their dates.
AuthorityTypeOK ==
  /\ clock \in Time
  /\ effectiveFrom \in [Grant -> Instant]
  /\ revokedAt \in [Grant -> Instant]
  /\ beganAt \in [Membership -> Instant]
  /\ endedAt \in [Membership -> Instant]
  /\ \A g \in Grant : revokedAt[g] # Null => effectiveFrom[g] # Null
  /\ \A m \in Membership : endedAt[m] # Null => beganAt[m] # Null /\ endedAt[m] > beganAt[m]
  /\ start \in [Writer -> Instant]
  /\ phase \in [Writer -> {"idle", "open", "decided", "refused", "committed", "aborted"}]
  /\ named \in [Writer -> Grant \cup {Null}]
  /\ acts \in 0 .. MaxActs
  /\ since \in [Writer -> SUBSET Act]

AuthorityInit ==
  /\ clock = 1
  /\ effectiveFrom = [g \in Grant |-> IF g \in Standing THEN 1 ELSE Null]
  /\ revokedAt = [g \in Grant |-> Null]
  /\ beganAt = [m \in Membership |-> IF m \in Standing THEN 1 ELSE Null]
  /\ endedAt = [m \in Membership |-> Null]
  /\ start = [w \in Writer |-> Null]
  /\ phase = [w \in Writer |-> "idle"]
  /\ named = [w \in Writer |-> Null]
  /\ acts = 0
  /\ since = [w \in Writer |-> {}]

-----------------------------------------------------------------------------
(***************************************************************************)
(* grantsHeldAt.                                                           *)
(***************************************************************************)

\* lte(from, at), and (until IS NULL OR until > at).
Covers(from, until, at) ==
  /\ from # Null /\ from <= at
  /\ until = Null \/ until > at

\* A mutant: the relationship a grant is held through is not consulted.
MembershipIgnored(at) == TRUE

CoveredByMembership(at) ==
  \E m \in Membership : Covers(beganAt[m], endedAt[m], at)

ExpiresAt(g) == IF Lifetime[g] = Null THEN Null ELSE effectiveFrom[g] + Lifetime[g]

\* A mutant: any grant that was ever revoked is excluded.
NeverRevoked(g, at) == revokedAt[g] = Null

Unrevoked(g, at) == revokedAt[g] = Null \/ revokedAt[g] > at

HeldAt(g, at) ==
  /\ Covers(effectiveFrom[g], ExpiresAt(g), at)
  /\ Unrevoked(g, at)
  /\ CoveredByMembership(at)

\* new Date(now()): the milliseconds are kept and the microseconds are not.
AsDate(instant) == (instant \div Tick) * Tick

-----------------------------------------------------------------------------
(***************************************************************************)
(* Operators: each act is a transaction, and shows when it commits.        *)
(***************************************************************************)

Acts(what, row) ==
  /\ acts < MaxActs
  /\ acts' = acts + 1
  /\ since' = [w \in Writer |->
                 IF phase[w] = "idle" THEN since[w] ELSE since[w] \cup {<<what, row>>}]
  /\ UNCHANGED <<clock, writers>>

\* A grant is inserted once, effective from any instant, and never updated or
\* deleted.
CommitGrant(g) ==
  /\ effectiveFrom[g] = Null
  /\ \E at \in Time : effectiveFrom' = [effectiveFrom EXCEPT ![g] = at]
  /\ UNCHANGED <<revokedAt, beganAt, endedAt>>
  /\ Acts("grant", g)

\* A grant is revoked at most once, as of any instant, and a revocation is as
\* permanent.
CommitRevocation(g) ==
  /\ effectiveFrom[g] # Null
  /\ revokedAt[g] = Null
  /\ \E at \in Time : revokedAt' = [revokedAt EXCEPT ![g] = at]
  /\ UNCHANGED <<effectiveFrom, beganAt, endedAt>>
  /\ Acts("revoke", g)

\* membership_ends_after_it_begins.
EndsAfterItBegins(from, until) == until = Null \/ until > from

CommitMembership(m) ==
  /\ beganAt[m] = Null
  /\ \E from \in Time, until \in Instant :
       /\ EndsAfterItBegins(from, until)
       /\ beganAt' = [beganAt EXCEPT ![m] = from]
       /\ endedAt' = [endedAt EXCEPT ![m] = until]
  /\ UNCHANGED <<effectiveFrom, revokedAt>>
  /\ Acts("join", m)

\* A mutant: the CHECK compares nothing.
EndAtWill(m) ==
  /\ beganAt[m] # Null
  /\ \E until \in Instant : endedAt' = [endedAt EXCEPT ![m] = until]
  /\ UNCHANGED <<effectiveFrom, revokedAt, beganAt>>
  /\ Acts("end", m)

\* membership_only_ends lets ended_at change, from whatever it was to whatever
\* the CHECK allows, NULL included.
CommitEnding(m) ==
  /\ beganAt[m] # Null
  /\ \E until \in Instant :
       /\ EndsAfterItBegins(beganAt[m], until)
       /\ endedAt' = [endedAt EXCEPT ![m] = until]
  /\ UNCHANGED <<effectiveFrom, revokedAt, beganAt>>
  /\ Acts("end", m)

-----------------------------------------------------------------------------
(***************************************************************************)
(* Writers: insertProduct with registerProduct's authorise.                *)
(***************************************************************************)

BeginWrite(w) ==
  /\ phase[w] = "idle"
  /\ phase' = [phase EXCEPT ![w] = "open"]
  /\ start' = [start EXCEPT ![w] = clock]
  /\ UNCHANGED <<clock, records, named, acts, since>>

\* A mutant: the first grant held is taken for the one that authorises.
FirstGrantOnly(at) ==
  {g \in Issuing : HeldAt(g, at) /\ \A h \in Grant : g <= h}

\* What the callback finds: the first grant, by id, that is issuer over the
\* organization, among those held at the transaction's instant.
Authorising(at) ==
  {g \in Issuing : HeldAt(g, at) /\ \A h \in Issuing : HeldAt(h, at) => g <= h}

Authorise(w) ==
  /\ phase[w] = "open"
  /\ \E g \in Authorising(AsDate(start[w])) :
       named' = [named EXCEPT ![w] = g]
  /\ phase' = [phase EXCEPT ![w] = "decided"]
  /\ UNCHANGED <<clock, records, start, acts, since>>

Refuse(w) ==
  /\ phase[w] = "open"
  /\ Authorising(AsDate(start[w])) = {}
  /\ phase' = [phase EXCEPT ![w] = "refused"]
  /\ UNCHANGED <<clock, records, start, named, acts, since>>

\* The product and its event, dated now() and naming the grant, are committed.
CommitWrite(w) ==
  /\ phase[w] = "decided"
  /\ phase' = [phase EXCEPT ![w] = "committed"]
  /\ UNCHANGED <<clock, records, start, named, acts, since>>

\* A write may fail, or lose its connection, with nothing done.
Abandon(w) ==
  /\ phase[w] \in {"open", "decided"}
  /\ phase' = [phase EXCEPT ![w] = "aborted"]
  /\ UNCHANGED <<clock, records, start, named, acts, since>>

TimePasses ==
  /\ clock < MaxClock
  /\ clock' = clock + 1
  /\ UNCHANGED <<records, writers, acts, since>>

AuthorityNext ==
  \/ \E g \in Grant : CommitGrant(g) \/ CommitRevocation(g)
  \/ \E m \in Membership : CommitMembership(m) \/ CommitEnding(m)
  \/ \E w \in Writer : BeginWrite(w) \/ Authorise(w) \/ Refuse(w) \/ CommitWrite(w) \/ Abandon(w)
  \/ TimePasses

AuthoritySpec == AuthorityInit /\ [][AuthorityNext]_vars

-----------------------------------------------------------------------------
(***************************************************************************)
(* Properties.                                                             *)
(***************************************************************************)

\* The first instant of the millisecond in which a writer's transaction began.
Asked(w) == start[w] - (start[w] % Tick)

\* An end is the first instant at which what it ends is over.
Over(until, at) == until # Null /\ until <= at

InForce(g, at) ==
  effectiveFrom[g] \in 1 .. at /\ ~ Over(ExpiresAt(g), at) /\ ~ Over(revokedAt[g], at)

Since(w, what, row) == <<what, row>> \in since[w]

\* What was withdrawn before a writer began is not used (#174, product-
\* repository.ts:75-89): a recorded event names a grant that was effective and
\* neither over nor revoked in the millisecond its transaction began in, but for
\* a revocation committed only after that began; and it was written under a
\* membership of which the same can be said.
WithdrawnIsNotUsed ==
  \A w \in Writer : phase[w] = "committed" =>
    /\ effectiveFrom[named[w]] \in 1 .. Asked(w)
    /\ ~ Over(ExpiresAt(named[w]), Asked(w))
    /\ ~ Over(revokedAt[named[w]], Asked(w)) \/ Since(w, "revoke", named[w])
    /\ \E m \in Membership :
         /\ beganAt[m] \in 1 .. Asked(w)
         /\ ~ Over(endedAt[m], Asked(w)) \/ Since(w, "end", m)

\* A refusal is deserved: if an issuing grant was in force, by everything now known,
\* at the instant the refused writer asked about, then it, or every membership it
\* could be held through, was entered or given its end only after the write began.
RefusalsAreDeserved ==
  \A w \in Writer, g \in Issuing :
    phase[w] = "refused" /\ InForce(g, Asked(w)) =>
      \/ Since(w, "grant", g)
      \/ \A m \in Membership :
           beganAt[m] \in 1 .. Asked(w) /\ ~ Over(endedAt[m], Asked(w)) =>
             Since(w, "join", m) \/ Since(w, "end", m)

\* "What authority did this actor hold on 2 August" (drizzle/0018:13-22) is
\* answered by records that only grow, and by the ends of memberships: an answer
\* changes only with a grant, a revocation or a membership that was not there
\* before and is dated no later than the instant asked about, or with the end of
\* a membership, where that is put on the other side of the instant. Time, reading
\* and writing change no answer, and what is dated later changes none before it.
HistoryKeepsItsAnswer ==
  [][\A g \in Grant, at \in Time : HeldAt(g, at)' # HeldAt(g, at) =>
       \/ effectiveFrom[g] = Null /\ effectiveFrom'[g] \in 1 .. at
       \/ revokedAt[g] = Null /\ revokedAt'[g] \in 1 .. at
       \/ \E m \in Membership : beganAt[m] = Null /\ beganAt'[m] \in 1 .. at
       \/ \E m \in Membership :
            beganAt[m] \in 1 .. at /\ Over(endedAt'[m], at) # Over(endedAt[m], at)]_vars

=============================================================================
