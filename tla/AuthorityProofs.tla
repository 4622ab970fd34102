--------------------------- MODULE AuthorityProofs ---------------------------
(***************************************************************************)
(* What holds of authority for any number of grants, memberships, writers  *)
(* and acts of operators, any clock and any number of units in a           *)
(* millisecond: what was withdrawn is not used, refusals are deserved, and *)
(* what is dated later changes no answer about an earlier instant.         *)
(***************************************************************************)
EXTENDS Authority, TLAPS, WellFoundedInduction

\* A writer that has begun has an instant.
Dated == \A w \in Writer : phase[w] # "idle" => start[w] \in Time

\* What a decision found was there when the write began, or was entered since.
Stands(w) ==
  /\ named[w] \in Grant
  /\ effectiveFrom[named[w]] \in 1 .. Asked(w)
  /\ ~ Over(ExpiresAt(named[w]), Asked(w))
  /\ ~ Over(revokedAt[named[w]], Asked(w)) \/ Since(w, "revoke", named[w])
  /\ \E m \in Membership :
       /\ beganAt[m] \in 1 .. Asked(w)
       /\ ~ Over(endedAt[m], Asked(w)) \/ Since(w, "end", m)

DecisionsStand ==
  \A w \in Writer : phase[w] \in {"decided", "committed"} => Stands(w)

AuthorityInv == AuthorityTypeOK /\ Dated /\ DecisionsStand /\ RefusalsAreDeserved

-----------------------------------------------------------------------------
(***************************************************************************)
(* The instant asked about, and what is found at it.                       *)
(***************************************************************************)

\* new Date goes back to the beginning of the millisecond.
LEMMA DatesTruncate ==
  ASSUME NEW w \in Writer, start[w] \in Nat
  PROVE  AsDate(start[w]) = Asked(w) /\ Asked(w) \in Nat
<1> DEFINE i == start[w]
<1> USE AuthorityAssumption
<1>1. i \div Tick \in Nat /\ i = Tick * (i \div Tick) + (i % Tick) /\ i % Tick \in Nat
  OBVIOUS
<1>2. (i \div Tick) * Tick = Tick * (i \div Tick) /\ Tick * (i \div Tick) \in Nat
  BY <1>1
<1>3. i - (i % Tick) = Tick * (i \div Tick)
  BY <1>1, <1>2
<1> QED BY <1>2, <1>3 DEF AsDate, Asked

\* The query's clauses say of dates what being in force says of them.
LEMMA HeldIsInForce ==
  ASSUME AuthorityTypeOK, NEW g \in Grant, NEW at \in Nat
  PROVE  HeldAt(g, at) <=> /\ InForce(g, at)
                           /\ \E m \in Membership :
                                beganAt[m] \in 1 .. at /\ ~ Over(endedAt[m], at)
<1> USE AuthorityAssumption DEF AuthorityTypeOK, Instant, Time, Null
<1>1. \A m \in Membership : Covers(beganAt[m], endedAt[m], at)
        <=> beganAt[m] \in 1 .. at /\ ~ Over(endedAt[m], at)
  BY DEF Covers, Over
<1>2. ExpiresAt(g) \in Nat
  BY DEF ExpiresAt
<1>3. Covers(effectiveFrom[g], ExpiresAt(g), at)
        <=> effectiveFrom[g] \in 1 .. at /\ ~ Over(ExpiresAt(g), at)
  BY <1>2 DEF Covers, Over
<1>4. Unrevoked(g, at) <=> ~ Over(revokedAt[g], at)
  BY DEF Unrevoked, Over
<1> QED BY <1>1, <1>3, <1>4 DEF HeldAt, InForce, CoveredByMembership

Below == {p \in Nat \X Nat : p[1] < p[2]}

\* A set of numbers has a least one.
LEMMA LeastExists ==
  ASSUME NEW T, T \subseteq Nat, T # {}
  PROVE  \E x \in T : \A y \in T : x <= y
<1>1. IsWellFoundedOn(Below, Nat)
  BY NatLessThanWellFounded DEF OpToRel, Below
<1>2. PICK x \in T : \A y \in T : <<y, x>> \notin Below
  BY <1>1, WFMin
<1>3. ASSUME NEW y \in T PROVE x <= y
  <2>1. x \in Nat /\ y \in Nat
    OBVIOUS
  <2>2. y < x => <<y, x>> \in Below
    BY <2>1 DEF Below
  <2> QED BY <1>2, <2>1, <2>2
<1> QED BY <1>3

\* Where an issuing grant is held, one of them has the least id.
LEMMA SomeGrantIsFirst ==
  ASSUME NEW at, NEW g \in Issuing, HeldAt(g, at)
  PROVE  Authorising(at) # {}
<1> DEFINE Held == {h \in Issuing : HeldAt(h, at)}
<1>1. Held \subseteq Nat /\ Held # {}
  BY AuthorityAssumption
<1> HIDE DEF Held
<1>2. PICK x \in Held : \A y \in Held : x <= y
  BY <1>1, LeastExists
<1>3. x \in Authorising(at)
  BY <1>2 DEF Held, Authorising
<1> QED BY <1>3

-----------------------------------------------------------------------------
(***************************************************************************)
(* What a step does to the records, and to a writer.                       *)
(***************************************************************************)

\* Every step keeps the types, the foreign key and the CHECKs.
LEMMA TypesStay ==
  ASSUME AuthorityTypeOK, [AuthorityNext]_vars PROVE AuthorityTypeOK'
<1> USE AuthorityAssumption DEF AuthorityTypeOK, Time, Instant, Null, writers
<1>1. ASSUME NEW g \in Grant, CommitGrant(g) PROVE AuthorityTypeOK'
  BY <1>1 DEF CommitGrant, Acts, Act
<1>2. ASSUME NEW g \in Grant, CommitRevocation(g) PROVE AuthorityTypeOK'
  BY <1>2 DEF CommitRevocation, Acts, Act
<1>3. ASSUME NEW m \in Membership, CommitMembership(m) PROVE AuthorityTypeOK'
  <2>1. PICK from \in Time, until \in Instant :
          /\ EndsAfterItBegins(from, until)
          /\ beganAt' = [beganAt EXCEPT ![m] = from]
          /\ endedAt' = [endedAt EXCEPT ![m] = until]
    BY <1>3 DEF CommitMembership
  <2>2. beganAt' \in [Membership -> Instant] /\ endedAt' \in [Membership -> Instant]
    BY <2>1
  <2>3. \A n \in Membership : endedAt'[n] # Null => beganAt'[n] # Null /\ endedAt'[n] > beganAt'[n]
    BY <2>1 DEF EndsAfterItBegins
  <2> QED BY <1>3, <2>2, <2>3 DEF CommitMembership, Acts, Act
<1>4. ASSUME NEW m \in Membership, CommitEnding(m) PROVE AuthorityTypeOK'
  <2>1. PICK until \in Instant :
          /\ EndsAfterItBegins(beganAt[m], until)
          /\ endedAt' = [endedAt EXCEPT ![m] = until]
    BY <1>4 DEF CommitEnding
  <2>2. endedAt' \in [Membership -> Instant] /\ beganAt' = beganAt /\ beganAt[m] # Null
    BY <1>4, <2>1 DEF CommitEnding
  <2>3. \A n \in Membership : endedAt'[n] # Null => beganAt'[n] # Null /\ endedAt'[n] > beganAt'[n]
    BY <2>1, <2>2 DEF EndsAfterItBegins
  <2> QED BY <1>4, <2>2, <2>3 DEF CommitEnding, Acts, Act
<1>5. ASSUME NEW w \in Writer, BeginWrite(w) PROVE AuthorityTypeOK'
  BY <1>5 DEF BeginWrite, records
<1>6. ASSUME NEW w \in Writer, Authorise(w) PROVE AuthorityTypeOK'
  BY <1>6 DEF Authorise, Authorising, records
<1>7. ASSUME NEW w \in Writer, Refuse(w) \/ CommitWrite(w) \/ Abandon(w) PROVE AuthorityTypeOK'
  BY <1>7 DEF Refuse, CommitWrite, Abandon, records
<1>8. CASE TimePasses
  BY <1>8 DEF TimePasses, records
<1>9. CASE UNCHANGED vars
  BY <1>9 DEF vars, records
<1> QED BY <1>1, <1>2, <1>3, <1>4, <1>5, <1>6, <1>7, <1>8, <1>9 DEF AuthorityNext

\* For a writer that has begun: its instant stays, grants, revocations and memberships
\* stay as they were entered, and what is entered or ended now is an act since.
Grows(w) ==
  /\ start'[w] = start[w] /\ phase'[w] # "idle" /\ since[w] \subseteq since'[w]
  /\ \A g \in Grant :
       /\ effectiveFrom'[g] # effectiveFrom[g] => effectiveFrom[g] = Null /\ Since(w, "grant", g)'
       /\ revokedAt'[g] # revokedAt[g] => revokedAt[g] = Null /\ Since(w, "revoke", g)'
  /\ \A m \in Membership :
       /\ beganAt'[m] # beganAt[m] => beganAt[m] = Null /\ Since(w, "join", m)'
       /\ endedAt'[m] # endedAt[m] =>
            \/ Since(w, "end", m)'
            \/ beganAt[m] = Null /\ Since(w, "join", m)'

\* Operators only add to what is committed, but for the end of a membership.
LEMMA RecordsGrow ==
  ASSUME AuthorityTypeOK, [AuthorityNext]_vars, NEW w \in Writer, phase[w] # "idle"
  PROVE  Grows(w)
<1> USE AuthorityAssumption DEF AuthorityTypeOK, Since, Grows, writers
<1>1. ASSUME NEW g \in Grant, CommitGrant(g) PROVE Grows(w)
  BY <1>1 DEF CommitGrant, Acts
<1>2. ASSUME NEW g \in Grant, CommitRevocation(g) PROVE Grows(w)
  BY <1>2 DEF CommitRevocation, Acts
<1>3. ASSUME NEW m \in Membership, CommitMembership(m) PROVE Grows(w)
  BY <1>3 DEF CommitMembership, Acts
<1>4. ASSUME NEW m \in Membership, CommitEnding(m) PROVE Grows(w)
  BY <1>4 DEF CommitEnding, Acts
<1>5. ASSUME NEW v \in Writer,
             BeginWrite(v) \/ Authorise(v) \/ Refuse(v) \/ CommitWrite(v) \/ Abandon(v)
      PROVE  Grows(w)
  BY <1>5 DEF BeginWrite, Authorise, Refuse, CommitWrite, Abandon, records
<1>6. CASE TimePasses
  BY <1>6 DEF TimePasses, records
<1>7. CASE UNCHANGED vars
  BY <1>7 DEF vars, records
<1> QED BY <1>1, <1>2, <1>3, <1>4, <1>5, <1>6, <1>7 DEF AuthorityNext

\* A writer has decided only by Authorise, only Refuse refuses it, and what it found
\* it keeps.
LEMMA WritersDecide ==
  ASSUME AuthorityTypeOK, [AuthorityNext]_vars, NEW w \in Writer
  PROVE  /\ phase'[w] \in {"decided", "committed"} =>
              \/ phase[w] \in {"decided", "committed"} /\ named'[w] = named[w]
              \/ Authorise(w)
         /\ phase'[w] = "refused" => phase[w] = "refused" \/ Refuse(w)
         /\ phase'[w] # "idle" => phase[w] # "idle" \/ start'[w] = clock
<1> USE AuthorityAssumption DEF AuthorityTypeOK, writers
<1> DEFINE Goal == /\ phase'[w] \in {"decided", "committed"} =>
                        \/ phase[w] \in {"decided", "committed"} /\ named'[w] = named[w]
                        \/ Authorise(w)
                   /\ phase'[w] = "refused" => phase[w] = "refused" \/ Refuse(w)
                   /\ phase'[w] # "idle" => phase[w] # "idle" \/ start'[w] = clock
<1>1. ASSUME UNCHANGED writers PROVE Goal
  BY <1>1
<1>2. ASSUME NEW v \in Writer, BeginWrite(v) PROVE Goal
  BY <1>2 DEF BeginWrite
<1>3. ASSUME NEW v \in Writer, Authorise(v) PROVE Goal
  <2>1. v # w => named'[w] = named[w]
    BY <1>3 DEF Authorise
  <2>2. phase' = [phase EXCEPT ![v] = "decided"] /\ phase[v] = "open"
    BY <1>3 DEF Authorise
  <2> QED BY <1>3, <2>1, <2>2
<1>4. ASSUME NEW v \in Writer, Refuse(v) PROVE Goal
  BY <1>4 DEF Refuse
<1>5. ASSUME NEW v \in Writer, CommitWrite(v) PROVE Goal
  BY <1>5 DEF CommitWrite
<1>6. ASSUME NEW v \in Writer, Abandon(v) PROVE Goal
  BY <1>6 DEF Abandon
<1>7. \/ UNCHANGED writers
      \/ \E v \in Writer :
           BeginWrite(v) \/ Authorise(v) \/ Refuse(v) \/ CommitWrite(v) \/ Abandon(v)
  BY DEF AuthorityNext, CommitGrant, CommitRevocation, CommitMembership, CommitEnding, Acts,
         TimePasses, vars
<1> QED BY <1>1, <1>2, <1>3, <1>4, <1>5, <1>6, <1>7

-----------------------------------------------------------------------------
(***************************************************************************)
(* One lemma for each part of the invariant.                               *)
(***************************************************************************)

\* At first nobody has begun and nothing has been decided.
LEMMA InitInv == AuthorityInit => AuthorityInv
<1> USE AuthorityAssumption
<1> SUFFICES ASSUME AuthorityInit PROVE AuthorityInv
  OBVIOUS
<1>1. AuthorityTypeOK
  BY DEF AuthorityInit, AuthorityTypeOK, Time, Instant, Null
<1>2. \A w \in Writer : phase[w] = "idle"
  BY DEF AuthorityInit
<1>3. Dated /\ DecisionsStand /\ RefusalsAreDeserved
  BY <1>2 DEF Dated, DecisionsStand, RefusalsAreDeserved
<1> QED BY <1>1, <1>3 DEF AuthorityInv

\* A writer's instant is read off the clock when it begins.
LEMMA DatesStay ==
  ASSUME AuthorityTypeOK, Dated, [AuthorityNext]_vars PROVE Dated'
<1> SUFFICES ASSUME NEW w \in Writer, phase'[w] # "idle" PROVE start'[w] \in Time'
  BY DEF Dated
<1>1. CASE phase[w] # "idle"
  BY <1>1, RecordsGrow DEF Grows, Dated, Time
<1>2. CASE phase[w] = "idle"
  BY <1>2, WritersDecide DEF AuthorityTypeOK, Time
<1> QED BY <1>1, <1>2

\* A decision is taken on what is in force.
LEMMA DecidesOnWhatStands ==
  ASSUME AuthorityTypeOK, Dated, NEW w \in Writer, Authorise(w)
  PROVE  Stands(w)'
<1> USE AuthorityAssumption DEF AuthorityTypeOK
<1>1. start[w] \in Nat /\ AsDate(start[w]) = Asked(w) /\ Asked(w) \in Nat
  BY DatesTruncate DEF Authorise, Dated, Time
<1>2. PICK g \in Authorising(AsDate(start[w])) : named' = [named EXCEPT ![w] = g]
  BY DEF Authorise
<1>3. /\ g \in Grant /\ HeldAt(g, Asked(w)) /\ named'[w] = g
      /\ UNCHANGED <<start, records, since>>
  BY <1>1, <1>2 DEF Authorise, Authorising
<1>4. Asked(w)' = Asked(w) /\ ExpiresAt(g)' = ExpiresAt(g)
  BY <1>3 DEF Asked, ExpiresAt, records
<1>5. /\ InForce(g, Asked(w))
      /\ \E m \in Membership : beganAt[m] \in 1 .. Asked(w) /\ ~ Over(endedAt[m], Asked(w))
  BY <1>1, <1>3, HeldIsInForce
<1> HIDE DEF AuthorityTypeOK
<1>6. ExpiresAt(named[w])' = ExpiresAt(g)
  BY <1>3 DEF ExpiresAt, records
<1>7. \A until, at : Over(until, at)' <=> Over(until, at)
  BY DEF Over
<1> QED BY <1>3, <1>4, <1>5, <1>6, <1>7 DEF Stands, InForce, records, Over

\* What a decision rested on still stands after a step: what withdraws it now does so
\* after the write began.
LEMMA DecisionsStay ==
  ASSUME AuthorityInv, [AuthorityNext]_vars PROVE DecisionsStand'
<1> USE AuthorityAssumption DEF AuthorityInv
<1> SUFFICES ASSUME NEW w \in Writer, phase'[w] \in {"decided", "committed"}
             PROVE  Stands(w)'
  BY DEF DecisionsStand
<1>1. CASE Authorise(w)
  BY <1>1, DecidesOnWhatStands
<1>2. CASE phase[w] \in {"decided", "committed"} /\ named'[w] = named[w]
  <2>1. Stands(w) /\ Grows(w) /\ start[w] \in Nat
    BY <1>2, RecordsGrow DEF DecisionsStand, Dated, Time
  <2>2. Asked(w)' = Asked(w) /\ Asked(w) \in Nat
    BY <2>1, DatesTruncate DEF Grows, Asked
  <2>g. PICK g \in Grant : g = named[w]
    BY <2>1 DEF Stands
  <2>0. /\ effectiveFrom[g] \in 1 .. Asked(w)
        /\ ~ Over(revokedAt[g], Asked(w)) \/ Since(w, "revoke", g)
    BY <2>1, <2>g DEF Stands
  <2>a. /\ since[w] \subseteq since'[w]
        /\ effectiveFrom'[g] # effectiveFrom[g] => effectiveFrom[g] = Null
        /\ revokedAt'[g] # revokedAt[g] => Since(w, "revoke", g)'
    BY <2>0, <2>1 DEF Grows
  <2>3. effectiveFrom'[g] = effectiveFrom[g] /\ effectiveFrom[g] \in 1 .. Asked(w)
    BY <2>0, <2>a, <2>2 DEF Null
  <2>4. ExpiresAt(named[w])' = ExpiresAt(g)
    BY <1>2, <2>g, <2>3 DEF ExpiresAt
  <2>5. ~ Over(revokedAt'[g], Asked(w)) \/ Since(w, "revoke", g)'
    BY <2>0, <2>a DEF Since
  <2>6. PICK m \in Membership :
          /\ beganAt[m] \in 1 .. Asked(w)
          /\ ~ Over(endedAt[m], Asked(w)) \/ Since(w, "end", m)
    BY <2>1 DEF Stands
  <2>7. /\ beganAt'[m] \in 1 .. Asked(w)
        /\ ~ Over(endedAt'[m], Asked(w)) \/ Since(w, "end", m)'
    <3>1. /\ beganAt'[m] # beganAt[m] => beganAt[m] = Null
          /\ endedAt'[m] # endedAt[m] => Since(w, "end", m)' \/ beganAt[m] = Null
      BY <2>1 DEF Grows
    <3>2. beganAt[m] # Null
      BY <2>2, <2>6 DEF Null
    <3> QED BY <2>a, <2>6, <3>1, <3>2 DEF Since
  <2>8. Since(w, "revoke", named[w])' <=> Since(w, "revoke", g)'
    BY <1>2, <2>g DEF Since
  <2>9. ~ Over(ExpiresAt(g), Asked(w))
    BY <2>1, <2>g DEF Stands
  <2> QED BY <1>2, <2>g, <2>9, <2>2, <2>3, <2>4, <2>5, <2>7, <2>8 DEF Stands, Over
<1> QED BY <1>1, <1>2, WritersDecide

\* A refusal stays deserved: what is entered after it was not there to be found.
LEMMA RefusalsStay ==
  ASSUME AuthorityInv, [AuthorityNext]_vars PROVE RefusalsAreDeserved'
<1> USE AuthorityAssumption DEF AuthorityInv
<1> DEFINE Covering(m, at) == beganAt[m] \in 1 .. at /\ ~ Over(endedAt[m], at)
<1> SUFFICES ASSUME NEW w \in Writer, NEW g \in Issuing,
                    phase'[w] = "refused", InForce(g, Asked(w))',
                    ~ Since(w, "grant", g)',
                    NEW m \in Membership, Covering(m, Asked(w))'
             PROVE  Since(w, "join", m)' \/ Since(w, "end", m)'
  BY DEF RefusalsAreDeserved
<1>0. g \in Grant
  OBVIOUS
<1>1. CASE Refuse(w)
  <2>1. UNCHANGED <<start, records>> /\ Authorising(AsDate(start[w])) = {} /\ phase[w] = "open"
    BY <1>1 DEF Refuse
  <2>2. AsDate(start[w]) = Asked(w) /\ Asked(w) \in Nat /\ Asked(w)' = Asked(w)
    BY <2>1, DatesTruncate DEF Dated, Time, Asked
  <2>3. InForce(g, Asked(w)) /\ Covering(m, Asked(w))
    BY <2>1, <2>2 DEF InForce, Over, ExpiresAt, records
  <2>4. HeldAt(g, Asked(w))
    BY <1>0, <2>2, <2>3, HeldIsInForce
  <2> QED BY <2>1, <2>2, <2>4, SomeGrantIsFirst
<1>2. CASE phase[w] = "refused"
  <2>1. Grows(w) /\ start[w] \in Nat
    BY <1>2, RecordsGrow DEF Dated, Time
  <2>2. Asked(w)' = Asked(w) /\ Asked(w) \in Nat
    BY <2>1, DatesTruncate DEF Grows, Asked
  <2>3. effectiveFrom'[g] = effectiveFrom[g]
    BY <1>0, <2>1 DEF Grows
  <2>4. ~ Over(revokedAt[g], Asked(w))
    BY <1>0, <2>1, <2>2 DEF Grows, InForce, Over
  <2>5. InForce(g, Asked(w))
    BY <2>2, <2>3, <2>4 DEF InForce, ExpiresAt, Over
  <2>6. ~ Since(w, "grant", g)
    BY <2>1 DEF Grows, Since
  <2>7. CASE Covering(m, Asked(w))
    BY <1>2, <2>1, <2>5, <2>6, <2>7 DEF RefusalsAreDeserved, Grows, Since
  <2>8. CASE ~ Covering(m, Asked(w))
    <3>1. beganAt'[m] # beganAt[m] \/ endedAt'[m] # endedAt[m]
      BY <2>2, <2>8 DEF Over
    <3> QED BY <2>1, <3>1 DEF Grows
  <2> QED BY <2>7, <2>8
<1> QED BY <1>1, <1>2, WritersDecide

\* The step of the inductive invariant.
LEMMA StepKeepsInv ==
  ASSUME AuthorityInv, [AuthorityNext]_vars PROVE AuthorityInv'
<1>1. AuthorityTypeOK' /\ Dated'
  BY TypesStay, DatesStay DEF AuthorityInv
<1>2. DecisionsStand' /\ RefusalsAreDeserved'
  BY DecisionsStay, RefusalsStay
<1> QED BY <1>1, <1>2 DEF AuthorityInv

\* The change of an answer has an act to account for it.
Accounted(g, at) ==
  \/ effectiveFrom[g] = Null /\ effectiveFrom'[g] \in 1 .. at
  \/ revokedAt[g] = Null /\ revokedAt'[g] \in 1 .. at
  \/ \E m \in Membership : beganAt[m] = Null /\ beganAt'[m] \in 1 .. at
  \/ \E m \in Membership :
       beganAt[m] \in 1 .. at /\ Over(endedAt'[m], at) # Over(endedAt[m], at)

\* An act dated after an instant does not change the answer at it, and nothing but an
\* act changes any.
LEMMA OnlyActsReachBack ==
  ASSUME AuthorityTypeOK, [AuthorityNext]_vars, NEW g \in Grant, NEW at \in Time,
         HeldAt(g, at)' # HeldAt(g, at)
  PROVE  Accounted(g, at)
<1> USE AuthorityAssumption
<1> DEFINE Covered(m) == beganAt[m] \in 1 .. at /\ ~ Over(endedAt[m], at)
<1>0. at \in Nat /\ at \in Nat' /\ AuthorityTypeOK'
  BY TypesStay DEF Time
<1>1. HeldAt(g, at) <=> InForce(g, at) /\ \E m \in Membership : Covered(m)
  BY <1>0, HeldIsInForce
<1>2. HeldAt(g, at)' <=> InForce(g, at)' /\ \E m \in Membership : Covered(m)'
  <2> USE <1>0 DEF AuthorityTypeOK, Instant, Time, Null
  <2>1. \A m \in Membership : Covers(beganAt[m], endedAt[m], at)' <=> Covered(m)'
    BY DEF Covers, Over
  <2>2. ExpiresAt(g)' \in Nat
    BY DEF ExpiresAt
  <2>3. Covers(effectiveFrom[g], ExpiresAt(g), at)'
          <=> effectiveFrom'[g] \in 1 .. at /\ ~ Over(ExpiresAt(g), at)'
    BY <2>2 DEF Covers, Over
  <2>4. Unrevoked(g, at)' <=> ~ Over(revokedAt[g], at)'
    BY DEF Unrevoked, Over
  <2> QED BY <2>1, <2>3, <2>4 DEF HeldAt, InForce, CoveredByMembership
<1>a. ~ (HeldAt(g, at)' <=> HeldAt(g, at))
  <2>1. HeldAt(g, at) \in BOOLEAN /\ HeldAt(g, at)' \in BOOLEAN
    BY DEF HeldAt
  <2> QED BY <2>1
<1>3. CASE UNCHANGED records
  BY <1>a, <1>3 DEF records, HeldAt, Covers, Unrevoked, CoveredByMembership, ExpiresAt
<1>4. ASSUME NEW h \in Grant, CommitGrant(h) PROVE Accounted(g, at)
  <2>1. UNCHANGED <<revokedAt, beganAt, endedAt>> /\ effectiveFrom[h] = Null
        /\ \A k \in Grant : k # h => effectiveFrom'[k] = effectiveFrom[k]
    BY <1>4 DEF CommitGrant, AuthorityTypeOK
  <2>2. ~ (InForce(g, at) <=> InForce(g, at)')
    <3>1. \A m \in Membership : Covered(m)' <=> Covered(m)
      BY <2>1 DEF Over
    <3> HIDE DEF Covered
    <3> QED BY <1>1, <1>2, <1>a, <3>1
  <2>3. g = h
    BY <2>1, <2>2 DEF InForce, Over, ExpiresAt
  <2>4. ~ InForce(g, at)
    BY <1>0, <2>1, <2>3 DEF InForce, Null
  <2> QED BY <2>1, <2>2, <2>3, <2>4 DEF Accounted, InForce
<1>5. ASSUME NEW h \in Grant, CommitRevocation(h) PROVE Accounted(g, at)
  <2>1. UNCHANGED <<effectiveFrom, beganAt, endedAt>> /\ revokedAt[h] = Null
        /\ \A k \in Grant : k # h => revokedAt'[k] = revokedAt[k]
    BY <1>5 DEF CommitRevocation, AuthorityTypeOK
  <2>2. ~ (InForce(g, at) <=> InForce(g, at)')
    <3>1. \A m \in Membership : Covered(m)' <=> Covered(m)
      BY <2>1 DEF Over
    <3> HIDE DEF Covered
    <3> QED BY <1>1, <1>2, <1>a, <3>1
  <2>3. Over(revokedAt'[g], at) # Over(revokedAt[g], at)
    BY <2>1, <2>2 DEF InForce, Over, ExpiresAt
  <2>4. g = h /\ ~ Over(revokedAt[g], at)
    BY <2>1, <2>3 DEF Over
  <2>5. revokedAt'[g] \in 1 .. at
    BY <1>0, <2>3, <2>4 DEF Over, AuthorityTypeOK, Instant, Time, Null
  <2> QED BY <2>1, <2>4, <2>5 DEF Accounted
<1>6. ASSUME NEW n \in Membership, CommitMembership(n) PROVE Accounted(g, at)
  <2>1. UNCHANGED <<effectiveFrom, revokedAt>> /\ beganAt[n] = Null
        /\ \A m \in Membership : m # n => beganAt'[m] = beganAt[m] /\ endedAt'[m] = endedAt[m]
    BY <1>6 DEF CommitMembership, AuthorityTypeOK
  <2>2. InForce(g, at) <=> InForce(g, at)'
    BY <2>1 DEF InForce, Over, ExpiresAt
  <2>3. PICK m \in Membership : ~ (Covered(m) <=> Covered(m)')
    <3> HIDE DEF Covered
    <3> QED BY <1>1, <1>2, <1>a, <2>2
  <2>4. m = n
    BY <2>1, <2>3 DEF Over
  <2>5. ~ Covered(n)
    BY <1>0, <2>1 DEF Null
  <2> QED BY <2>1, <2>3, <2>4, <2>5 DEF Accounted
<1>7. ASSUME NEW n \in Membership, CommitEnding(n) PROVE Accounted(g, at)
  <2>1. UNCHANGED <<effectiveFrom, revokedAt, beganAt>>
        /\ \A m \in Membership : m # n => endedAt'[m] = endedAt[m]
    BY <1>7 DEF CommitEnding, AuthorityTypeOK
  <2>2. InForce(g, at) <=> InForce(g, at)'
    BY <2>1 DEF InForce, Over, ExpiresAt
  <2>3. PICK m \in Membership : ~ (Covered(m) <=> Covered(m)')
    <3> HIDE DEF Covered
    <3> QED BY <1>1, <1>2, <1>a, <2>2
  <2>4. beganAt[m] \in 1 .. at /\ Over(endedAt'[m], at) # Over(endedAt[m], at)
    BY <2>1, <2>3 DEF Over
  <2> QED BY <2>4 DEF Accounted
<1>8. \/ UNCHANGED records
      \/ \E h \in Grant : CommitGrant(h) \/ CommitRevocation(h)
      \/ \E n \in Membership : CommitMembership(n) \/ CommitEnding(n)
  BY DEF AuthorityNext, BeginWrite, Authorise, Refuse, CommitWrite, Abandon, TimePasses, vars
<1> QED BY <1>3, <1>4, <1>5, <1>6, <1>7, <1>8

-----------------------------------------------------------------------------
(***************************************************************************)
(* The theorems.                                                           *)
(***************************************************************************)

\* Every variable keeps its type, and every row the foreign key and the CHECK on its
\* dates, whatever instants operators choose (schema/capacity-grant.ts,
\* schema/membership.ts).
THEOREM AuthorityTypeCorrect == AuthoritySpec => []AuthorityTypeOK
<1>1. AuthorityInit => AuthorityTypeOK
  BY InitInv DEF AuthorityInv
<1>2. AuthorityTypeOK /\ [AuthorityNext]_vars => AuthorityTypeOK'
  BY TypesStay
<1> QED BY <1>1, <1>2, PTL DEF AuthoritySpec

\* The inductive invariant: decisions and refusals are borne out by the rows there were
\* when the write began, and by the acts since.
THEOREM AuthorityInvariance == AuthoritySpec => []AuthorityInv
<1>1. AuthorityInit => AuthorityInv
  BY InitInv
<1>2. AuthorityInv /\ [AuthorityNext]_vars => AuthorityInv'
  BY StepKeepsInv
<1> QED BY <1>1, <1>2, PTL DEF AuthoritySpec

\* What was withdrawn before a writer began authorises nothing it records, for any
\* dates and any number of acts around it (product-repository.ts:75-89,
\* authority-repository.ts).
THEOREM TheWithdrawnIsNotUsed == AuthoritySpec => []WithdrawnIsNotUsed
<1>1. AuthorityInv => WithdrawnIsNotUsed
  BY DEF AuthorityInv, DecisionsStand, Stands, WithdrawnIsNotUsed
<1> QED BY <1>1, AuthorityInvariance, PTL

\* A writer that was refused held nothing that was committed before it began
\* (register-product.ts:137-173).
THEOREM RefusalsAreFair == AuthoritySpec => []RefusalsAreDeserved
<1>1. AuthorityInv => RefusalsAreDeserved
  BY DEF AuthorityInv
<1> QED BY <1>1, AuthorityInvariance, PTL

\* No answer about an instant is changed by a row dated after it, nor by anything but
\* a new row or the end of a membership (drizzle/0018:146-249).
THEOREM OnlyTheEndIsRewritten == AuthoritySpec => HistoryKeepsItsAnswer
<1>1. AuthorityTypeOK /\ [AuthorityNext]_vars =>
        \A g \in Grant, at \in Time : HeldAt(g, at)' # HeldAt(g, at) => Accounted(g, at)
  BY OnlyActsReachBack
<1>2. AuthorityTypeOK /\ [AuthorityNext]_vars =>
        [\A g \in Grant, at \in Time : HeldAt(g, at)' # HeldAt(g, at) => Accounted(g, at)]_vars
  BY <1>1
<1> QED BY <1>2, AuthorityTypeCorrect, PTL DEF AuthoritySpec, HistoryKeepsItsAnswer, Accounted
=============================================================================
