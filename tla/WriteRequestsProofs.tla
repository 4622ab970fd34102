------------------------- MODULE WriteRequestsProofs -------------------------
(***************************************************************************)
(* The promises of the two routes that write, for any number of requests,  *)
(* issuances, handles, addresses and allowances.                           *)
(*                                                                         *)
(* RequestInv says what is known of a request wherever it is; it is        *)
(* inductive together with CredentialsInv and the types. One lemma per     *)
(* action shows it for the request the action is about, and one shows      *)
(* that the others keep it.                                                *)
(***************************************************************************)
EXTENDS WriteRequests, FiniteSetTheorems, TLAPS

-----------------------------------------------------------------------------
(***************************************************************************)
(* What issuing credentials maintains: the rows there are are those that   *)
(* were issued, no two share a handle, and an actor exists only with its   *)
(* credential.                                                             *)
(***************************************************************************)
Settled(i) == stage[i] \in {"returned", "unheard"}

RowOf(i) == [handle |-> drew[i], actor |-> recipient[i], secret |-> SecretOf(i)]

\* What an issuance has found and drawn by the statement it is at.
Progress ==
  \A i \in Issuance :
    /\ stage[i] \in {"idle", "actor"} => recipient[i] = None /\ attempt[i] = 0
    /\ stage[i] \notin {"idle", "actor", "failed"} => recipient[i] \in Actor
    /\ stage[i] = "draw" => attempt[i] < HandleAttempts
    /\ stage[i] \in {"insert", "commit", "returned", "unheard"} =>
         attempt[i] \in 1 .. HandleAttempts /\ drew[i] \in Handle

\* The rows are what was committed, and nothing else.
RowsAreIssued ==
  /\ \A c \in credentials : \E i \in Issuance : Settled(i) /\ c = RowOf(i)
  /\ \A i \in Issuance : Settled(i) => RowOf(i) \in credentials

\* The unique index covers what is inserted and not yet committed.
Inserted(i) == Settled(i) \/ stage[i] = "commit"

HandlesAreUnique ==
  \A i, j \in Issuance :
    i # j /\ Inserted(i) /\ Inserted(j) => drew[i] # drew[j]

\* An actor that is being created belongs to one issuance until that commits.
ActorsAreIssued ==
  /\ actors \subseteq Standing \cup {recipient[i] : i \in Issuance}
  /\ \A i \in Issuance :
       /\ Settled(i) => recipient[i] \in actors
       /\ asked[i] # New /\ recipient[i] # None => recipient[i] \in actors
       /\ asked[i] = New /\ ~ Settled(i) => recipient[i] \notin actors
  /\ \A i, j \in Issuance :
       i # j /\ asked[i] = New /\ recipient[i] # None /\ ~ Settled(i) =>
         recipient[j] # recipient[i]

CredentialsInv ==
  CredentialsTypeOK /\ Progress /\ RowsAreIssued /\ HandlesAreUnique /\ ActorsAreIssued

\* No row is there at first, and no actor is being created.
LEMMA CredentialsInitInv == CredentialsInit => CredentialsInv
<1> USE CredentialsAssumption
<1> SUFFICES ASSUME CredentialsInit PROVE CredentialsInv
  OBVIOUS
<1>1. CredentialsTypeOK
  BY DEF CredentialsInit, CredentialsTypeOK
<1>2. Progress
  BY DEF CredentialsInit, Progress
<1>3. RowsAreIssued /\ HandlesAreUnique
  BY DEF CredentialsInit, RowsAreIssued, HandlesAreUnique, Settled, Inserted
<1>4. ActorsAreIssued
  BY DEF CredentialsInit, ActorsAreIssued, Settled
<1> QED BY <1>1, <1>2, <1>3, <1>4 DEF CredentialsInv

-----------------------------------------------------------------------------
(***************************************************************************)
(* One lemma for each kind of step.                                        *)
(***************************************************************************)

\* Before anything is drawn: the actor is asked for, found, not found or made.
LEMMA FindingKeepsInv ==
  ASSUME CredentialsInv, NEW i \in Issuance,
         \/ \E a \in Actor \cup {New} : Ask(i, a)
         \/ FindActor(i)
         \/ NoSuchActor(i)
         \/ \E a \in Actor : CreateActor(i, a)
  PROVE  CredentialsInv'
<1> USE CredentialsAssumption
<1>0. CredentialsTypeOK /\ Progress /\ RowsAreIssued /\ HandlesAreUnique /\ ActorsAreIssued
  BY DEF CredentialsInv
<1>1. /\ UNCHANGED <<now, actors, credentials, revoked, expiresAt, attempt, drew>>
      /\ \A j \in Issuance \ {i} :
           stage'[j] = stage[j] /\ asked'[j] = asked[j] /\ recipient'[j] = recipient[j]
      /\ stage[i] \in {"idle", "actor"} /\ stage'[i] \in {"actor", "draw", "failed"}
      /\ recipient[i] = None /\ attempt[i] = 0
  BY <1>0 DEF CredentialsTypeOK, Progress, Ask, FindActor, NoSuchActor, CreateActor, Created, Moves
<1>2. CredentialsTypeOK'
  BY <1>0, <1>1 DEF CredentialsTypeOK, Ask, FindActor, NoSuchActor, CreateActor, Created, Moves
<1>3. Progress'
  BY <1>0, <1>1 DEF CredentialsTypeOK, Progress, Ask, FindActor, NoSuchActor, CreateActor, Created, Moves
<1>4. /\ \A j \in Issuance : Settled(j)' <=> Settled(j)
      /\ \A j \in Issuance : Settled(j) => RowOf(j)' = RowOf(j) /\ j # i
      /\ \A j \in Issuance : Inserted(j)' <=> Inserted(j)
  BY <1>1 DEF Settled, Inserted, RowOf, SecretOf
<1>5. RowsAreIssued'
  BY <1>0, <1>1, <1>4 DEF RowsAreIssued
<1>6. HandlesAreUnique'
  BY <1>0, <1>1, <1>4 DEF HandlesAreUnique
<1>7. ActorsAreIssued'
  <2>1. actors \subseteq Actor
    BY <1>0 DEF CredentialsTypeOK
  <2>2. (actors \subseteq Standing \cup {recipient[j] : j \in Issuance})'
    BY <1>0, <1>1, <2>1 DEF ActorsAreIssued
  <2>3. CASE \E a \in Actor \cup {New} : Ask(i, a)
    BY <1>0, <1>1, <1>4, <2>1, <2>2, <2>3
       DEF ActorsAreIssued, CredentialsTypeOK, Ask, Moves, Settled
  <2>4. CASE FindActor(i)
    BY <1>0, <1>1, <1>4, <2>1, <2>2, <2>4
       DEF ActorsAreIssued, CredentialsTypeOK, FindActor, Moves, Settled
  <2>5. CASE NoSuchActor(i)
    BY <1>0, <1>1, <1>4, <2>1, <2>2, <2>5
       DEF ActorsAreIssued, CredentialsTypeOK, NoSuchActor, Moves, Settled
  <2>6. ASSUME NEW a \in Actor, CreateActor(i, a) PROVE ActorsAreIssued'
    <3>1. recipient'[i] = a /\ asked' = asked /\ asked[i] = New /\ a # None
      BY <1>0, <2>6 DEF CreateActor, CredentialsTypeOK
    <3>2. /\ a \notin Standing
          /\ \A j \in Issuance : recipient[j] # a
      BY <2>6 DEF CreateActor, Unused
    <3>3. a \notin actors
      BY <1>0, <3>2 DEF ActorsAreIssued
    <3> QED BY <1>0, <1>1, <1>4, <2>1, <2>2, <3>1, <3>2, <3>3 DEF ActorsAreIssued
  <2> QED BY <2>3, <2>4, <2>5, <2>6
<1> QED BY <1>2, <1>3, <1>5, <1>6, <1>7 DEF CredentialsInv

\* A handle is drawn, inserted or found to be taken, or the transaction fails.
LEMMA DrawingKeepsInv ==
  ASSUME CredentialsInv, NEW i \in Issuance,
         \/ \E h \in Handle : DrawHandle(i, h)
         \/ InsertCredential(i)
         \/ DoNothing(i)
         \/ Fail(i)
  PROVE  CredentialsInv'
<1> USE CredentialsAssumption
<1>0. CredentialsTypeOK /\ Progress /\ RowsAreIssued /\ HandlesAreUnique /\ ActorsAreIssued
  BY DEF CredentialsInv
<1>1. /\ UNCHANGED <<now, actors, credentials, revoked, expiresAt, asked, recipient>>
      /\ \A j \in Issuance \ {i} :
           stage'[j] = stage[j] /\ attempt'[j] = attempt[j] /\ drew'[j] = drew[j]
      /\ stage[i] \in {"actor", "draw", "insert", "commit"}
      /\ stage'[i] \in {"draw", "insert", "commit", "failed"}
  BY <1>0 DEF CredentialsTypeOK, DrawHandle, InsertCredential, DoNothing, Fail, Moves
<1>2. CredentialsTypeOK' /\ Progress'
  <2>1. CASE \E h \in Handle : DrawHandle(i, h)
    BY <1>0, <1>1, <2>1 DEF CredentialsTypeOK, Progress, DrawHandle, Moves
  <2>2. CASE InsertCredential(i)
    BY <1>0, <1>1, <2>2 DEF CredentialsTypeOK, Progress, InsertCredential, Moves
  <2>3. CASE DoNothing(i)
    BY <1>0, <1>1, <2>3 DEF CredentialsTypeOK, Progress, DoNothing, AttemptsLeft, Moves
  <2>4. CASE Fail(i)
    BY <1>0, <1>1, <2>4 DEF CredentialsTypeOK, Progress, Fail, Moves
  <2> QED BY <2>1, <2>2, <2>3, <2>4
<1>3. /\ \A j \in Issuance : Settled(j)' <=> Settled(j)
      /\ \A j \in Issuance : Settled(j) => RowOf(j)' = RowOf(j) /\ j # i
      /\ \A j \in Issuance \ {i} : Inserted(j)' <=> Inserted(j)
  BY <1>1 DEF Settled, Inserted, RowOf, SecretOf
<1>4. RowsAreIssued'
  BY <1>0, <1>1, <1>3 DEF RowsAreIssued
<1>5. HandlesAreUnique'
  <2>1. CASE InsertCredential(i)
    <3>1. drew' = drew
      BY <2>1 DEF InsertCredential
    <3>2. \A j \in Issuance \ {i} : Inserted(j) => drew[j] # drew[i]
      BY <1>0, <2>1 DEF InsertCredential, HandleTaken, HandleInDoubt, Inserted, RowsAreIssued, RowOf
    <3> QED BY <1>0, <1>3, <3>1, <3>2 DEF HandlesAreUnique
  <2>2. CASE ~ InsertCredential(i)
    <3>1. stage'[i] # "commit"
      BY <1>0, <1>1, <2>2 DEF CredentialsTypeOK, DrawHandle, DoNothing, Fail, Moves
    <3>2. ~ Inserted(i)'
      BY <1>1, <3>1 DEF Inserted, Settled
    <3> QED BY <1>0, <1>1, <1>3, <3>2 DEF HandlesAreUnique
  <2> QED BY <2>1, <2>2
<1>6. ActorsAreIssued'
  BY <1>0, <1>1, <1>3 DEF ActorsAreIssued
<1> QED BY <1>2, <1>4, <1>5, <1>6 DEF CredentialsInv

\* The transaction commits, whether or not that is heard of.
LEMMA CommittingKeepsInv ==
  ASSUME CredentialsInv, NEW i \in Issuance, Return(i) \/ ReturnUnheard(i)
  PROVE  CredentialsInv'
<1> USE CredentialsAssumption
<1>0. CredentialsTypeOK /\ Progress /\ RowsAreIssued /\ HandlesAreUnique /\ ActorsAreIssued
  BY DEF CredentialsInv
<1>1. /\ UNCHANGED <<now, revoked, expiresAt, asked, recipient, attempt, drew>>
      /\ credentials' = credentials \cup {RowOf(i)}
      /\ actors' = actors \cup {recipient[i]}
      /\ \A j \in Issuance \ {i} : stage'[j] = stage[j]
      /\ stage[i] = "commit" /\ Settled(i)'
      /\ stage' \in [Issuance -> {"idle", "actor", "draw", "insert", "commit",
                                  "returned", "failed", "unheard"}]
  BY <1>0 DEF CredentialsTypeOK, Return, ReturnUnheard, Commits, Moves, RowOf, Settled
<1>2. /\ recipient[i] \in Actor /\ drew[i] \in Handle
      /\ attempt[i] \in 1 .. HandleAttempts
  BY <1>0, <1>1 DEF Progress
<1>3. RowOf(i) \in Credential
  BY <1>2 DEF RowOf, Credential, SecretOf, Secret
<1>4. CredentialsTypeOK'
  BY <1>0, <1>1, <1>2, <1>3 DEF CredentialsTypeOK
<1>5. Progress'
  BY <1>0, <1>1, <1>2 DEF Progress, Settled
<1>6. /\ \A j \in Issuance : RowOf(j)' = RowOf(j)
      /\ \A j \in Issuance \ {i} : Settled(j)' <=> Settled(j)
      /\ \A j \in Issuance : Inserted(j)' <=> Inserted(j)
  BY <1>1 DEF Settled, Inserted, RowOf, SecretOf
<1>7. RowsAreIssued'
  BY <1>0, <1>1, <1>6 DEF RowsAreIssued, Settled
<1>8. HandlesAreUnique'
  BY <1>0, <1>1, <1>6 DEF HandlesAreUnique
<1>9. ActorsAreIssued'
  <2>1. \A j \in Issuance \ {i} :
          asked[j] = New /\ ~ Settled(j) => recipient[i] # recipient[j]
    BY <1>0, <1>2 DEF ActorsAreIssued
  <2>2. \A j \in Issuance \ {i} : ~ Settled(j)' => ~ Settled(j)
    BY <1>6
  <2> QED BY <1>0, <1>1, <1>6, <2>1, <2>2 DEF ActorsAreIssued
<1> QED BY <1>4, <1>5, <1>7, <1>8, <1>9 DEF CredentialsInv

\* Operators and the clock touch nothing the invariant relates.
LEMMA WithdrawingKeepsInv ==
  ASSUME CredentialsInv,
         \/ \E c \in credentials : Revoke(c) \/ \E end \in 2 .. MaxNow : GiveEnd(c, end)
         \/ NowPasses
         \/ UNCHANGED credentialVars
  PROVE  CredentialsInv'
<1> USE CredentialsAssumption
<1>0. CredentialsTypeOK /\ Progress /\ RowsAreIssued /\ HandlesAreUnique /\ ActorsAreIssued
  BY DEF CredentialsInv
<1>1. UNCHANGED <<actors, credentials, stage, asked, recipient, attempt, drew>>
  BY DEF Revoke, GiveEnd, NowPasses, issuanceVars, credentialVars
<1>2. CredentialsTypeOK'
  BY <1>0, <1>1 DEF CredentialsTypeOK, Revoke, GiveEnd, NowPasses, credentialVars, Credential
<1>3. /\ \A j \in Issuance : RowOf(j)' = RowOf(j)
      /\ \A j \in Issuance : Settled(j)' <=> Settled(j)
      /\ \A j \in Issuance : Inserted(j)' <=> Inserted(j)
  BY <1>1 DEF Settled, Inserted, RowOf, SecretOf
<1>4. Progress' /\ RowsAreIssued'
  BY <1>0, <1>1, <1>3 DEF Progress, RowsAreIssued
<1>5. HandlesAreUnique' /\ ActorsAreIssued'
  BY <1>0, <1>1, <1>3 DEF HandlesAreUnique, ActorsAreIssued
<1> QED BY <1>2, <1>4, <1>5 DEF CredentialsInv

\* The invariant is inductive.
LEMMA CredentialsStepKeepsInv ==
  ASSUME CredentialsInv, [CredentialsNext]_credentialVars
  PROVE  CredentialsInv'
BY FindingKeepsInv, DrawingKeepsInv, CommittingKeepsInv, WithdrawingKeepsInv
   DEF CredentialsNext

-----------------------------------------------------------------------------
(***************************************************************************)
(* What a step never takes back.                                           *)
(***************************************************************************)

\* What was committed stays as it was committed.
LEMMA CommittedStays ==
  ASSUME CredentialsInv, [CredentialsNext]_credentialVars,
         NEW i \in Issuance, Settled(i)
  PROVE  /\ stage'[i] = stage[i] /\ recipient'[i] = recipient[i]
         /\ attempt'[i] = attempt[i] /\ drew'[i] = drew[i]
<1>1. CredentialsTypeOK
  BY DEF CredentialsInv
<1>2. CASE UNCHANGED credentialVars
  BY <1>2 DEF credentialVars, issuanceVars
<1>3. CASE NowPasses \/ \E c \in credentials : Revoke(c) \/ \E end \in 2 .. MaxNow : GiveEnd(c, end)
  BY <1>3 DEF NowPasses, Revoke, GiveEnd, issuanceVars
<1>4. ASSUME NEW j \in Issuance,
             (\E a \in Actor \cup {New} : Ask(j, a)) \/ FindActor(j) \/ NoSuchActor(j)
               \/ \E a \in Actor : CreateActor(j, a)
      PROVE  /\ stage'[i] = stage[i] /\ recipient'[i] = recipient[i]
             /\ attempt'[i] = attempt[i] /\ drew'[i] = drew[i]
  BY <1>1, <1>4 DEF CredentialsTypeOK, Settled, Moves, Ask, FindActor, NoSuchActor, CreateActor
<1>5. ASSUME NEW j \in Issuance,
             (\E h \in Handle : DrawHandle(j, h)) \/ InsertCredential(j) \/ DoNothing(j)
               \/ Return(j) \/ ReturnUnheard(j) \/ Fail(j)
      PROVE  /\ stage'[i] = stage[i] /\ recipient'[i] = recipient[i]
             /\ attempt'[i] = attempt[i] /\ drew'[i] = drew[i]
  BY <1>1, <1>5 DEF CredentialsTypeOK, Settled, Moves, Commits, DrawHandle, InsertCredential,
                    DoNothing, Return, ReturnUnheard, Fail
<1> QED BY <1>2, <1>3, <1>4, <1>5 DEF CredentialsNext

\* Rows and actors are never deleted, and what is withdrawn stays withdrawn.
LEMMA NothingIsTakenBack ==
  ASSUME CredentialsInv, [CredentialsNext]_credentialVars
  PROVE  /\ actors \subseteq actors' /\ credentials \subseteq credentials'
         /\ \A s \in Secret : Withdrawn(s) => Withdrawn(s)'
<1>1. CredentialsTypeOK
  BY DEF CredentialsInv
<1>2. actors \subseteq actors' /\ credentials \subseteq credentials'
  <2>1. CASE UNCHANGED credentialVars
    BY <2>1 DEF credentialVars
  <2>2. CASE CredentialsNext
    BY <2>2 DEF CredentialsNext, NowPasses, Revoke, GiveEnd, Ask, FindActor, NoSuchActor,
                CreateActor, Created, DrawHandle, InsertCredential, DoNothing, Return,
                ReturnUnheard, Commits, Fail
  <2> QED BY <2>1, <2>2
<1>3. /\ now \in Nat /\ now' \in Nat /\ now' >= now /\ revoked \subseteq revoked'
      /\ \A s \in Secret : expiresAt[s] # 0 => expiresAt'[s] = expiresAt[s]
  <2>1. CASE UNCHANGED <<now, revoked, expiresAt>>
    BY <1>1, <2>1, CredentialsAssumption DEF CredentialsTypeOK
  <2>2. CASE NowPasses
    BY <1>1, <2>2, CredentialsAssumption DEF CredentialsTypeOK, NowPasses
  <2>3. CASE \E c \in credentials : Revoke(c) \/ \E end \in 2 .. MaxNow : GiveEnd(c, end)
    BY <1>1, <2>3, CredentialsAssumption DEF CredentialsTypeOK, Revoke, GiveEnd
  <2>4. ASSUME NEW j \in Issuance,
             \/ \E a \in Actor \cup {New} : Ask(j, a)
             \/ FindActor(j) \/ NoSuchActor(j)
             \/ \E a \in Actor : CreateActor(j, a)
             \/ \E h \in Handle : DrawHandle(j, h)
             \/ InsertCredential(j) \/ DoNothing(j)
             \/ Return(j) \/ ReturnUnheard(j) \/ Fail(j)
        PROVE UNCHANGED <<now, revoked, expiresAt>>
    BY <2>4 DEF Ask, FindActor, NoSuchActor, CreateActor, DrawHandle, InsertCredential,
                DoNothing, Return, ReturnUnheard, Fail, Moves
  <2>5. CASE UNCHANGED credentialVars
    BY <2>1, <2>5 DEF credentialVars
  <2> QED BY <2>1, <2>2, <2>3, <2>4, <2>5 DEF CredentialsNext
<1>4. \A s \in Secret : Withdrawn(s) => Withdrawn(s)'
  BY <1>3 DEF Withdrawn
<1> QED BY <1>2, <1>4

-----------------------------------------------------------------------------
(***************************************************************************)
(* What is known of a request wherever it is.                              *)
(***************************************************************************)

\* A token comes from what somebody was shown: its secret is an issuance's.
TokenIsShown(r) ==
  LET token == sent[r].token
  IN \/ token = Nothing
     \/ /\ token \in Token
        /\ Issuer(token) \in Issuance /\ stage[Issuer(token)] = "returned"
        /\ token.secret = SecretOf(Issuer(token))

\* The actor a principal names is the one its token was issued to.
PrincipalIsIssued(r) ==
  principal[r] # None =>
    LET token == sent[r].token
    IN /\ token \in Shown
       /\ principal[r] = recipient[Issuer(token)] /\ principal[r] \in actors

\* What a request has passed by the time it is at each middleware.
PassedInOrder(r) ==
  /\ at[r] = "idle" <=> sent[r] = NotSent
  /\ at[r] \in {"limit", "handler"} => principal[r] # None
  /\ at[r] \in {"idle", "cors", "credential"} => principal[r] = None
  /\ at[r] \in {"idle", "cors", "credential", "limit"} => charged[r] = None
  /\ at[r] \in {"credential", "limit", "handler"} => sent[r].method = "POST"
  /\ at[r] # "answered" => answer[r] = None
  /\ answer[r] \in {"204", "401"} => charged[r] = None
  /\ sent[r].method = "OPTIONS" => answer[r] \in {None, "204", "lost"}
  /\ charged[r] # None => charged[r] = principal[r]

\* A credential that was withdrawn when its request arrived is withdrawn still.
TooLateIsWithdrawn(r) ==
  tooLate[r] =>
    /\ principal[r] = None
    /\ \E c \in credentials : c.secret = sent[r].token.secret /\ Withdrawn(c.secret)

\* What is refused is not a token somebody was shown and that is in force.
RefusedIsWithdrawn(r) ==
  answer[r] = "401" =>
    \A token \in Shown : sent[r].token = token => Withdrawn(token.secret)

RequestInv(r) ==
  /\ TokenIsShown(r) /\ PrincipalIsIssued(r) /\ PassedInOrder(r)
  /\ TooLateIsWithdrawn(r) /\ RefusedIsWithdrawn(r)

RecordedByPrincipals ==
  \A e \in recorded : principal[e.request] # None /\ e.actor = principal[e.request]

RequestsInv ==
  /\ WriteRequestsTypeOK /\ CredentialsInv
  /\ \A r \in Request : RequestInv(r)
  /\ RecordedByPrincipals

\* Nothing is sent yet, and nothing recorded.
LEMMA RequestsInitInv == WriteRequestsInit => RequestsInv
<1> USE CredentialsAssumption, WriteRequestsAssumption
<1> SUFFICES ASSUME WriteRequestsInit PROVE RequestsInv
  OBVIOUS
<1>1. CredentialsInv
  BY CredentialsInitInv DEF WriteRequestsInit
<1>2. WriteRequestsTypeOK
  BY <1>1 DEF CredentialsInv, WriteRequestsInit, WriteRequestsTypeOK, Bucket!Init, Bucket!Full
<1>3. ASSUME NEW r \in Request PROVE RequestInv(r)
  <2>1. /\ at[r] = "idle" /\ sent[r] = NotSent /\ principal[r] = None
        /\ answer[r] = None /\ charged[r] = None /\ tooLate[r] = FALSE
    BY DEF WriteRequestsInit
  <2>2. sent[r].token = Nothing /\ sent[r].method = None
    BY <2>1 DEF NotSent
  <2>3. TokenIsShown(r) /\ PrincipalIsIssued(r) /\ TooLateIsWithdrawn(r) /\ RefusedIsWithdrawn(r)
    BY <2>1, <2>2 DEF TokenIsShown, PrincipalIsIssued, TooLateIsWithdrawn, RefusedIsWithdrawn, None
  <2>4. PassedInOrder(r)
    BY <2>1, <2>2 DEF PassedInOrder, None
  <2> QED BY <2>3, <2>4 DEF RequestInv
<1>4. RecordedByPrincipals
  BY DEF WriteRequestsInit, RecordedByPrincipals
<1> QED BY <1>1, <1>2, <1>3, <1>4 DEF RequestsInv

-----------------------------------------------------------------------------
(***************************************************************************)
(* Steps of issuances, operators and the database's clock.                 *)
(***************************************************************************)

\* The secret of a row or of a shown token is one that can be drawn.
LEMMA IssuedSecrets ==
  ASSUME CredentialsInv, NEW i \in Issuance, Settled(i)
  PROVE  /\ SecretOf(i) \in Secret /\ SecretOf(i)[1] = i
         /\ TokenOf(i) \in Token /\ TokenOf(i).secret = SecretOf(i)
         /\ Issuer(TokenOf(i)) = i
<1>1. attempt[i] \in 1 .. HandleAttempts /\ drew[i] \in Handle
  BY DEF CredentialsInv, Progress, Settled
<1> QED BY <1>1, CredentialsAssumption DEF SecretOf, Secret, TokenOf, Token, Issuer

\* They leave alone what is known of every request.
LEMMA CredentialStepsKeepInv ==
  ASSUME RequestsInv, CredentialsNext, UNCHANGED <<limiterVars, requestVars>>
  PROVE  RequestsInv'
<1>0. WriteRequestsTypeOK /\ CredentialsInv /\ RecordedByPrincipals /\ CredentialsTypeOK
  BY DEF RequestsInv, CredentialsInv
<1>1. CredentialsInv'
  BY <1>0, CredentialsStepKeepsInv
<1>2. WriteRequestsTypeOK'
  BY <1>0, <1>1 DEF WriteRequestsTypeOK, CredentialsInv, limiterVars, requestVars
<1>3. RecordedByPrincipals'
  BY <1>0 DEF RecordedByPrincipals, requestVars
<1>4. ASSUME NEW r \in Request PROVE RequestInv(r)'
  <2>1. /\ at'[r] = at[r] /\ sent'[r] = sent[r] /\ principal'[r] = principal[r]
        /\ answer'[r] = answer[r] /\ charged'[r] = charged[r] /\ tooLate'[r] = tooLate[r]
    BY DEF requestVars
  <2>2. RequestInv(r)
    BY DEF RequestsInv
  <2>3. \A i \in Issuance : stage[i] = "returned" =>
          /\ stage'[i] = "returned" /\ recipient'[i] = recipient[i]
          /\ SecretOf(i)' = SecretOf(i) /\ TokenOf(i)' = TokenOf(i)
    BY <1>0, CommittedStays DEF Settled, SecretOf, TokenOf
  <2>4. TokenIsShown(r)'
    BY <2>1, <2>2, <2>3 DEF RequestInv, TokenIsShown, Issuer
  <2>5. Shown \subseteq Shown'
    BY <2>3 DEF Shown
  <2>6. \A token \in Shown : Issuer(token) \in Issuance /\ stage[Issuer(token)] = "returned"
    BY <1>0, IssuedSecrets DEF Shown, Settled
  <2>7. PrincipalIsIssued(r)'
    BY <1>0, <2>1, <2>2, <2>3, <2>5, <2>6, NothingIsTakenBack
       DEF RequestInv, PrincipalIsIssued, Issuer
  <2>8. PassedInOrder(r)'
    BY <2>1, <2>2 DEF RequestInv, PassedInOrder
  <2>9. TooLateIsWithdrawn(r)'
    <3>1. \A c \in credentials : c.secret \in Secret
      BY <1>0 DEF CredentialsTypeOK, Credential
    <3> QED BY <1>0, <2>1, <2>2, <3>1, NothingIsTakenBack DEF RequestInv, TooLateIsWithdrawn
  <2>10. RefusedIsWithdrawn(r)'
    <3> SUFFICES ASSUME answer[r] = "401", NEW token \in Shown', sent[r].token = token
                 PROVE  Withdrawn(token.secret)'
      BY <2>1 DEF RefusedIsWithdrawn
    <3>1. PICK i \in Issuance : stage'[i] = "returned" /\ token = TokenOf(i)'
      BY DEF Shown
    <3>2. token # Nothing /\ Issuer(token) = i
      BY <3>1, CredentialsAssumption DEF TokenOf, Nothing, Issuer, SecretOf
    <3>3. stage[i] = "returned"
      BY <2>2, <3>2 DEF RequestInv, TokenIsShown
    <3>4. token \in Shown /\ token.secret \in Secret
      BY <1>0, <2>3, <3>1, <3>3, IssuedSecrets DEF Shown, Settled
    <3>5. Withdrawn(token.secret)
      BY <2>2, <3>4 DEF RequestInv, RefusedIsWithdrawn
    <3> QED BY <1>0, <3>4, <3>5, NothingIsTakenBack
  <2> QED BY <2>4, <2>7, <2>8, <2>9, <2>10 DEF RequestInv
<1> QED BY <1>1, <1>2, <1>3, <1>4 DEF RequestsInv

-----------------------------------------------------------------------------
(***************************************************************************)
(* Steps of requests.                                                      *)
(***************************************************************************)

\* What a step that leaves the credentials alone leaves of their definitions.
LEMMA CredentialsLeftAlone ==
  ASSUME UNCHANGED credentialVars
  PROVE  /\ UNCHANGED <<now, actors, credentials, revoked, expiresAt, stage, asked,
                        recipient, attempt, drew>>
         /\ Shown' = Shown
         /\ \A i : SecretOf(i)' = SecretOf(i)
         /\ \A s : Withdrawn(s)' <=> Withdrawn(s)
BY DEF credentialVars, issuanceVars, Shown, TokenOf, SecretOf, Withdrawn

\* A request that a step is not about keeps what is known of it.
LEMMA OthersStay ==
  ASSUME NEW q \in Request, RequestInv(q), UNCHANGED credentialVars,
         at'[q] = at[q], sent'[q] = sent[q], principal'[q] = principal[q],
         answer'[q] = answer[q], charged'[q] = charged[q], tooLate'[q] = tooLate[q]
  PROVE  RequestInv(q)'
<1>1. TokenIsShown(q)' /\ PrincipalIsIssued(q)'
  BY CredentialsLeftAlone DEF RequestInv, TokenIsShown, PrincipalIsIssued, Issuer
<1>2. PassedInOrder(q)'
  BY DEF RequestInv, PassedInOrder
<1>3. TooLateIsWithdrawn(q)' /\ RefusedIsWithdrawn(q)'
  BY CredentialsLeftAlone DEF RequestInv, TooLateIsWithdrawn, RefusedIsWithdrawn
<1> QED BY <1>1, <1>2, <1>3 DEF RequestInv

\* next() takes a request to the middleware that follows the one it is in.
LEMMA OnwardGoes ==
  ASSUME NEW r \in Request, Onward(r)
  PROVE  /\ answer' = answer
         /\ \/ at[r] = "cors" /\ at' = [at EXCEPT ![r] = "credential"]
            \/ at[r] = "credential" /\ at' = [at EXCEPT ![r] = "limit"]
            \/ at[r] = "limit" /\ at' = [at EXCEPT ![r] = "handler"]
            \/ at[r] = "handler" /\ at' = [at EXCEPT ![r] = "answered"]
<1>1. PICK n \in 1 .. Len(Pipeline) - 1 :
        at[r] = Pipeline[n] /\ at' = [at EXCEPT ![r] = Pipeline[n + 1]] /\ UNCHANGED answer
  BY DEF Onward
<1>2. Len(Pipeline) = 5
  BY DEF Pipeline
<1>3. n = 1 \/ n = 2 \/ n = 3 \/ n = 4
  BY <1>1, <1>2
<1>4. /\ Pipeline[1] = "cors" /\ Pipeline[1 + 1] = "credential"
      /\ Pipeline[2] = "credential" /\ Pipeline[2 + 1] = "limit"
      /\ Pipeline[3] = "limit" /\ Pipeline[3 + 1] = "handler"
      /\ Pipeline[4] = "handler" /\ Pipeline[4 + 1] = "answered"
  BY DEF Pipeline
<1> QED BY <1>1, <1>3, <1>4

\* A step about one request keeps the invariant if it keeps the types, what is
\* known of that request, and who recorded what.
LEMMA OneRequestKeepsInv ==
  ASSUME RequestsInv, NEW r \in Request, UNCHANGED credentialVars,
         \A q \in Request \ {r} :
           /\ at'[q] = at[q] /\ sent'[q] = sent[q] /\ principal'[q] = principal[q]
           /\ answer'[q] = answer[q] /\ charged'[q] = charged[q] /\ tooLate'[q] = tooLate[q],
         WriteRequestsTypeOK', RequestInv(r)', RecordedByPrincipals'
  PROVE  RequestsInv'
<1>1. CredentialsInv'
  BY WithdrawingKeepsInv DEF RequestsInv
<1>2. ASSUME NEW q \in Request PROVE RequestInv(q)'
  BY OthersStay DEF RequestsInv
<1> QED BY <1>1, <1>2 DEF RequestsInv

\* A request arrives with what somebody was shown, or nothing.
LEMMA ArriveKeepsInv ==
  ASSUME RequestsInv, NEW r \in Request, NEW method \in {"POST", "OPTIONS"},
         NEW address \in Address, NEW token \in Presentable,
         Arrive(r, method, address, token)
  PROVE  RequestsInv'
<1>0. WriteRequestsTypeOK /\ CredentialsInv /\ RequestInv(r) /\ RecordedByPrincipals
  BY DEF RequestsInv
<1>1. /\ UNCHANGED <<credentialVars, limiterVars, principal, answer, recorded, charged>>
      /\ at[r] = "idle" /\ at' = [at EXCEPT ![r] = "cors"]
      /\ sent' = [sent EXCEPT ![r] = [method |-> method, address |-> address, token |-> token]]
      /\ tooLate' = [tooLate EXCEPT ![r] =
           \E c \in credentials : c.secret = token.secret /\ Withdrawn(c.secret)]
  BY DEF Arrive, Pipeline
<1>2. \/ token = Nothing
      \/ /\ token \in Token
         /\ Issuer(token) \in Issuance /\ stage[Issuer(token)] = "returned"
         /\ token.secret = SecretOf(Issuer(token))
  <2>1. CASE token # Nothing
    <3>1. PICK env \in Environment, t \in Shown, u \in Shown :
            token = [env |-> env, handle |-> t.handle, secret |-> u.secret]
      BY <2>1 DEF Presentable
    <3>2. PICK i \in Issuance : stage[i] = "returned" /\ u = TokenOf(i)
      BY DEF Shown
    <3>3. PICK j \in Issuance : stage[j] = "returned" /\ t = TokenOf(j)
      BY DEF Shown
    <3>4. t \in Token /\ u.secret = SecretOf(i) /\ SecretOf(i) \in Secret /\ SecretOf(i)[1] = i
      BY <1>0, <3>2, <3>3, IssuedSecrets DEF Settled
    <3> QED BY <3>1, <3>2, <3>4 DEF Token, Issuer
  <2> QED BY <2>1
<1>3. token \in Token \cup {Nothing}
  BY <1>2
<1>4. WriteRequestsTypeOK'
  <2>1. CredentialsTypeOK'
    BY <1>0, <1>1, WithdrawingKeepsInv DEF CredentialsInv
  <2>2. sent' \in [Request -> Sent \cup {NotSent}] /\ at' \in [Request ->
          {"idle", "cors", "credential", "limit", "handler", "answered"}]
    BY <1>0, <1>1, <1>3 DEF WriteRequestsTypeOK, Sent
  <2>3. tooLate' \in [Request -> BOOLEAN]
    <3>1. (\E c \in credentials : c.secret = token.secret /\ Withdrawn(c.secret)) \in BOOLEAN
      BY Zenon
    <3> QED BY <1>0, <1>1, <3>1 DEF WriteRequestsTypeOK
  <2> QED BY <1>0, <1>1, <2>1, <2>2, <2>3 DEF WriteRequestsTypeOK, limiterVars
<1>5. /\ sent'[r] = [method |-> method, address |-> address, token |-> token]
      /\ sent'[r].token = token /\ sent'[r].method = method
      /\ at'[r] = "cors" /\ principal'[r] = None /\ answer'[r] = None /\ charged'[r] = None
  BY <1>0, <1>1 DEF WriteRequestsTypeOK, RequestInv, PassedInOrder
<1>6. RequestInv(r)'
  <2>1. TokenIsShown(r)'
    BY <1>1, <1>2, <1>5, CredentialsLeftAlone DEF TokenIsShown, Issuer
  <2>2. PrincipalIsIssued(r)' /\ RefusedIsWithdrawn(r)'
    BY <1>5 DEF PrincipalIsIssued, RefusedIsWithdrawn, None
  <2>3. sent'[r] # NotSent
    BY <1>5 DEF NotSent, None
  <2>4. PassedInOrder(r)'
    BY <1>5, <2>3 DEF PassedInOrder, None
  <2>5. TooLateIsWithdrawn(r)'
    <3>1. tooLate'[r] <=> \E c \in credentials : c.secret = token.secret /\ Withdrawn(c.secret)
      BY <1>0, <1>1, Zenon DEF WriteRequestsTypeOK
    <3> QED BY <1>1, <1>5, <3>1, CredentialsLeftAlone DEF TooLateIsWithdrawn
  <2> QED BY <2>1, <2>2, <2>4, <2>5 DEF RequestInv
<1>7. RecordedByPrincipals'
  BY <1>0, <1>1 DEF RecordedByPrincipals
<1>8. \A q \in Request \ {r} :
        /\ at'[q] = at[q] /\ sent'[q] = sent[q] /\ principal'[q] = principal[q]
        /\ answer'[q] = answer[q] /\ charged'[q] = charged[q] /\ tooLate'[q] = tooLate[q]
  BY <1>0, <1>1 DEF WriteRequestsTypeOK
<1> QED BY <1>1, <1>4, <1>6, <1>7, <1>8, OneRequestKeepsInv

\* CORS answers a preflight and lets everything else pass.
LEMMA CorsKeepsInv ==
  ASSUME RequestsInv, NEW r \in Request, Cors(r)
  PROVE  RequestsInv'
<1>0. WriteRequestsTypeOK /\ CredentialsInv /\ RequestInv(r) /\ RecordedByPrincipals
  BY DEF RequestsInv
<1>1. /\ UNCHANGED <<credentialVars, limiterVars, sent, principal, recorded, charged, tooLate>>
      /\ at[r] = "cors"
      /\ \/ /\ sent[r].method = "OPTIONS" /\ at' = [at EXCEPT ![r] = "answered"]
            /\ answer' = [answer EXCEPT ![r] = "204"]
         \/ /\ sent[r].method = "POST" /\ at' = [at EXCEPT ![r] = "credential"]
            /\ UNCHANGED answer
  BY OnwardGoes DEF Cors, Answers
<1>2. CredentialsTypeOK'
  BY <1>0, <1>1, WithdrawingKeepsInv DEF CredentialsInv
<1>3. WriteRequestsTypeOK'
  BY <1>0, <1>1, <1>2 DEF WriteRequestsTypeOK, limiterVars
<1>4. TokenIsShown(r)' /\ PrincipalIsIssued(r)' /\ TooLateIsWithdrawn(r)'
  BY <1>0, <1>1, CredentialsLeftAlone
     DEF RequestInv, TokenIsShown, PrincipalIsIssued, TooLateIsWithdrawn, Issuer
<1>5. PassedInOrder(r)' /\ RefusedIsWithdrawn(r)'
  BY <1>0, <1>1 DEF WriteRequestsTypeOK, RequestInv, PassedInOrder, RefusedIsWithdrawn, None
<1>6. RecordedByPrincipals'
  BY <1>0, <1>1 DEF RecordedByPrincipals
<1>7. \A q \in Request \ {r} : at'[q] = at[q] /\ answer'[q] = answer[q]
  BY <1>0, <1>1 DEF WriteRequestsTypeOK
<1> QED BY <1>1, <1>3, <1>4, <1>5, <1>6, <1>7, OneRequestKeepsInv DEF RequestInv

\* A credential found by its handle and matched by its secret is the one whose
\* token is presented: the principal is whom it was issued to, and what came too
\* late is not found.
LEMMA AuthenticateKeepsInv ==
  ASSUME RequestsInv, NEW r \in Request, Authenticate(r)
  PROVE  RequestsInv'
<1> DEFINE token == sent[r].token
<1>0. WriteRequestsTypeOK /\ CredentialsInv /\ RequestInv(r) /\ RecordedByPrincipals
  BY DEF RequestsInv
<1>1. PICK c \in Found(token.handle) :
        SecretMatches(c, token) /\ principal' = [principal EXCEPT ![r] = c.actor]
  BY DEF Authenticate
<1>2. /\ UNCHANGED <<credentialVars, limiterVars, sent, answer, recorded, charged, tooLate>>
      /\ at[r] = "credential" /\ at' = [at EXCEPT ![r] = "limit"]
      /\ token.env = Here
  BY OnwardGoes DEF Authenticate, Parsed
<1>3. c \in credentials /\ c.handle = token.handle /\ InForce(c.secret) /\ c.secret = token.secret
  BY <1>1 DEF Found, SecretMatches
<1>4. PICK i \in Issuance : Settled(i) /\ c = RowOf(i)
  BY <1>0, <1>3 DEF CredentialsInv, RowsAreIssued
<1>5. /\ c.actor = recipient[i] /\ recipient[i] \in actors /\ recipient[i] \in Actor
      /\ token.secret = SecretOf(i) /\ token.handle = drew[i] /\ Issuer(token) = i
  BY <1>0, <1>3, <1>4
     DEF CredentialsInv, ActorsAreIssued, RowOf, SecretOf, Issuer, CredentialsTypeOK
<1>6. stage[i] = "returned" /\ token \in Token
  BY <1>0, <1>2, <1>5, CredentialsAssumption DEF RequestInv, TokenIsShown, Nothing
<1>7. token \in Shown
  <2>1. token = TokenOf(i)
    BY <1>2, <1>5, <1>6 DEF Token, TokenOf
  <2> QED BY <1>6, <2>1 DEF Shown
<1>8. principal[r] = None /\ charged[r] = None /\ answer[r] = None /\ sent[r].method = "POST"
  BY <1>0, <1>2 DEF RequestInv, PassedInOrder
<1>9. ~ tooLate[r]
  <2>1. \A s : InForce(s) => ~ Withdrawn(s) \/ s \notin Secret
    BY <1>0, CredentialsAssumption
       DEF CredentialsInv, CredentialsTypeOK, InForce, Unexpired, Withdrawn
  <2>2. token.secret \in Secret
    BY <1>6 DEF Token
  <2> QED BY <1>0, <1>3, <2>1, <2>2 DEF RequestInv, TooLateIsWithdrawn
<1>10. principal'[r] = recipient[i] /\ at'[r] = "limit" /\ recipient[i] # None
  BY <1>0, <1>1, <1>2, <1>5, CredentialsAssumption DEF WriteRequestsTypeOK
<1>11. WriteRequestsTypeOK'
  <2>1. CredentialsTypeOK'
    BY <1>0, <1>2, WithdrawingKeepsInv DEF CredentialsInv
  <2> QED BY <1>0, <1>1, <1>2, <1>5, <2>1 DEF WriteRequestsTypeOK, limiterVars
<1>12. RequestInv(r)'
  <2>1. TokenIsShown(r)'
    BY <1>0, <1>2, CredentialsLeftAlone DEF RequestInv, TokenIsShown, Issuer
  <2>2. PrincipalIsIssued(r)'
    BY <1>2, <1>5, <1>7, <1>10, CredentialsLeftAlone DEF PrincipalIsIssued, Issuer
  <2>3. PassedInOrder(r)'
    BY <1>0, <1>2, <1>8, <1>10 DEF RequestInv, PassedInOrder, None
  <2>4. TooLateIsWithdrawn(r)' /\ RefusedIsWithdrawn(r)'
    BY <1>2, <1>8, <1>9 DEF TooLateIsWithdrawn, RefusedIsWithdrawn, None
  <2> QED BY <2>1, <2>2, <2>3, <2>4 DEF RequestInv
<1>13. RecordedByPrincipals'
  <2>1. \A e \in recorded : e.request # r
    BY <1>0, <1>8 DEF RecordedByPrincipals
  <2> QED BY <1>0, <1>1, <1>2, <2>1 DEF RecordedByPrincipals, WriteRequestsTypeOK
<1>14. \A q \in Request \ {r} : at'[q] = at[q] /\ principal'[q] = principal[q]
  BY <1>0, <1>1, <1>2 DEF WriteRequestsTypeOK
<1> QED BY <1>2, <1>11, <1>12, <1>13, <1>14, OneRequestKeepsInv

\* A token somebody was shown is refused only once it is withdrawn: its row is
\* there, and no other row has its handle.
LEMMA OnlyTheWithdrawnAreRefused ==
  ASSUME CredentialsInv, NEW token \in Shown,
         \/ ~ Parsed(token)
         \/ Found(token.handle) = {}
         \/ \E c \in Found(token.handle) : ~ SecretMatches(c, token)
  PROVE  Withdrawn(token.secret)
<1>1. PICK i \in Issuance : stage[i] = "returned" /\ token = TokenOf(i)
  BY DEF Shown
<1>2. /\ Settled(i) /\ RowOf(i) \in credentials
      /\ RowOf(i).handle = token.handle /\ RowOf(i).secret = token.secret
  BY <1>1 DEF Settled, CredentialsInv, RowsAreIssued, RowOf, TokenOf
<1>3. Parsed(token)
  BY <1>1 DEF Parsed, TokenOf
<1>4. token.secret \in Secret
  BY <1>1, <1>2, IssuedSecrets
<1>5. ASSUME NEW c \in Found(token.handle) PROVE SecretMatches(c, token)
  <2>1. c \in credentials /\ c.handle = token.handle
    BY DEF Found
  <2>2. PICK j \in Issuance : Settled(j) /\ c = RowOf(j)
    BY <2>1 DEF CredentialsInv, RowsAreIssued
  <2>3. drew[j] = drew[i]
    BY <1>1, <2>1, <2>2 DEF RowOf, TokenOf
  <2>4. j = i
    BY <1>2, <2>2, <2>3 DEF CredentialsInv, HandlesAreUnique, Inserted
  <2> QED BY <1>2, <2>2, <2>4 DEF SecretMatches
<1>6. Found(token.handle) = {}
  BY <1>3, <1>5
<1>7. ~ InForce(token.secret)
  BY <1>2, <1>6 DEF Found
<1> QED BY <1>4, <1>7, CredentialsAssumption
        DEF CredentialsInv, CredentialsTypeOK, InForce, Unexpired, Withdrawn

\* A refusal leaves everything as it is but the request.
LEMMA AnswerKeepsInv ==
  ASSUME RequestsInv, NEW r \in Request,
         NEW status \in {"401", "429", "201", "refused", "lost"},
         Answers(r, status), WriteRequestsTypeOK',
         at[r] \in {"credential", "limit", "handler"},
         status = "401" => charged[r] = None,
         status = "401" => \A token \in Shown : sent[r].token = token => Withdrawn(token.secret),
         UNCHANGED <<credentialVars, sent, principal, charged, tooLate>>,
         RecordedByPrincipals'
  PROVE  RequestsInv'
<1>0. WriteRequestsTypeOK /\ CredentialsInv /\ RequestInv(r)
  BY DEF RequestsInv
<1>1. at'[r] = "answered" /\ answer'[r] = status
  BY <1>0 DEF Answers, WriteRequestsTypeOK
<1>2. TokenIsShown(r)' /\ PrincipalIsIssued(r)' /\ TooLateIsWithdrawn(r)'
  BY <1>0, CredentialsLeftAlone
     DEF RequestInv, TokenIsShown, PrincipalIsIssued, TooLateIsWithdrawn, Issuer
<1>3. PassedInOrder(r)'
  BY <1>0, <1>1 DEF RequestInv, PassedInOrder, None
<1>4. RefusedIsWithdrawn(r)'
  BY <1>0, <1>1, CredentialsLeftAlone DEF RefusedIsWithdrawn
<1>5. \A q \in Request \ {r} : at'[q] = at[q] /\ answer'[q] = answer[q]
  BY <1>0 DEF WriteRequestsTypeOK, Answers
<1> QED BY <1>2, <1>3, <1>4, <1>5, OneRequestKeepsInv DEF RequestInv

\* A lookup that finds nothing, or does not answer.
LEMMA UnauthenticatedKeepsInv ==
  ASSUME RequestsInv, NEW r \in Request, Unauthenticated(r) \/ LookupFails(r)
  PROVE  RequestsInv'
<1>0. WriteRequestsTypeOK /\ CredentialsInv /\ RequestInv(r) /\ RecordedByPrincipals
  BY DEF RequestsInv
<1>1. PICK status \in {"401", "lost"} :
        /\ Answers(r, status)
        /\ status = "401" => Unauthenticated(r)
  BY DEF Unauthenticated, LookupFails
<1>2. /\ at[r] = "credential"
      /\ UNCHANGED <<credentialVars, limiterVars, sent, principal, recorded, charged, tooLate>>
  BY DEF Unauthenticated, LookupFails
<1>3. WriteRequestsTypeOK'
  <2>1. CredentialsTypeOK'
    BY <1>0, <1>2, WithdrawingKeepsInv DEF CredentialsInv
  <2> QED BY <1>0, <1>1, <1>2, <2>1 DEF WriteRequestsTypeOK, limiterVars, Answers
<1>4. status = "401" => \A token \in Shown : sent[r].token = token => Withdrawn(token.secret)
  BY <1>0, <1>1, OnlyTheWithdrawnAreRefused DEF Unauthenticated
<1>5. charged[r] = None
  BY <1>0, <1>2 DEF RequestInv, PassedInOrder
<1>6. RecordedByPrincipals'
  BY <1>0, <1>2 DEF RecordedByPrincipals
<1> QED BY <1>1, <1>2, <1>3, <1>4, <1>5, <1>6, AnswerKeepsInv

\* The limiter charges the principal, or refuses.
LEMMA LimitKeepsInv ==
  ASSUME RequestsInv, NEW r \in Request, Limit(r)
  PROVE  RequestsInv'
<1> USE WriteRequestsAssumption
<1>0. WriteRequestsTypeOK /\ CredentialsInv /\ RequestInv(r) /\ RecordedByPrincipals
  BY DEF RequestsInv
<1>1. /\ at[r] = "limit" /\ UNCHANGED <<credentialVars, sent, principal, recorded, tooLate>>
      /\ principal[r] # None /\ principal[r] \in Actor /\ callerKey(r) = principal[r]
  BY <1>0 DEF Limit, RequestInv, PassedInOrder, callerKey, WriteRequestsTypeOK
<1>2. callerKey(r) \in Caller
  BY <1>1 DEF Caller
<1>3. CredentialsTypeOK' /\ RecordedByPrincipals'
  BY <1>0, <1>1, WithdrawingKeepsInv DEF CredentialsInv, RecordedByPrincipals
<1>4. CASE /\ Bucket!Grant(callerKey(r))
           /\ charged' = [charged EXCEPT ![r] = callerKey(r)]
           /\ Onward(r)
  <2>1. at' = [at EXCEPT ![r] = "handler"] /\ answer' = answer
    BY <1>1, <1>4, OnwardGoes
  <2>2. level' \in [Caller -> 0 .. Burst * Unit] /\ clock' = clock
    <3>1. level[callerKey(r)] - Unit \in 0 .. Burst * Unit
      BY <1>0, <1>2, <1>4 DEF Bucket!Grant, WriteRequestsTypeOK
    <3> QED BY <1>0, <1>4, <3>1 DEF Bucket!Grant, WriteRequestsTypeOK
  <2>3. WriteRequestsTypeOK'
    BY <1>0, <1>1, <1>2, <1>3, <1>4, <2>1, <2>2 DEF WriteRequestsTypeOK
  <2>4. at'[r] = "handler" /\ charged'[r] = principal[r]
    BY <1>0, <1>1, <1>4, <2>1 DEF WriteRequestsTypeOK
  <2>5. TokenIsShown(r)' /\ PrincipalIsIssued(r)' /\ TooLateIsWithdrawn(r)'
    BY <1>0, <1>1, CredentialsLeftAlone
       DEF RequestInv, TokenIsShown, PrincipalIsIssued, TooLateIsWithdrawn, Issuer
  <2>6. PassedInOrder(r)' /\ RefusedIsWithdrawn(r)'
    BY <1>0, <1>1, <2>1, <2>4, CredentialsLeftAlone
       DEF RequestInv, PassedInOrder, RefusedIsWithdrawn, None
  <2>7. \A q \in Request \ {r} : at'[q] = at[q] /\ charged'[q] = charged[q]
    BY <1>0, <1>4, <2>1 DEF WriteRequestsTypeOK
  <2> QED BY <1>1, <1>3, <2>1, <2>3, <2>5, <2>6, <2>7, OneRequestKeepsInv DEF RequestInv
<1>5. CASE /\ Bucket!Refuse(callerKey(r))
           /\ Answers(r, "429")
           /\ UNCHANGED charged
  <2>1. clock' = clock /\ level' = level
    BY <1>5 DEF Bucket!Refuse
  <2>2. WriteRequestsTypeOK'
    BY <1>0, <1>1, <1>3, <1>5, <2>1 DEF WriteRequestsTypeOK, Answers
  <2> QED BY <1>1, <1>3, <1>5, <2>2, AnswerKeepsInv
<1> QED BY <1>4, <1>5 DEF Limit

\* The handler records in the name of the principal, or not at all.
LEMMA ServeKeepsInv ==
  ASSUME RequestsInv, NEW r \in Request, Serve(r)
  PROVE  RequestsInv'
<1>0. WriteRequestsTypeOK /\ CredentialsInv /\ RequestInv(r) /\ RecordedByPrincipals
  BY DEF RequestsInv
<1>1. PICK status \in {"refused", "201", "lost"} :
        Answers(r, status) /\ (Record(r) \/ UNCHANGED recorded)
  BY DEF Serve
<1>2. /\ at[r] = "handler"
      /\ UNCHANGED <<credentialVars, limiterVars, sent, principal, charged, tooLate>>
      /\ principal[r] # None /\ principal[r] \in Actor
  BY <1>0 DEF Serve, RequestInv, PassedInOrder, WriteRequestsTypeOK
<1>3. recorded' \subseteq recorded \cup {[request |-> r, actor |-> principal[r]]}
  BY <1>1 DEF Record
<1>4. RecordedByPrincipals'
  BY <1>0, <1>2, <1>3 DEF RecordedByPrincipals
<1>5. WriteRequestsTypeOK'
  <2>1. CredentialsTypeOK'
    BY <1>0, <1>2, WithdrawingKeepsInv DEF CredentialsInv
  <2> QED BY <1>0, <1>1, <1>2, <1>3, <2>1 DEF WriteRequestsTypeOK, limiterVars, Answers
<1> QED BY <1>1, <1>2, <1>4, <1>5, AnswerKeepsInv

\* The end of the process loses what is open; what it records was decided.
LEMMA RestartKeepsInv ==
  ASSUME RequestsInv, Restart
  PROVE  RequestsInv'
<1> DEFINE open == {r \in Request : at[r] \notin {"idle", "answered"}}
           begun == {r \in open : at[r] = "handler"}
<1>0. WriteRequestsTypeOK /\ CredentialsInv /\ RecordedByPrincipals
  BY DEF RequestsInv
<1>1. /\ at' = [r \in Request |-> IF r \in open THEN "answered" ELSE at[r]]
      /\ answer' = [r \in Request |-> IF r \in open THEN "lost" ELSE answer[r]]
      /\ UNCHANGED <<credentialVars, sent, principal, charged, tooLate>>
      /\ Bucket!Forget
  BY DEF Restart
<1>2. \A r \in begun : principal[r] # None /\ principal[r] \in Actor
  BY <1>0 DEF RequestsInv, RequestInv, PassedInOrder, WriteRequestsTypeOK
<1>3. recorded' \subseteq recorded \cup {[request |-> r, actor |-> principal[r]] : r \in begun}
  BY DEF Restart
<1>4. RecordedByPrincipals'
  BY <1>0, <1>1, <1>2, <1>3 DEF RecordedByPrincipals
<1>5. CredentialsInv'
  BY <1>0, <1>1, WithdrawingKeepsInv
<1>6. WriteRequestsTypeOK'
  <2>1. Burst * Unit \in Nat
    BY WriteRequestsAssumption
  <2>2. level' \in [Caller -> 0 .. Burst * Unit] /\ clock' = clock
    BY <1>1, <2>1 DEF Bucket!Forget, Bucket!Full
  <2>3. recorded' \subseteq [request : Request, actor : Actor]
    BY <1>0, <1>2, <1>3 DEF WriteRequestsTypeOK
  <2> QED BY <1>0, <1>1, <1>5, <2>2, <2>3 DEF WriteRequestsTypeOK, CredentialsInv
<1>7. ASSUME NEW r \in Request PROVE RequestInv(r)'
  <2>0. RequestInv(r)
    BY DEF RequestsInv
  <2>1. CASE r \notin open
    <3>1. at'[r] = at[r] /\ answer'[r] = answer[r]
      BY <1>1, <2>1
    <3> QED BY <1>1, <2>0, <3>1, OthersStay
  <2>2. CASE r \in open
    <3>1. at'[r] = "answered" /\ answer'[r] = "lost" /\ at[r] # "idle"
      BY <1>1, <2>2
    <3>2. TokenIsShown(r)' /\ PrincipalIsIssued(r)' /\ TooLateIsWithdrawn(r)'
      BY <1>1, <2>0, CredentialsLeftAlone
         DEF RequestInv, TokenIsShown, PrincipalIsIssued, TooLateIsWithdrawn, Issuer
    <3>3. PassedInOrder(r)' /\ RefusedIsWithdrawn(r)'
      BY <1>1, <2>0, <3>1 DEF RequestInv, PassedInOrder, RefusedIsWithdrawn, None
    <3> QED BY <3>2, <3>3 DEF RequestInv
  <2> QED BY <2>1, <2>2
<1> QED BY <1>4, <1>5, <1>6, <1>7 DEF RequestsInv

\* The limiter's clock fills allowances and touches no request.
LEMMA LimiterPassesKeepsInv ==
  ASSUME RequestsInv, LimiterPasses
  PROVE  RequestsInv'
<1> USE WriteRequestsAssumption
<1>0. WriteRequestsTypeOK /\ CredentialsInv /\ RecordedByPrincipals
  BY DEF RequestsInv
<1>1. UNCHANGED <<credentialVars, requestVars>> /\ clock' \in 0 .. MaxClock
  BY <1>0 DEF LimiterPasses, Bucket!Pass, WriteRequestsTypeOK
<1>2. level' \in [Caller -> 0 .. Burst * Unit]
  BY DEF LimiterPasses, Bucket!Pass, Bucket!Full
<1>3. CredentialsInv'
  BY <1>0, <1>1, WithdrawingKeepsInv
<1>4. WriteRequestsTypeOK' /\ RecordedByPrincipals'
  BY <1>0, <1>1, <1>2, <1>3
     DEF WriteRequestsTypeOK, RecordedByPrincipals, CredentialsInv, requestVars
<1>5. \A r \in Request : RequestInv(r)'
  BY <1>1, OthersStay DEF RequestsInv, requestVars
<1> QED BY <1>3, <1>4, <1>5 DEF RequestsInv

\* RequestsInv is inductive.
LEMMA RequestsStepKeepsInv == RequestsInv /\ [WriteRequestsNext]_vars => RequestsInv'
<1> SUFFICES ASSUME RequestsInv, [WriteRequestsNext]_vars PROVE RequestsInv'
  OBVIOUS
<1>1. CASE UNCHANGED vars
  <2>1. WriteRequestsTypeOK /\ CredentialsInv /\ RecordedByPrincipals
    BY DEF RequestsInv
  <2>2. CredentialsInv'
    BY <1>1, <2>1, WithdrawingKeepsInv DEF vars
  <2>3. WriteRequestsTypeOK' /\ RecordedByPrincipals'
    BY <1>1, <2>1, <2>2 DEF vars, WriteRequestsTypeOK, RecordedByPrincipals, CredentialsInv,
                            limiterVars, requestVars
  <2>4. \A r \in Request : RequestInv(r)'
    BY <1>1, OthersStay DEF RequestsInv, vars, requestVars
  <2> QED BY <2>2, <2>3, <2>4 DEF RequestsInv
<1>2. CASE WriteRequestsNext
  BY <1>2, CredentialStepsKeepInv, ArriveKeepsInv, CorsKeepsInv, AuthenticateKeepsInv,
     UnauthenticatedKeepsInv, LimitKeepsInv, ServeKeepsInv, RestartKeepsInv,
     LimiterPassesKeepsInv DEF WriteRequestsNext
<1> QED BY <1>1, <1>2

\* What is known of requests and credentials is known throughout.
THEOREM RequestsInvariance == WriteRequestsSpec => []RequestsInv
BY RequestsInitInv, RequestsStepKeepsInv, PTL DEF WriteRequestsSpec

-----------------------------------------------------------------------------
(***************************************************************************)
(* The promises.                                                           *)
(***************************************************************************)

\* Every variable keeps its type; no issuance draws more than HANDLE_ATTEMPTS
\* handles (issue-credential.ts:94).
THEOREM RequestsTypeCorrect == WriteRequestsSpec => []WriteRequestsTypeOK
<1>1. RequestsInv => WriteRequestsTypeOK
  BY DEF RequestsInv
<1> QED BY <1>1, RequestsInvariance, PTL

\* An event's actor is the one the presented token was issued to, for an actor
\* that exists (routes/products.ts:138-140, routes/enrolments.ts:103-106).
THEOREM HistoryIsTrue == WriteRequestsSpec => []HistoryNamesTheCaller
<1>1. RequestsInv => HistoryNamesTheCaller
  <2> SUFFICES ASSUME RequestsInv, NEW e \in recorded
               PROVE  LET token == sent[e.request].token
                      IN /\ token \in Shown
                         /\ e.actor = recipient[Issuer(token)] /\ e.actor \in actors
    BY DEF HistoryNamesTheCaller
  <2>1. e.request \in Request /\ principal[e.request] # None /\ e.actor = principal[e.request]
    BY DEF RequestsInv, WriteRequestsTypeOK, RecordedByPrincipals
  <2> QED BY <2>1 DEF RequestsInv, RequestInv, PrincipalIsIssued
<1> QED BY <1>1, RequestsInvariance, PTL

\* A credential withdrawn before its request arrived opens nothing
\* (verify-credential.ts:82-87).
THEOREM TheWithdrawnStayOut == WriteRequestsSpec => []WithdrawnStaysOut
<1>1. RequestsInv => WithdrawnStaysOut
  BY DEF RequestsInv, RequestInv, TooLateIsWithdrawn, RecordedByPrincipals, WithdrawnStaysOut
<1> QED BY <1>1, RequestsInvariance, PTL

\* A token that was shown is refused only once it is withdrawn, however many
\* issuances draw the same handle (issue-credential.ts:97-105).
THEOREM TokensWork == WriteRequestsSpec => []ShownTokensWork
<1>1. RequestsInv => ShownTokensWork
  BY DEF RequestsInv, RequestInv, RefusedIsWithdrawn, ShownTokensWork
<1> QED BY <1>1, RequestsInvariance, PTL

\* The allowance is the caller's, and a refusal for want of a credential costs
\* nothing (app.ts:135-147).
THEOREM TheCallerPays == WriteRequestsSpec => []ChargedToWhoAsked
<1>1. RequestsInv => ChargedToWhoAsked
  BY DEF RequestsInv, RequestInv, PassedInOrder, PrincipalIsIssued, ChargedToWhoAsked
<1> QED BY <1>1, RequestsInvariance, PTL

\* Issuing leaves one credential of an actor that exists, or nothing
\* (issue-credential.ts:83-121).
THEOREM IssuingIsAtomic == WriteRequestsSpec => []IssuingIsOneAct
<1>1. RequestsInv => IssuingIsOneAct
  <2> SUFFICES ASSUME RequestsInv, NEW i \in Issuance
               PROVE  LET rows == {c \in credentials : c.secret[1] = i}
                      IN IF stage[i] \in {"returned", "unheard"}
                         THEN /\ Cardinality(rows) = 1
                              /\ \A c \in rows : c.actor = recipient[i] /\ c.actor \in actors
                         ELSE /\ rows = {}
                              /\ asked[i] = New => recipient[i] \notin actors
    BY DEF IssuingIsOneAct
  <2> DEFINE rows == {c \in credentials : c.secret[1] = i}
  <2>1. RowsAreIssued /\ ActorsAreIssued
    BY DEF RequestsInv, CredentialsInv
  <2>2. \A j \in Issuance : RowOf(j).secret[1] = j /\ RowOf(j).actor = recipient[j]
    BY DEF RowOf, SecretOf
  <2>3. CASE Settled(i)
    <3>1. rows = {RowOf(i)}
      BY <2>1, <2>2, <2>3 DEF RowsAreIssued
    <3>2. Cardinality(rows) = 1
      BY <3>1, FS_Singleton
    <3> QED BY <2>1, <2>2, <2>3, <3>1, <3>2 DEF Settled, ActorsAreIssued
  <2>4. CASE ~ Settled(i)
    BY <2>1, <2>2, <2>4 DEF Settled, RowsAreIssued, ActorsAreIssued
  <2> QED BY <2>3, <2>4
<1> QED BY <1>1, RequestsInvariance, PTL

=============================================================================
