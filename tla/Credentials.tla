----------------------------- MODULE Credentials -----------------------------
(***************************************************************************)
(* Bearer credentials: issueCredentialFor, which writes one in a           *)
(* transaction of its own, the operators who revoke one or give it an end, *)
(* and verifyCredential, one query that finds a row by its handle.         *)
(*                                                                         *)
(* A secret is 256 random bits and never drawn twice: it is named by the   *)
(* issuance and the attempt that drew it, and so is its digest. A handle   *)
(* may be drawn again; here there are few of them, so that it happens.     *)
(*                                                                         *)
(* No code under src revokes a credential or gives it an end: whoever      *)
(* holds the owner's connection updates the row.                           *)
(***************************************************************************)
EXTENDS Naturals, FiniteSets, Sequences

CONSTANTS
  Actor,            \* ids an actor row can have
  Standing,         \* actors there are before this instance begins
  Handle,           \* handles that can be drawn
  Issuance,         \* runs of issueCredentialFor
  HandleAttempts,   \* HANDLE_ATTEMPTS
  Environment,      \* ENVIRONMENTS
  Here,             \* TRUSTPASS_ENV of this API
  MaxNow,           \* bound: the latest reading of the database's clock
  MaxWithdrawn      \* bound: how often a credential is revoked or given an end

New == "create"
None == "none"

ASSUME CredentialsAssumption ==
  /\ Standing \subseteq Actor /\ {New, None} \cap Actor = {}
  /\ HandleAttempts \in Nat \ {0}
  /\ Here \in Environment \ {None}
  /\ MaxNow \in Nat \ {0}
  /\ MaxWithdrawn \in Nat

VARIABLES
  now,          \* the database's clock
  actors,       \* the committed rows of actor
  credentials,  \* the committed rows of credential
  revoked,      \* the secrets whose row has a revoked_at
  expiresAt,    \* expires_at of each secret's row; 0 for NULL
  stage,        \* the statement an issuance runs next, or how it ended
  asked,        \* the actor it was asked to issue to, or New
  recipient,    \* the actor it found or made
  attempt,      \* how often it has drawn a handle
  drew          \* the handle it drew last

issuanceVars == <<stage, asked, recipient, attempt, drew>>
credentialVars == <<now, actors, credentials, revoked, expiresAt, issuanceVars>>

Secret == Issuance \X (1 .. HandleAttempts)
Credential == [handle : Handle, actor : Actor, secret : Secret]
Token == [env : Environment, handle : Handle, secret : Secret]

CredentialsTypeOK ==
  /\ now \in 1 .. MaxNow
  /\ actors \subseteq Actor
  /\ credentials \subseteq Credential
  /\ revoked \subseteq Secret
  /\ expiresAt \in [Secret -> 0 .. MaxNow]
  /\ stage \in [Issuance -> {"idle", "actor", "draw", "insert", "commit",
                             "returned", "failed", "unheard"}]
  /\ asked \in [Issuance -> Actor \cup {New, None}]
  /\ recipient \in [Issuance -> Actor \cup {None}]
  /\ attempt \in [Issuance -> 0 .. HandleAttempts]
  /\ drew \in [Issuance -> Handle \cup {None}]

CredentialsInit ==
  /\ now = 1
  /\ actors = Standing
  /\ credentials = {}
  /\ revoked = {}
  /\ expiresAt = [s \in Secret |-> 0]
  /\ stage = [i \in Issuance |-> "idle"]
  /\ asked = [i \in Issuance |-> None]
  /\ recipient = [i \in Issuance |-> None]
  /\ attempt = [i \in Issuance |-> 0]
  /\ drew = [i \in Issuance |-> None]

-----------------------------------------------------------------------------
(***************************************************************************)
(* issueCredentialFor.                                                     *)
(***************************************************************************)
Moves(i, from, to) ==
  /\ stage[i] = from
  /\ stage' = [stage EXCEPT ![i] = to]
  /\ UNCHANGED <<now, revoked, expiresAt>>

Ask(i, a) ==
  /\ Moves(i, "idle", "actor")
  /\ asked' = [asked EXCEPT ![i] = a]
  /\ UNCHANGED <<actors, credentials, recipient, attempt, drew>>

FindActor(i) ==
  /\ asked[i] \in actors
  /\ Moves(i, "actor", "draw")
  /\ recipient' = [recipient EXCEPT ![i] = asked[i]]
  /\ UNCHANGED <<actors, credentials, asked, attempt, drew>>

NoSuchActor(i) ==
  /\ asked[i] \notin actors \cup {New}
  /\ Moves(i, "actor", "failed")
  /\ UNCHANGED <<actors, credentials, asked, recipient, attempt, drew>>

\* The identity sequence gives an id once, whatever becomes of the row.
Unused(a) == a \notin Standing /\ \A i \in Issuance : recipient[i] # a

\* A mutant: the actor is created on a connection of its own.
CreatedAtOnce(a) == actors' = actors \cup {a}

Created(a) == UNCHANGED actors

CreateActor(i, a) ==
  /\ asked[i] = New
  /\ Unused(a)
  /\ Moves(i, "actor", "draw")
  /\ recipient' = [recipient EXCEPT ![i] = a]
  /\ Created(a)
  /\ UNCHANGED <<credentials, asked, attempt, drew>>

DrawHandle(i, h) ==
  /\ Moves(i, "draw", "insert")
  /\ attempt' = [attempt EXCEPT ![i] = @ + 1]
  /\ drew' = [drew EXCEPT ![i] = h]
  /\ UNCHANGED <<actors, credentials, asked, recipient>>

\* A mutant: a SELECT before the INSERT, which does not see what is uncommitted.
NobodyHoldsIt(i) == FALSE

\* The unique index makes the INSERT wait: another issuance has inserted this
\* handle and not yet committed.
HandleInDoubt(i) ==
  \E j \in Issuance \ {i} : stage[j] = "commit" /\ drew[j] = drew[i]

HandleTaken(i) == \E c \in credentials : c.handle = drew[i]

InsertCredential(i) ==
  /\ ~ HandleTaken(i) /\ ~ HandleInDoubt(i)
  /\ Moves(i, "insert", "commit")
  /\ UNCHANGED <<actors, credentials, asked, recipient, attempt, drew>>

\* A mutant: the bound is compared with <= once more than it should be.
OneAttemptMore(i) == attempt[i] <= HandleAttempts

AttemptsLeft(i) == attempt[i] < HandleAttempts

\* ON CONFLICT DO NOTHING returned no row: the loop draws again, or ends and
\* handles_exhausted is thrown.
DoNothing(i) ==
  /\ HandleTaken(i)
  /\ Moves(i, "insert", IF AttemptsLeft(i) THEN "draw" ELSE "failed")
  /\ UNCHANGED <<actors, credentials, asked, recipient, attempt, drew>>

SecretOf(i) == <<i, attempt[i]>>

Commits(i) ==
  /\ credentials' = credentials \cup
       {[handle |-> drew[i], actor |-> recipient[i], secret |-> SecretOf(i)]}
  /\ actors' = actors \cup {recipient[i]}
  /\ UNCHANGED <<asked, recipient, attempt, drew>>

Return(i) == Moves(i, "commit", "returned") /\ Commits(i)

\* COMMIT succeeds and its acknowledgement is lost: nobody is shown the secret.
ReturnUnheard(i) == Moves(i, "commit", "unheard") /\ Commits(i)

\* The connection is lost, or the process is stopped, and it is rolled back.
Fail(i) ==
  /\ \E s \in {"actor", "draw", "insert", "commit"} : Moves(i, s, "failed")
  /\ UNCHANGED <<actors, credentials, asked, recipient, attempt, drew>>

-----------------------------------------------------------------------------
(***************************************************************************)
(* Operators, and time.                                                    *)
(***************************************************************************)
Withdrawable ==
  Cardinality(revoked) + Cardinality({s \in Secret : expiresAt[s] # 0}) < MaxWithdrawn

Revoke(c) ==
  /\ Withdrawable
  /\ revoked' = revoked \cup {c.secret}
  /\ UNCHANGED <<now, actors, credentials, expiresAt, issuanceVars>>

\* credential_expires_after_issue: an end lies after the instant of issue.
GiveEnd(c, end) ==
  /\ Withdrawable
  /\ expiresAt[c.secret] = 0
  /\ expiresAt' = [expiresAt EXCEPT ![c.secret] = end]
  /\ UNCHANGED <<now, actors, credentials, revoked, issuanceVars>>

NowPasses ==
  /\ now < MaxNow
  /\ now' = now + 1
  /\ UNCHANGED <<actors, credentials, revoked, expiresAt, issuanceVars>>

CredentialsNext ==
  \/ \E i \in Issuance :
       \/ \E a \in Actor \cup {New} : Ask(i, a)
       \/ FindActor(i) \/ NoSuchActor(i)
       \/ \E a \in Actor : CreateActor(i, a)
       \/ \E h \in Handle : DrawHandle(i, h)
       \/ InsertCredential(i) \/ DoNothing(i)
       \/ Return(i) \/ ReturnUnheard(i) \/ Fail(i)
  \/ \E c \in credentials : Revoke(c) \/ \E end \in 2 .. MaxNow : GiveEnd(c, end)
  \/ NowPasses

-----------------------------------------------------------------------------
(***************************************************************************)
(* verifyCredential. One query, outside any transaction: it sees what is   *)
(* committed, and now() is the instant it began.                           *)
(***************************************************************************)

\* What issueCredentialFor returned, to be shown once. An environment has a
\* database of its own, and tokens are issued for it.
TokenOf(i) == [env |-> Here, handle |-> drew[i], secret |-> SecretOf(i)]
Shown == {TokenOf(i) : i \in {j \in Issuance : stage[j] = "returned"}}

\* A mutant: >= for >.
EndsAfterwards(s) == expiresAt[s] = 0 \/ expiresAt[s] >= now

\* expires_at IS NULL OR expires_at > now()
Unexpired(s) == expiresAt[s] = 0 \/ expiresAt[s] > now

InForce(s) == s \notin revoked /\ Unexpired(s)

\* What the operators meant, in their own terms: revoked, or at or past its end.
Withdrawn(s) == s \in revoked \/ expiresAt[s] \in 1 .. now

Found(handle) == {c \in credentials : c.handle = handle /\ InForce(c.secret)}

\* A mutant: the row found by its handle is believed.
HandleIsEnough(c, token) == TRUE

\* digestsMatch(digestOf(parsed.secret), found.secretDigest)
SecretMatches(c, token) == c.secret = token.secret

=============================================================================
