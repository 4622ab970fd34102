---------------------------- MODULE WriteRequests ----------------------------
(***************************************************************************)
(* A request to one of the two routes that write, through the middlewares  *)
(* in the order app.ts registers them: CORS, requireCredential,            *)
(* rateLimited, and the handler, which validates the body and runs a       *)
(* repository function in the name of the principal. requireCredential and *)
(* the handler await the database; anything may happen meanwhile, the end  *)
(* of the process included.                                                *)
(*                                                                         *)
(* The limiter is the one TokenBucket promises, which RateLimiter is shown *)
(* to implement; its clock only moves forward here. What the handler's     *)
(* function does is ProductWrites; here it commits an event or it does     *)
(* not.                                                                    *)
(***************************************************************************)
EXTENDS Credentials

CONSTANTS
  Request,                    \* requests, each made once
  Address,                    \* the addresses they come from
  Unit, Rate, Second, Burst,  \* see TokenBucket
  Slip, MaxWait,
  MaxClock                    \* bound: the limiter's latest reading of its clock

\* callerKey prefixes its two kinds of key, "so the two spaces cannot meet".
ASSUME WriteRequestsAssumption ==
  /\ Actor \cap Address = {} /\ None \notin Address
  /\ Unit \in Nat \ {0} /\ Rate \in Nat \ {0}
  /\ Second \in Nat \ {0} /\ Burst \in Nat \ {0}
  /\ Slip \in Nat /\ MaxWait \in Nat \ {0}
  /\ MaxClock \in Nat

VARIABLES
  clock, level, stalled, decision,   \* see TokenBucket
  at,         \* the middleware a request is in
  sent,       \* its method, its address and the token it presents
  principal,  \* what requireCredential put on the context
  answer,     \* the status it was answered with; "lost" is a 500, or no answer
  recorded,   \* the events committed for a request, each with its actor
  charged,    \* ghost: the caller whose allowance it was charged to
  tooLate     \* ghost: whether its credential was withdrawn when it arrived

limiterVars == <<clock, level, stalled, decision>>
requestVars == <<at, sent, principal, answer, recorded, charged, tooLate>>
vars == <<credentialVars, limiterVars, requestVars>>

Caller == Actor \cup Address
Bucket == INSTANCE TokenBucket WITH Key <- Caller

\* No header, or one from which no token is read.
Nothing == [env |-> None, handle |-> None, secret |-> <<None, 0>>]
NotSent == [method |-> None, address |-> None, token |-> Nothing]
Sent == [method : {"POST", "OPTIONS"}, address : Address, token : Token \cup {Nothing}]

WriteRequestsTypeOK ==
  /\ CredentialsTypeOK
  /\ clock \in 0 .. MaxClock
  /\ level \in [Caller -> 0 .. Burst * Unit]
  /\ at \in [Request -> {"idle", "cors", "credential", "limit", "handler", "answered"}]
  /\ sent \in [Request -> Sent \cup {NotSent}]
  /\ principal \in [Request -> Actor \cup {None}]
  /\ answer \in [Request -> {None, "204", "401", "429", "201", "refused", "lost"}]
  /\ recorded \subseteq [request : Request, actor : Actor]
  /\ charged \in [Request -> Caller \cup {None}]
  /\ tooLate \in [Request -> BOOLEAN]

WriteRequestsInit ==
  /\ CredentialsInit
  /\ Bucket!Init
  /\ at = [r \in Request |-> "idle"]
  /\ sent = [r \in Request |-> NotSent]
  /\ principal = [r \in Request |-> None]
  /\ answer = [r \in Request |-> None]
  /\ recorded = {}
  /\ charged = [r \in Request |-> None]
  /\ tooLate = [r \in Request |-> FALSE]

-----------------------------------------------------------------------------
\* A mutant: the limiter is registered before the credential check.
LimiterFirst == <<"cors", "limit", "credential", "handler", "answered">>

Pipeline == <<"cors", "credential", "limit", "handler", "answered">>

\* next()
Onward(r) ==
  \E n \in 1 .. Len(Pipeline) - 1 :
    /\ at[r] = Pipeline[n]
    /\ at' = [at EXCEPT ![r] = Pipeline[n + 1]]
    /\ UNCHANGED answer

Answers(r, status) ==
  /\ at' = [at EXCEPT ![r] = "answered"]
  /\ answer' = [answer EXCEPT ![r] = status]

\* What a client may present: a token somebody was shown, or parts of two, or
\* one for another environment, or none.
Presentable ==
  {Nothing} \cup
    {[env |-> env, handle |-> t.handle, secret |-> u.secret] :
       env \in Environment, t \in Shown, u \in Shown}

Arrive(r, method, address, token) ==
  /\ at[r] = "idle"
  /\ at' = [at EXCEPT ![r] = Pipeline[1]]
  /\ sent' = [sent EXCEPT ![r] =
       [method |-> method, address |-> address, token |-> token]]
  /\ tooLate' = [tooLate EXCEPT ![r] =
       \E c \in credentials : c.secret = token.secret /\ Withdrawn(c.secret)]
  /\ UNCHANGED <<credentialVars, limiterVars, principal, answer, recorded, charged>>

\* cors() answers a preflight and does not call the next handler.
Cors(r) ==
  /\ at[r] = "cors"
  /\ \/ sent[r].method = "OPTIONS" /\ Answers(r, "204")
     \/ sent[r].method = "POST" /\ Onward(r)
  /\ UNCHANGED <<credentialVars, limiterVars, sent, principal, recorded, charged, tooLate>>

\* bearerToken and parseToken: what is no token of this environment is refused
\* before any query.
Parsed(token) == token.env = Here

Authenticate(r) ==
  /\ at[r] = "credential"
  /\ Parsed(sent[r].token)
  /\ \E c \in Found(sent[r].token.handle) :
       /\ SecretMatches(c, sent[r].token)
       /\ principal' = [principal EXCEPT ![r] = c.actor]
  /\ Onward(r)
  /\ UNCHANGED <<credentialVars, limiterVars, sent, recorded, charged, tooLate>>

\* LIMIT 1 is one row; without the unique index it could be either of two.
Unauthenticated(r) ==
  LET found == IF Parsed(sent[r].token) THEN Found(sent[r].token.handle) ELSE {}
  IN /\ at[r] = "credential"
     /\ found = {} \/ \E c \in found : ~ SecretMatches(c, sent[r].token)
     /\ Answers(r, "401")
     /\ UNCHANGED <<credentialVars, limiterVars, sent, principal, recorded, charged, tooLate>>

callerKey(r) == IF principal[r] # None THEN principal[r] ELSE sent[r].address

Limit(r) ==
  /\ at[r] = "limit"
  /\ \/ /\ Bucket!Grant(callerKey(r))
        /\ charged' = [charged EXCEPT ![r] = callerKey(r)]
        /\ Onward(r)
     \/ /\ Bucket!Refuse(callerKey(r))
        /\ Answers(r, "429")
        /\ UNCHANGED charged
  /\ UNCHANGED <<credentialVars, sent, principal, recorded, tooLate>>

Record(r) == recorded' = recorded \cup {[request |-> r, actor |-> principal[r]]}

\* The handler: a body or a write that is refused, an event committed and
\* answered for, one whose commit is not heard, and any other exception.
Serve(r) ==
  /\ at[r] = "handler"
  /\ \/ Answers(r, "refused") /\ UNCHANGED recorded
     \/ Answers(r, "201") /\ Record(r)
     \/ Answers(r, "lost") /\ (Record(r) \/ UNCHANGED recorded)
  /\ UNCHANGED <<credentialVars, limiterVars, sent, principal, charged, tooLate>>

\* The database does not answer requireCredential.
LookupFails(r) ==
  /\ at[r] = "credential"
  /\ Parsed(sent[r].token)
  /\ Answers(r, "lost")
  /\ UNCHANGED <<credentialVars, limiterVars, sent, principal, recorded, charged, tooLate>>

\* The process ends: every request in it is lost, and every allowance is full.
\* A commit the handler had sent may have been taken.
Restart ==
  /\ Bucket!Forget
  /\ LET open == {r \in Request : at[r] \notin {"idle", "answered"}}
         begun == {r \in open : at[r] = "handler"}
     IN /\ open # {}
        /\ at' = [r \in Request |-> IF r \in open THEN "answered" ELSE at[r]]
        /\ answer' = [r \in Request |-> IF r \in open THEN "lost" ELSE answer[r]]
        /\ \E done \in SUBSET begun :
             recorded' = recorded \cup
               {[request |-> r, actor |-> principal[r]] : r \in done}
  /\ UNCHANGED <<credentialVars, sent, principal, charged, tooLate>>

LimiterPasses ==
  /\ clock < MaxClock
  /\ Bucket!Pass
  /\ UNCHANGED <<credentialVars, requestVars>>

WriteRequestsNext ==
  \/ CredentialsNext /\ UNCHANGED <<limiterVars, requestVars>>
  \/ \E r \in Request :
       \/ \E method \in {"POST", "OPTIONS"}, address \in Address, token \in Presentable :
            Arrive(r, method, address, token)
       \/ Cors(r) \/ Authenticate(r) \/ Unauthenticated(r) \/ LookupFails(r)
       \/ Limit(r) \/ Serve(r)
  \/ Restart
  \/ LimiterPasses

WriteRequestsSpec == WriteRequestsInit /\ [][WriteRequestsNext]_vars

-----------------------------------------------------------------------------
(***************************************************************************)
(* Properties.                                                             *)
(***************************************************************************)
Issuer(token) == token.secret[1]

\* The history names who asked (drizzle/0026, docs/adr/0014 section 6): an event's
\* actor is the one the operator issued the presented token to, and the token was
\* issued for this environment. Handles that collide, half of one token with
\* half of another, and credentials withdrawn meanwhile do not confuse them.
HistoryNamesTheCaller ==
  \A e \in recorded :
    LET token == sent[e.request].token
    IN /\ token \in Shown
       /\ e.actor = recipient[Issuer(token)] /\ e.actor \in actors

\* A credential that was revoked or had ended when a request with it arrived
\* opens nothing: the request has no principal, and no event is recorded for it
\* (verify-credential.ts:82-87).
WithdrawnStaysOut ==
  \A r \in Request :
    tooLate[r] =>
      principal[r] = None /\ \A e \in recorded : e.request # r

\* A token that was shown to somebody works: it is not refused while it is in
\* force, whatever other issuances drew the same handle before, after or at the
\* same time ("a collision ... authenticates the wrong actor", schema/
\* credential.ts:137-143).
ShownTokensWork ==
  \A r \in Request : answer[r] = "401" =>
    ~ \E token \in Shown :
        sent[r].token = token /\ ~ Withdrawn(token.secret)

\* The allowance is the caller's (app.ts:135-147): what the limiter charges, it
\* charges to the actor the presented token was issued to. A request that is
\* refused with a 401 costs nobody anything, and so does a preflight, which is
\* always answered.
ChargedToWhoAsked ==
  \A r \in Request :
    /\ charged[r] # None =>
         sent[r].token \in Shown /\ charged[r] = recipient[Issuer(sent[r].token)]
    /\ answer[r] \in {"204", "401"} => charged[r] = None
    /\ sent[r].method = "OPTIONS" => answer[r] \in {None, "204", "lost"}

\* Issuing is one act (issue-credential.ts:78-122): what fails leaves neither an
\* actor nor a credential behind, and what commits, heard of or not, leaves one
\* credential of an actor that exists.
IssuingIsOneAct ==
  \A i \in Issuance :
    LET rows == {c \in credentials : c.secret[1] = i}
    IN IF stage[i] \in {"returned", "unheard"}
       THEN /\ Cardinality(rows) = 1
            /\ \A c \in rows : c.actor = recipient[i] /\ c.actor \in actors
       ELSE /\ rows = {}
            /\ asked[i] = New => recipient[i] \notin actors

=============================================================================
