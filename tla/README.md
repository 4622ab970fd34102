# TrustPass in TLA+

TrustPass keeps one record per physical product: who registered or enrolled it,
what happened to it since, and a public page (the passport) that a QR code on the
object resolves to. This directory holds TLA+ modules that model the code under
`src/`, TLC configurations that check them on small instances, and theorems about
them that TLAPS proves for every instance. `PROJECT.json` names every component,
run, mutant, mapped definition, finding, hazard and theorem; this file explains them.

- [1. The system](#1-the-system)
- [2. The modules](#2-the-modules)
- [3. The runs](#3-the-runs)
- [4. Where the code disagrees with what is said of
  it](#4-where-the-code-disagrees-with-what-is-said-of-it)
- [5. The proofs](#5-the-proofs)
- [6. What is left out](#6-what-is-left-out)
- [7. The plan](#7-the-plan)

## 1. The system

A PostgreSQL database holds everything. A Hono API (`apps/api`) reads and writes it
through repositories (`packages/db/src/repositories`); a Next.js site (`apps/web`)
fetches passports from the API; operators use command-line programs and the owner's
connection. Every concurrent actor meets every other in the database: there are
no queues, no background jobs and no messages. What is hard is therefore what
transactions at READ COMMITTED see of each other, what is decided in one statement
and used in the next, which instant a row is dated with, and what is left when a
step fails or its answer is lost.

| Component | State | Operations | Correct when |
| --- | --- | --- | --- |
| Status and recording rules (`domain/product-status.ts`, `recording-authority.ts`; triggers of `0002`, `0012`) | none: two copies of one set of rules | `canTransition`, `mayRecord`, `mayRetireFrom`, `eventFor`; the guards of the triggers | the two copies are the same (`TheCopiesAgree`) |
| Product and history tables (`schema/product.ts`, `lifecycle-event.ts`; `drizzle/0002`-`0016`, `0022`) | product rows, append-only events, row locks, two partial unique indexes, deferred provenance checks | INSERT, SELECT FOR UPDATE, UPDATE, INSERT event, COMMIT, ROLLBACK, by anybody | one live identity per serial; no product without an origin, no move without its own event; retirement is final |
| Product writers (`product-repository.ts`, `enrolment-repository.ts`, `product-status-repository.ts`) | a transaction each | `insertProduct`, `enrolProduct`, `changeProductStatus` | the history is the path of the status; answers are true; every call is answered; only legal, authorised steps show |
| Authority (`authority-repository.ts`, `schema/capacity-grant.ts`, `membership.ts`; `0018`, `0019`) | grants, revocations, memberships, dated with any instants | grant, revoke, join, end and end again; `grantsHeldAt`, asked inside `insertProduct` | nothing withdrawn before a write began authorises it; refusals are deserved; only what is dated before an instant, or the end of a membership moved across it, changes the answer about it |
| Credentials (`packages/db/src/auth`, `schema/credential.ts`) | actor and credential rows | `issueCredentialFor`, `verifyCredential`; revocation and ends by operators | issuing is one act; a shown token works until it is withdrawn, and then not; nobody is taken for somebody else |
| Rate limiter (`http/rate-limit.ts`) | a map of buckets in the process | `check`, with its pruning | no caller exceeds the rate; who waits as told, and a tick, is let through; the map is bounded; laziness and pruning are noticed by no more than a rounding |
| HTTP application and write routes (`app.ts`, `http/*`, `routes/*`) | a request on its way through the middlewares | CORS, credential, limiter, handler | the history names who asked; the allowance charged is the caller's; refusals cost nothing |
| Passport read (`passports/read-passport.ts`, `lifecycle-event-repository.ts`) | two query results | product row, then history | the status shown is accounted for by the history shown; readers agree; drafts do not exist |
| TrustPass ID (`identity/crockford-base32.ts`, `trustpass-id.ts`) | none: pure functions | `encodeSymbols`, `checkSymbol`, `normalizeSymbols`, `parseTrustPassId`, `format` | a slip in a code is noticed or harmless; a code read in any manner is the code that was printed |
| Public pages and QR (`app/trustpass`, `lib/passport-origin.ts`) | what a shared cache keeps | `fetchPassport`, the page, `qr.svg` | a registered product is never said not to exist; nothing on the page is louder than the record; a QR leads where the site is |
| Organizations and the issuer migration (`0020`-`0023`) | rows of two tables kept in step by triggers; table locks of a migration | INSERT on either, UPDATE of an issuer (which a trigger carries over) or of an organization (which none does), by code of two versions; four migrations | nobody loses the party a row names; the two records agree unless an organization was there first or changed by itself; history keeps its guard |
| Database roles (`0024`, `0027`, `connection-privileges.ts`, `provision-roles.ts`, `local-dev.ts`, `setup-local.ts`) | roles, memberships, owners, grants; passwords; who holds a local port | migrations, an operator's statements; the server's start; `db:provision`, `db:setup` | a server that could become an owner, or rewrite identity, history or grants as it is, does not start; both roles are given a word or neither; published passwords stay on the container |
| Database connection and health, backup and restore, `issuer-preflight.ts`, repository tooling | files, terminals | `pg_dump`, `pg_restore`, docker, git | not modelled but for the start of `index.ts`, section 6 |

How they interact:

- a request passes CORS, `requireCredential` (one query), `rateLimited` (in memory)
  and its handler, which runs one repository function in a transaction of its own;
- that transaction takes the row locks and index waits of the tables, asks
  `grantsHeldAt` on its own connection, and at COMMIT runs the deferred triggers;
- operators change authority and credentials in transactions the API knows nothing of;
- a passport is read by two queries in no transaction, at any time; the site turns what
  the API answers, or the lack of an answer, into a page;
- migrations run in transactions whose table locks meet the writers' row locks, while
  servers of the previous and the next version are up;
- the server asks the catalogue about its own role once, before it serves; a superuser
  may change that role at any time.

## 2. The modules

```
StatusRules ── Registry ── ProductWrites ── Passports
     └──────── ProductLedger ──┘ (ImplementsLedger)
Authority
TokenBucket ──(KeepsItsPromise)── RateLimiter ── Doubles
     └──────── WriteRequests ──── Credentials
IssuerMigration
Roles
PassportPages
```

A line to the right is EXTENDS, except the two that name a refinement and the one
from `TokenBucket` to `WriteRequests`, which are INSTANCEs. Each `MC` module gives a
module its small instance. Definitions keep the source's names where they can; every
definition that models code is listed under `map` with the lines it models. A
comment "A mutant" marks an operator no specification uses: it says how a plausible
bug would change the definition below it, and the listed run then fails.

**StatusRules** holds the rules twice, as the code does. `GuardAllowsMove` and
`GuardAllowsRecording` are what the triggers accept; `mayRecord`, `mayRetireFrom` and
`eventFor` are what the repositories decide. `canTransition` with its table
`PRODUCT_STATUS_TRANSITIONS` is the TypeScript copy of the first: no repository calls it,
tests do, and the proofs compare the two for every move (`TheCopiesAgree`). `mayRetireFrom`
as modelled guards every exit from suspended, because `eventFor` and `RECORDING_AUTHORITY`
already leave the authority as the only kind that may record one; the end of a suspension is
protected by two independent conditions.

**Registry** is the database: committed rows (`status`, `history`), the identity
sequence, and for each transaction the row versions it has written, the events it
has inserted, the firings of deferred triggers it has queued and the lock it holds on
each row. Any transaction may run any statement in any order, because the triggers
were written for writers other than the repositories (`drizzle/0010`). `View` is what
a statement sees under READ COMMITTED; `RowLocksConflict` is PostgreSQL's conflict
table for the modes that occur; `RivalInDoubt` is a unique index that waits for an
uncommitted version. `Commit` runs the deferred checks against what that transaction
can see: `OriginRecorded` for an INSERT, and for an UPDATE `MoveExplained`, which is
the chain of states in `0016`, restricted to events with this transaction's xid. A
transaction whose checks fail can only roll back.

**ProductWrites** is three programs over `Registry`, one action per statement, with a
program counter `step`, the call, what it has `seen` and its `answer`. Every await is
a point where others may run. `Fail` is a connection lost at any statement,
`FinishUnheard` a COMMIT that is taken and whose acknowledgement is lost.
`changeProductStatus` catches TP001 outside its transaction and reads the status again
to name it: `UpdateRefused`, `Reread`.

**ProductLedger** is the abstract specification: products enter once under a key no
other live product has, and move one legal, authorised step at a time, each step
written down as it is taken. `ProductWrites` implements it with `standing` the
committed status and `trail` the committed moves in the order of their ids
(`TrailOf`).

**Authority** has one actor, one organization, and time. No code under `src/` but migrations
and tests writes these tables, so an operator does whatever they let him: a row is dated
with any instant, past or future, and seen from its COMMIT; a grant and a revocation are
final; the end of a membership may be set, moved and cleared, as long as it is after the
beginning. `since` is a ghost: what operators have committed since each writer began. A
writer decides for an instant that reached it as a JavaScript `Date` (`AsDate` drops the
microseconds), and writes an event that is dated with them.

**TokenBucket** and **RateLimiter**: the first is what is promised, an allowance per caller
that fills with every tick; the second is the code, a map of buckets refilled when looked at
and pruned above a threshold. The code computes in doubles, and every look at a bucket
rounds, so a bucket that is polled holds less, or more, than one that is not (from empty, at
0.2 tokens a second, ten looks in five seconds make 0.9999999999999999). The arithmetic is
therefore a parameter: `Gained`, `Plus` and `Seconds` are the operations of lines 107-122,
`Double` the numbers they can give, and `Unit` a token counted in last bits.
`RoundingAssumption` and `WaitAssumption` say what the properties need of them: taking a
token off is exact, adding nothing changes nothing, a longer lapse never gives less, a full
refill fills, and a tick is worth `Rate` up to `Slip`, which is small against it.
`TokenBucket` has the same `Slip` in its ticks. **Doubles** gives the operations: numbers of
`Bits` significant bits, rounded to nearest and ties to even, and TLC evaluates both
assumptions for them. For the code's own numbers (53 bits, a burst of 20, 0.2 a second,
milliseconds) the assumptions are argued here and not computed: the roundings that separate
two readings of one bucket come to less than 2e-14 of a token; a tick is worth 2e-4; the
longest wait has 5,000 of them; what is taken off a number between 1 and 20 is exact;
`fullRefillMs` is exactly 100,000, and 100 * 0.2 exactly 20; and IEEE operations are
monotone. The clock is `Date.now`: it moves forward by any number of ticks and may be set
back. The rate is measured in forward movement, so a clock that jumps ahead fills allowances
early; the code cannot tell the difference.

**Passports** adds readers and dates to `ProductWrites`: two queries in their order,
the draft rule, and the order of the page.

**Credentials** is `issueCredentialFor` statement by statement, several at once, with a
small set of handles so that they collide, and `verifyCredential` as one query. A
secret is 256 random bits and never drawn twice, so it is named by its issuance and
attempt. Each environment has a database of its own: the row does not store the
environment, the token does.

**WriteRequests** puts a request through the middlewares in `Pipeline`'s order, over
`Credentials` and an instance of `TokenBucket`, which `RateLimiter` is proved to
implement. The handler's function is summarised (an event is committed, or not, and
its answer may be lost); its detail is `ProductWrites`. `Restart` ends the process.

**IssuerMigration** keeps the two tables of a party, the rows that name one, the guard on
history, and for each transaction its uncommitted writes and table locks. A party is a
registry identity, and `verification_status` stands for the columns that go with it. Writers
run the statements of the previous and of the next version of the code, with the triggers of
`0021` in the statements that fire them; no trigger is on `organization`, so
`UpdateOrganization` changes one of two records (`ahead`, a mark of the model's, says that
an organization was there before its issuer or was changed by itself). `Migration` is the
current one of the four migrations, each a sequence of statements, each of which takes the
locks its DDL takes (`Lock`, `Conflict`). Those a deployment finds pending run in one
transaction (`GoOn`), as drizzle's migrator runs them and as `Roles.Migrate` does; a
deployment may come with any number of them (`FinishMigration` after each). `FailMigration`
is a raised condition, the victim of a deadlock or a lost connection at any statement, and
undoes all of them.

**Roles** is the catalogue and the three programs that depend on it. `Member`, `Inherits`
and `MaySet` are PostgreSQL's three closures of memberships, and `Has` its
`has_table_privilege`. `Migrate` runs every pending migration in one transaction,
as whoever is logged in; `Operate` is one statement of a superuser. The server connects
(`Start`), asks about its role, then about each forbidden privilege, in any order, and
serves or stops. The tables and columns the server does not ask about are there too
(`membership`, `organization_id`), and may be granted. `db:provision` decides before it
connects and gives two passwords in one transaction; a variable may be unset, empty or set
(`Variable`): `Missing` counts an empty one, and `WordOf` gives it, which clears the role's
password; `db:setup` is the same for the container it starts. `ports` says who holds
a local port: nobody, the container, or a tunnel to another database.

**PassportPages** follows one label from the product to the page: the code is typed with or
without a slip, as printed, with spaces or hyphens between its groups or in the characters
it is mistaken for; it travels as a segment of an address, is parsed, answered by the API or
not, and shown. `Asked` is what the API reads: the framework hands a page its segment
escaped, `fetchPassport` escapes it once more (`passport.ts:167`) and the API's router undoes
one of the two, so `$`, `=` and a space arrive as three characters. That the framework does
so is its own code, outside `src/`, and taken from its documented behaviour. The functions are
translated one by one and keep the code's 26 digits of base 32. What the page says is
reduced to what somebody could be misled by: its kind, its banners, the tone of each line,
the shown end of the serial and where the QR leads. `Download` is `qr.svg`
through a cache that keeps what its header lets it keep.

## 3. The runs

Every property of a passing run has a mutant of the code that violates it under the
same configuration. All bounds are constants or guards named in the modules.

| Run | Instance | What it shows |
| --- | --- | --- |
| `registry` | 3 transactions, 2 products, one serial, 3 events | What the database alone promises of any writer: `OneLiveIdentityPerSerial`, `NothingWithoutAnOrigin`, `EveryMoveIsRecorded`, `RetiredIsTerminal`, `ExplainedByItsWriter`. Two transactions race and the third is the bystander whose commit must not account for them; three events are a birth and two moves. |
| `product_writes` | 3 calls, 2 products, one serial, 3 events | Every kind of move by every kind of actor, after either birth, and a second product that wants the serial while its holder is retired or suspended: `HistoryExplainsStatus`, `NeverRefusedLate`, `AnswersAreTrue`, `SuspensionEndsByAuthority`, the refinement `ImplementsLedger`, and under fairness `EveryCallIsAnswered`, so no set of lock and index waits closes a circle. A birth and two racing moves are the fewest in which a decision is overtaken; a birth, a retirement and a rival the fewest in which a serial is freed. |
| `answers` (violation) | 3 calls | Finding 1. |
| `authority` | 2 grants, 2 memberships, 1 writer, 3 acts of operators, 2 units per millisecond, 5 instants | `WithdrawnIsNotUsed`, `RefusalsAreDeserved`, `HistoryKeepsItsAnswer`: two grants, so that one may stand in for the other; two memberships, so that one may end and another begin; a grant and a membership may be there from the start, so that three acts are a grant, its revocation and an end, or an end that is set, moved and cleared; two units, so that truncation loses one. |
| `limiter` | 2 callers, pruning above 1, numbers of 7 bits, 6 ticks a token, burst 1, 8 ticks | `NeverAboveTheRate`, `HonestRetryAfter`, `MemoryIsBounded` and the refinement `KeepsItsPromise`, with set-backs and restarts. A token is 512 units and a tick 85, so a caller who looks at every tick has less after six of them than one who looks once, as ten looks do with 53 bits: at the instant it was told the first is refused, and a tick later it is not. The second caller takes the map over its threshold. |
| `passports` | 3 calls, 2 readers | `StatusIsAccountedFor`, `PassportsAgree`. |
| `passports_order` (violation) | 3 calls, 1 reader | Finding 2. |
| `requests` | 2 issuances, 2 handles, 2 attempts, 2 requests, 1 withdrawal, 1 token | `HistoryNamesTheCaller`, `WithdrawnStaysOut`, `ShownTokensWork`, `ChargedToWhoAsked`, `IssuingIsOneAct`. Two handles for two issuances make every collision: with a committed row, with one in doubt that commits, with one in doubt that does not, and twice in a row. |
| `migration` | 2 writers, 2 parties, 1 product with its event, 2 standings | `NobodyLosesTheirParty`, `TheRecordsAgree`, `HistoryIsKept`. One party is entered, changed and named, in either table; the other is a bystander that may be there from the start, so that a join on too little finds the wrong one. Two writers are enough to overlap an entry with a change, and either with the migrator. |
| `roles` | 1 role of an operator's own, 16 acts, 3 URLs, a budget of 3 | `StartsHarmless`, `PublishedStaysHome`, and in `RolesTypeOK` that both roles are given a word or neither. Three acts are the longest chain the questions distinguish: a membership, another over it, and a start; or a question, a changed port and a connection. |
| `setup` (violation) | a budget of 1 | Finding 3. |
| `pages` | 2 labels of 26 digits, every slip at every place, 4 manners of typing | `NoFalseAccusation`, `NothingBeyondTheRecord`. One label has digits from all over the alphabet; the other is nearly zero and has the check symbol `$`, so that it does not reach the API as it is; serials of 4, 8, 9 and 10 characters lie on both sides of what may be shown. |

Deadlock is not checked where the instance ends: calls are made once, clocks stop at
their bound, and a finished instance has nothing left to do. That nothing waits for ever
before the end is `EveryCallIsAnswered`.

**Fairness.** Only `product_writes` needs it: `WF_vars(Proceed(t))` for each call. A call
that has begun goes on when it can, because the event loop runs what is ready and
PostgreSQL wakes a session when what it waits for has ended. Nothing is assumed of the
clients: nobody has to call. Nothing is assumed about failures: they may happen or not.
Migrations, scripts, operators and readers need not go on.

**Symmetry** permutes interchangeable transactions, callers, handles, issuances,
requests and writers, never in the run with a liveness property.

## 4. Where the code disagrees with what is said of it

Each is a violation run; the quotations are in `PROJECT.json`.

1. `answers`: a refused move is reported with a status that is read after the
   transaction has rolled back. If another call moves the product in between, the
   answer names a move that is legal.
2. `passports_order`: the page is ordered by `occurred_at`, which is when the writer's
   transaction began. A move that waited for the row lock is shown under the one it
   waited for.
3. `setup`: `db:setup` asks which port the container publishes before it has started
   the container, so on a machine where it is not running yet the command refuses itself;
   `db:reset`, which takes it down first, always does.

Met on the way, and shown by no run:

- ADR 0009 says an issuer cannot clear a suspension. The repositories keep that (proved,
  `SuspensionsEndByAuthority`); the triggers alone would not, because `0012` weighs an
  event's type against its actor and never against the states it names.
- A revocation may be dated with any instant, and shows when it is committed. One that
  overlaps a writer's transaction, or is dated back, can be dated before an event it did not
  prevent, so the answer to "was this grant valid when the event says it happened"
  (`product-repository.ts:87-89`) may be no. `WithdrawnIsNotUsed` therefore speaks of what
  was committed when a write began.
- ADR 0011 (208-210) and `authority-repository.ts:19-21` say that reconstructing what was
  held does not depend on anybody having refrained from an UPDATE. `membership_only_ends`
  (`0018:213-249`) lets `ended_at` be set to any instant after `began_at`, moved and
  cleared, and `grantsHeldAt` reads it, so what was held in the past changes with it.
  `HistoryKeepsItsAnswer` says what does hold: no other UPDATE changes an answer.
- `product-repository.ts:111-112` truncates to milliseconds the instant it calls the event's
  own; the docstring at `register-product.ts:84-85` promises the identity a duplicate serial
  belongs to, which lines 62-68 and 175-181 deliberately do not return.
- `rate-limit.ts:119-121` rounds Retry-After up "so a client that obeys it does not come
  back a millisecond early and get refused again". A client that polls meanwhile may: every
  look rounds, and an empty bucket looked at every half second holds 0.9999999999999999
  when the five seconds are over. A millisecond later it is let through, which is what
  `HonestRetryAfter` says.
- A label whose check symbol is `$` or `=` (2 of 37), or a code typed with spaces, is escaped
  twice and unescaped once on its way through the page (`passport.ts:167`), and the page says
  that it is not a TrustPass code. The QR of such a label leads to the same page. The page
  never says that the product is not registered, which is what `NoFalseAccusation` guards; it
  promises to find a code only when escaping leaves it alone (`plain`). This rests on how
  Next's App Router hands over the segments of an address.
- `issuer-preflight.ts` prints READY from a walk that looks for some spellings of a
  dependency (51-52, 89-90: not `.update(issuer)`, `.innerJoin(issuer` or SQL in a string),
  passes over `scripts/` and `schema/`, and calls itself working when three samples match and
  fifty files were counted (133-169, 304). READY is a reason to go on and no guarantee; the
  script is not modelled, and `0023` asks for itself whether a party would be lost.
- `0021:20` says that the database keeps the two in step "for every writer including the
  owner". It has triggers on `issuer` and none on `organization`: an UPDATE of an
  organization's standing makes the two disagree (`ahead` in `TheRecordsAgree`).
- `provision-roles.ts:91` counts a password variable set to the empty string as missing, and
  `:123-124` (`??`) takes it for a value. With `--local-dev`, that role's password is cleared
  while the other gets its own or the published one, and the script says of both that they "can
  now log in". `RolesTypeOK` therefore says that both are given a word or neither, not that
  both can log in.
- The trigger of `0021:34-39` matches an issuer to an organization that was there first and
  copies no facts onto it, so the two may disagree until the issuer changes (`ahead` in
  `TheRecordsAgree`). The preflight asks about that (222-227) and `0023` does not.
- `0020` and `0022` lock `lifecycle_event` before `product`; writers take `product` first.
  A migration under load may be PostgreSQL's victim; nothing of it stays (`HistoryIsKept`).
- The start-up question is asked once and in no transaction, so `StartsHarmless` holds
  of a catalogue that stood still meanwhile (`quiet`). It asks about `current_user`: of a
  role that logs in and is made another, it is the other that is asked about. It asks six
  questions about grants (`connection-privileges.ts:132-165`) and not about other columns and
  tables: a role that was granted UPDATE of `product.organization_id`, or INSERT on
  `membership`, is let through. Forbidden grants are asked of what the role inherits; a
  group it could only SET ROLE to is caught when it owns something, and not when it was
  granted something. `StartsHarmless` says what those questions do protect: identity,
  history and grants of authority as the role itself, and ownership as any it may become.
- `db:provision` asks docker before it connects. A port that changes hands in between is
  not noticed (`undisturbed` in `PublishedStaysHome`).
- 32^18 is -1 modulo 37: exchanging the check symbol with the digit 18 places before the
  last can pass. No other exchange of two symbols does, and no change of one.
- `cacheControlFor` lets a configured QR be kept for a year; it outlives a change of
  `NEXT_PUBLIC_SITE_URL`.

## 5. The proofs

`tlapm` checks every leaf. Assumptions on constants are named in the modules
(`RegistryAssumption`, `CallsAssumption`, `AuthorityAssumption`, `LimiterAssumption`, and
those named below) and evaluated by TLC on every run.

**ProductWritesProofs** has three parts: the registry, the functions as its writers, and
the ledger. It begins with `TheCopiesAgree`: `canTransition` and the status trigger allow
the same moves, and the recording rules of TypeScript and of the trigger the same events.

*The registry*: every property of the `registry` run, for any number of
transactions, products, keys and events. None is inductive: whether two live rows can
share a key depends on what is uncommitted, and whether a commit is explained depends
on the firings it queued. `RegistryInv` adds the facts that carry them: a version is
written only under a lock that excludes other writers; no two versions, committed or
not, of two products with one key are live for different writers to commit; what a
transaction wrote differs from what is committed only if the matching firing is
queued, from the value that was committed; a row that is committed has an event. Each
part has a lemma for its step (one case per statement), and `RegistryInvariance`
combines them. `OneLiveIdentityPerSerial` and `NothingWithoutAnOrigin` are parts of it;
`RetiredIsTerminal` and `ExplainedByItsWriter` are action properties of it;
`EveryMoveIsRecorded` is inductive with it.

*The functions are writers of the registry*: `WritesRunOnRegistry` shows that every step of the
repositories is a step of `Registry`, where the writers of `Registry` are not bounded
(`Targets = Status, Claims = Claim`), so everything above carries over
(`RepositoriesKeepSerialsUnique`). `SuspensionsEndByAuthority` proves for the
repositories what the tables alone do not promise: a call that has decided to move a
product still sees what it saw (`DecidedToMove`: it has the lock), so an event that
leaves suspended was decided by `MayMove`, which only an authority passes
(`OnlyAuthoritiesLift`), and by `ExplainedByItsWriter` a suspension that ends has one.

*The ledger*: what `product_writes` checks of the three repository functions,
for any products, calls and overlaps of them: that no trigger refuses what a function
has decided (`DecisionsHold`), that answers are true (`AnswersHold`), that a history is
the path of its product's status (`HistoriesExplain`), and that the repositories
implement `ProductLedger` (`RepositoriesKeepTheLedger`). The argument has three storeys.
`Progress` says what each call has written by each of its statements and which lock it
holds: from SELECT FOR UPDATE, or from the INSERT, the row is this call's until it
closes, so what it saw is what is committed. `EventsInOrder` says that an event about to
be committed has an id above every committed move of its product: its writer locked the
row before it drew the id, and everyone who wrote that row before has closed. `Explained`
says that the moves of a product, from the status it was born with, lead to the status
it has; each commit adds one move at the end. For the refinement, the trail of a product
is numbered by how many of its moves have smaller ids (`Numbered`), so that one more move
with the largest id appends one element, without an induction over the sequence
(`TrailGrows`).

**PassportsProofs**: the invariants of the `passports` run, for any number of readers and
writers. The row and the history are read by two queries that share no transaction. What
holds between them holds because a history only grows, a product neither disappears nor
leaves retirement (`NothingIsTakenBack`, from the ledger's invariant), and a committed
status is always accounted for by a committed event (`CommittedIsAccounted`, from
`Explained` and `OriginsOwed`). `SoFar` carries this from the first query to the answer;
`NobodyKnowsBetter` compares a reader with those answered before it asked.

The last two parts of ProductWritesProofs and PassportsProofs assume `Targets = Status` and
`Claims = Claim`, which only says that the writers of `Registry` are not bounded; the runs
bound them.

**AuthorityProofs**: every property of the `authority` run, for any grants, memberships,
writers, acts of operators, dates, clock and precision. `AuthorityInv` says, beside the
types, that a writer that has begun has an instant (`Dated`), that what a decision found is
borne out by the rows but for what operators have committed since the write began
(`DecisionsStand`), and that the refusals are deserved, which is inductive with it. Both
need `since`: rows may be dated back, and an end moved, so the rows alone do not say what
was to be seen when a writer asked. That the oldest grant in force exists is the
well-foundedness of Nat (`LeastExists`). `OnlyTheEndIsRewritten` goes through the acts one by
one: an answer changes only with a row that is new and dated no later than the instant asked
about, or with an end put on the other side of it. Nothing is assumed about ends.

**RateLimiterProofs**: for every burst, rate, second, number of callers and every arithmetic
that keeps `RoundingAssumption` and `WaitAssumption`, `NeverAboveTheRate`,
`HonestRetryAfter`, `MemoryIsBounded` and the refinement of `TokenBucket`, with a clock
that is set back at will. `LimiterInv` compares each lazy bucket with an allowance that
fills tick by tick, a slip faster than the rate, and says of a caller who was told to wait
that a token will be there by the tick after, even if every tick until then is worth a slip
less (`ToldIsTrue`). The last tick is what pays for the rounding, and the last conjunct of
`WaitAssumption` says that it can. Pruning a bucket is invisible because a bucket as old as
a full refill is full, which is how a caller without one is treated.

**WriteRequestsProofs**, whose first part is about issuing: every property of the
`requests` run, for any number of issuances, handles, attempts, requests, addresses and allowances.
`CredentialsInv` says that the rows are exactly what was committed (`RowsAreIssued`),
that no two rows or uncommitted insertions share a handle (`HandlesAreUnique`; this is
what the unique index gives and a SELECT before the INSERT would not), and that an actor
being created belongs to one issuance until it commits (`ActorsAreIssued`). `RequestInv`
says of a request at each middleware what it has passed. `TokensWork` needs both: the
row of a shown token is there, `InForce` finds it, and `HandlesAreUnique` leaves no
other row for LIMIT 1 to return. `HistoryIsTrue` follows because a row whose secret
matches is the row of the issuance that drew that secret, and issuances are final once
committed (`CommittedStays`). Assumed: a secret is never drawn twice, actor ids and
addresses are kept apart by `callerKey`'s prefixes, and the marks that stand for no
value are not values (`CredentialsAssumption`, `WriteRequestsAssumption`).

**IssuerMigrationProofs**: every property of the `migration` run, for any parties,
standings, products, events and writers. `MigrationInv` is inductive and says, beside the
types, the following. `Sound`: every committed row names the party it was written for, in
one column or in both, the guard is on, and while `0021`'s triggers are there the records
agree but for a party that is `ahead`. `MigratorInv`: the migrator holds the locks of the
statements behind it, those of the migrations it has `ran` included, and by the last
statement what it verified is so in its own view. `LocksApart`, `PartiesApart` and
`RecordsApart`: no two transactions hold locks that conflict, or have written the same
issuer, organization or record. So a migration commits its writes over a database in which
what it verified is still true; PostgreSQL's table locks are why. `WriterInv`: what a writer
in flight has written, by the statement it is at and by the stage it is at *now*. It is the
reason the invariant is long: a writer may begin under one migration and commit under the
next, and must not carry across a row or an issuer that the next would have treated
otherwise. It cannot, because each migration's own locks wait for every writer that has
touched those tables; a writer in flight when `0021` commits has entered, or changed, at
most an organization. `MigrationIsInvariant` has one lemma per action and combines them.
`MigrationAssumption` says only that the marks for no party, no row and the migrator are not
parties, rows or writers.

**RolesProofs**: every property of the `roles` run, for any finite set of groups, any
grants, memberships, attributes and owners an operator may give, any URLs and any budget of
such acts (`RolesAssumption`). What a role wields is a closure, and the model climbs the
memberships as many steps as there are roles. `OverIsClosure` shows that this is enough: a
climb that does not stop gains a role with every step, and runs out of roles. So what
`has_table_privilege` finds is all there is, and a role about which no question failed can
become no owner and has none of the powers asked about. `RolesInv` adds to the types the two
facts that carry the rest from one step to the next. `ToldIsSo`: while nothing has changed
since the first question, every answer a server was given is still true; without it the last
answer would say nothing of the first. `GiverIsHome`: a script about to give a published
password was answered by the container, which still holds the port while nobody has
disturbed it; without it the two transactions would not know why the first was allowed.
`ServesHarmless` and `PublishedIsForHome` are action properties of it.

`StartsHarmless` does not speak of the role that had logged in alone: the migration role's
sessions run as the owner. While the owner owns nothing (before the first migration, or
after an operator has handed everything over) it is found harmless, and an attribute the
migration role has of its own is not asked about. The property says what `current_user` can
answer: the role the session runs as, and, while the owner owns anything, the one it logged
in as too.

**PassportPagesProofs**: every property of the `pages` run, for all values of a label and
not only those of the instance, for any serials, and for bodies of 5 to 36 digits
(`PagesAssumption`; the code has 26). It goes from arithmetic to text to what a
visitor sees.

- *The check symbol.* Two values that differ in one digit, or by an exchange of two, have
  remainders that are apart by a difference of digits times a power of 32, or by that
  times the power less 1 (`Drift`). 37 is prime, none of the first 35 powers of 32 is 1
  modulo 37, and only the 18th is -1. Hence `OneDigit`, `TwoDigits`, and `DigitAndCheck`
  with its one exception, which section 4 names. 36 digits is the bound because the 36th
  power is 1: two digits that far apart would change places unnoticed.
- *The text.* Neither a manner of writing, nor a separator typed twice, changes what is
  read (`WrittenAlike`); a character left out or typed twice makes a text too short or
  too long, unless it was a separator (`Removed`, `Doubled`). `OneSlip`: with at most one
  slip a code is refused or taken for itself, and without one it is taken for itself.
- *The address.* Escaping leaves a text as it is or puts a `%` into it (`AskedReads`), which
  no code contains, so what is escaped is refused as no code and never taken for another
  (`PercentIsNoCode`).
- *The visit.* `PagesInv` says which text a visitor may have typed, which answers that text
  may have once escaped, and which pages that answer; and that a shared cache keeps our own
  address or nothing. `NobodyIsAccused` and `PagesSayNoMore` follow.

Induction in both is over *sets* of numbers (`SetInduction`: a set with 0 that has n + 1
with n has them all), from the library's theorem that a non-empty set of numbers has a
least one. The library's own induction takes an operator, which no prover here can be given.

**Only model-checked**: `EveryCallIsAnswered`, which is liveness under fairness and out of
the prover's reach; and what the three violation runs refute. Every other property of
every passing run is a theorem.

## 6. What is left out

- Columns without a rule between rows (brand, model, category, reason, evidence
  references, corrections), country scopes of grants, savepoints, and statements other
  than those above. Products, handles and secrets are names.
- Isolation levels other than READ COMMITTED, and a failover of the database.
- The body schemas, headers and wording of the HTTP application, the origins CORS
  allows, request ids. The write routes allow the content-type header only
  (`app.ts:116`), so a browser on another origin cannot send a credential; ADR 0014
  puts that out of scope.
- `bucketKey`, which normalises an address: no route reaches the branch that asks it.
- The sentences and the layout of the public pages, the drawing of the QR code.
- `backup.ts`, `restore-drill.ts`, `attack-residue.ts` and `pg-tools.ts`: programs around
  `pg_dump` and `pg_restore` whose steps are files and child processes; what a restored
  database promises is what its triggers and constraints promise, which is `Registry`.
- `issuer-preflight.ts`: a walk over the text of the source files and single queries; what
  it can miss is in section 4.
- A change of a party's registry identity while the migrations run: `0021:68-77` refuses it
  of an issuer; of an organization, or of an issuer before `0021`, nothing does.
- `issuance.ts`, the arguments of the issuing command, and the two commands that print.
- Configuration (`env.ts`, `client.ts`), health, and the repository's own tooling
  (`scripts/`): no state of the running system.

## 7. The plan

Done, in this order: StatusRules, Registry and its proofs; ProductLedger,
ProductWrites and their proofs; Authority and its proofs; TokenBucket, RateLimiter and
their proofs; Passports and its proofs; Credentials, WriteRequests and their proofs;
IssuerMigration and its proofs; Roles and its proofs; PassportPages and its proofs.

What would be worth adding, were the code to change there: liveness of issuance and of
requests, and the restore drill should it come to decide anything from what it restores.
