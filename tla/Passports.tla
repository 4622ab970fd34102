------------------------------ MODULE Passports ------------------------------
(***************************************************************************)
(* Strangers read the passport of a product while the repositories write   *)
(* it. readPassport runs two queries, each on its own: the product's row,  *)
(* then its history, ordered by occurred_at and, where that ties, by id.   *)
(*                                                                         *)
(* occurred_at is the now() of the transaction that wrote the event, which *)
(* is when that transaction began. Callers may pass another instant for a  *)
(* change of status; none of the repository's callers does.                *)
(***************************************************************************)
EXTENDS ProductWrites

CONSTANT Reader   \* requests for the passport of one product, each made once

VARIABLES
  began,    \* now() in each transaction; 0 until it begins
  reading,  \* which query a reader's request runs next
  passport, \* what it has read
  earlier   \* ghost: the readers that were answered before this one asked

readerVars == <<reading, passport, earlier>>
passportVars == <<vars, began, readerVars>>

NoPassport == [product |-> "none", status |-> Absent, history |-> {}]
Passport == [product : Product, status : Status \cup {Absent}, history : SUBSET Event]

PassportsTypeOK ==
  /\ WritesTypeOK
  /\ began \in [Tx -> Nat]
  /\ reading \in [Reader -> {"idle", "product", "history", "shown", "not_found"}]
  /\ passport \in [Reader -> Passport \cup {NoPassport}]
  /\ earlier \in [Reader -> SUBSET Reader]

PassportsInit ==
  /\ WritesInit
  /\ began = [t \in Tx |-> 0]
  /\ reading = [r \in Reader |-> "idle"]
  /\ passport = [r \in Reader |-> NoPassport]
  /\ earlier = [r \in Reader |-> {}]

-----------------------------------------------------------------------------
\* Time passes between two transactions, or too little of it to be counted.
Now == {n \in 1 .. Cardinality(Tx) :
          \A t \in Tx : began[t] <= n /\ \E u \in Tx : n <= began[u] + 1}

Begins(t) == At(t, "idle") /\ step'[t] # "idle"

Write ==
  /\ WritesNext
  /\ \E n \in Now : began' = [t \in Tx |-> IF Begins(t) THEN n ELSE began[t]]
  /\ UNCHANGED readerVars

Answered == {r \in Reader : reading[r] \in {"shown", "not_found"}}

\* A mutant: the history is read before the row it belongs to.
HistoryFirst == "history"

FirstQuery == "product"

After(query) ==
  IF query # FirstQuery THEN "shown"
  ELSE IF query = "product" THEN "history" ELSE "product"

Ask(r, p) ==
  /\ reading[r] = "idle"
  /\ reading' = [reading EXCEPT ![r] = FirstQuery]
  /\ passport' = [passport EXCEPT ![r] = [NoPassport EXCEPT !.product = p]]
  /\ earlier' = [earlier EXCEPT ![r] = Answered]
  /\ UNCHANGED <<vars, began>>

\* findProductByTrustPassId: a query outside a transaction sees what is
\* committed. A draft is answered as if there were none.
ReadProduct(r) ==
  LET p == passport[r].product
  IN /\ reading[r] = "product"
     /\ passport' = [passport EXCEPT ![r].status = status[p]]
     /\ reading' = [reading EXCEPT ![r] =
          IF status[p] \in {Absent, "draft"} THEN "not_found" ELSE After("product")]
     /\ UNCHANGED <<vars, began, earlier>>

\* findHistoryByTrustPassId.
ReadHistory(r) ==
  /\ reading[r] = "history"
  /\ passport' = [passport EXCEPT
       ![r].history = {e \in history : e.product = passport[r].product}]
  /\ reading' = [reading EXCEPT ![r] = After("history")]
  /\ UNCHANGED <<vars, began, earlier>>

Read ==
  \E r \in Reader :
    \/ \E p \in Product : Ask(r, p)
    \/ ReadProduct(r) \/ ReadHistory(r)

PassportsNext == Write \/ Read

PassportsSpec == PassportsInit /\ [][PassportsNext]_passportVars

-----------------------------------------------------------------------------
(***************************************************************************)
(* Properties.                                                             *)
(***************************************************************************)
Shown == {r \in Reader : reading[r] = "shown"}

\* The status a passport shows is never ahead of the history under it: an event
\* shown moved the product there, or the product was born there and its origin
\* is shown. The two queries share no transaction; it is their order that keeps
\* a suspension from being shown without its report.
StatusIsAccountedFor ==
  \A r \in Shown :
    \E e \in passport[r].history :
      \/ e.to = passport[r].status
      \/ e.from = NoState /\ BornAs(passport[r].product, passport[r].status)

\* Two strangers are told one story. A passport once shown is found by whoever
\* asks after it was answered, with everything it showed, and an object that was
\* shown as retired stays retired (drizzle/0002, 0005; a draft is never gone
\* back to).
PassportsAgree ==
  \A r \in Reader : \A s \in earlier[r] \cap Shown :
    (passport[r].product = passport[s].product /\ r \in Answered) =>
      /\ r \in Shown
      /\ passport[s].history \subseteq passport[r].history
      /\ passport[s].status = "retired" => passport[r].status = "retired"

\* The order of the page: newest first by occurred_at, then by id.
ShownBefore(e, f) ==
  began[e.xact] > began[f.xact] \/ (began[e.xact] = began[f.xact] /\ e.id > f.id)

\* "Everything recorded about a product, newest first ... Ordered by when things
\* happened" (lifecycle-event-repository.ts:31-37): two moves next to each other
\* on the page meet, the older one ending where the newer one began.
HistoryReadsAsItHappened ==
  \A r \in Shown :
    LET moves == {e \in passport[r].history : e.from # NoState}
    IN \A e, f \in moves :
         (ShownBefore(e, f)
            /\ ~\E g \in moves : ShownBefore(e, g) /\ ShownBefore(g, f))
         => e.from = f.to

=============================================================================
