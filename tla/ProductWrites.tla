---------------------------- MODULE ProductWrites ----------------------------
(***************************************************************************)
(* The three repository functions that write products, as the sequences of *)
(* statements they run against Registry:                                   *)
(*   insertProduct        authorise, INSERT product, INSERT event, COMMIT  *)
(*   enrolProduct                    INSERT product, INSERT event, COMMIT  *)
(*   changeProductStatus  SELECT FOR UPDATE, UPDATE, INSERT event, COMMIT  *)
(* Each call runs in a transaction of its own. Between any two statements  *)
(* every other call may run; a connection may be lost at any of them, the  *)
(* COMMIT included, whose outcome the caller then does not learn.          *)
(*                                                                         *)
(* Whether `authorise` finds a grant is left open here.                    *)
(***************************************************************************)
EXTENDS Registry, FiniteSets

CONSTANT Calls   \* bound: the calls the callers of this instance may make

Call == [fn : {"insertProduct", "enrolProduct", "changeProductStatus"},
         product : Product, to : Status, actor : ActorKind]

\* insertProduct records as an issuer and enrolProduct as a holder, registered;
\* changeProductStatus is typed to leave out active and draft.
ASSUME CallsAssumption ==
  /\ Calls \subseteq Call
  /\ \A c \in Calls :
       /\ c.fn = "insertProduct" => c.actor = "issuer" /\ c.to \in {"draft", "registered"}
       /\ c.fn = "enrolProduct" => c.actor = "holder" /\ c.to = "registered"
       /\ c.fn = "changeProductStatus" => c.to \in ChangeableStatus

VARIABLES
  call,    \* what was asked of the transaction's function
  step,    \* the statement it runs next
  seen,    \* current.status, read under FOR UPDATE
  answer   \* what the caller is told, or will be once the commit returns

programVars == <<call, step, seen, answer>>
vars == <<registryVars, programVars>>

NoCall == [fn |-> "none"]
Answer == [is : {"none", "ok", "unchanged", "not_found", "unauthorised_actor",
                 "illegal_transition", "duplicate_live_serial", "not_authorised", "error"},
           from : Status \cup {NoState}]

Says(kind) == [is |-> kind, from |-> NoState]
Refusals == {"unchanged", "not_found", "unauthorised_actor", "illegal_transition",
             "duplicate_live_serial", "not_authorised"}

WritesTypeOK ==
  /\ RegistryTypeOK
  /\ call \in [Tx -> Calls \cup {NoCall}]
  /\ step \in [Tx -> {"idle", "authorise", "insert", "select", "update", "event",
                      "commit", "reread", "done"}]
  /\ seen \in [Tx -> Status \cup {NoState}]
  /\ answer \in [Tx -> Answer]

WritesInit ==
  /\ RegistryInit
  /\ call = [t \in Tx |-> NoCall]
  /\ step = [t \in Tx |-> "idle"]
  /\ seen = [t \in Tx |-> NoState]
  /\ answer = [t \in Tx |-> Says("none")]

-----------------------------------------------------------------------------
At(t, s) == step[t] = s
Inserts(c) == c.fn \in {"insertProduct", "enrolProduct"}

Goes(t, s) == step' = [step EXCEPT ![t] = s]
Answers(t, a) == answer' = [answer EXCEPT ![t] = a]

\* A call arrives. The identity sequence gives every insert a key of its own.
Begin(t, c) ==
  /\ At(t, "idle")
  /\ Inserts(c) =>
       ~\E u \in Tx : Inserts(call[u]) /\ call[u].product = c.product
  /\ call' = [call EXCEPT ![t] = c]
  /\ Goes(t, CASE c.fn = "insertProduct" -> "authorise"
               [] c.fn = "enrolProduct" -> "insert"
               [] c.fn = "changeProductStatus" -> "select")
  /\ UNCHANGED <<registryVars, seen, answer>>

\* insertProduct's callback names a grant.
Authorised(t) ==
  /\ At(t, "authorise")
  /\ Goes(t, "insert")
  /\ UNCHANGED <<registryVars, call, seen, answer>>

\* It names none: NotAuthorised is thrown before anything is written.
NotAuthorised(t) ==
  /\ At(t, "authorise")
  /\ Rollback(t)
  /\ Goes(t, "done")
  /\ Answers(t, Says("not_authorised"))
  /\ UNCHANGED <<call, seen>>

Insert(t) ==
  /\ At(t, "insert")
  /\ InsertProduct(t, call[t].product, call[t].to)
  /\ Goes(t, "event")
  /\ UNCHANGED <<call, seen, answer>>

\* The live-serial index refuses the row, once it knows that it must.
DuplicateSerial(t) ==
  /\ At(t, "insert")
  /\ LiveRival(t, call[t].product)
  /\ ~RivalInDoubt(t, call[t].product)
  /\ Rollback(t)
  /\ Goes(t, "done")
  /\ Answers(t, Says("duplicate_live_serial"))
  /\ UNCHANGED <<call, seen>>

\* A mutant: the row is read without FOR UPDATE.
ReadRow(t, p) == View(t, p) # Absent /\ UNCHANGED registryVars

SelectRow(t, p) == LockProduct(t, p)

Unmoved(current, to) == current = to

\* A mutant: what a move is and who may make it are read from its destination.
DecidedByDestination(actor, current, to) ==
  LET type == CASE to = "retired"   -> "product_retired"
                [] to = "suspended" -> "product_suspended"
                [] OTHER            -> "product_registered"
  IN [type |-> type, may |-> mayRecord(actor, type)]

\* The type of event a move is, and whether this actor may make it.
Decided(actor, current, to) ==
  LET type == eventFor(current, to)
  IN [type |-> type, may |-> mayRecord(actor, type) /\ mayRetireFrom(actor, current)]

MayMove(actor, current, to) == Decided(actor, current, to).may

\* SELECT ... FOR UPDATE, and what changeProductStatus decides from the row.
Select(t) ==
  /\ At(t, "select")
  /\ SelectRow(t, call[t].product)
  /\ LET c == call[t]
         current == View(t, c.product)
     IN /\ seen' = [seen EXCEPT ![t] = current]
        /\ \/ /\ Unmoved(current, c.to)
              /\ Answers(t, Says("unchanged")) /\ Goes(t, "commit")
           \/ /\ ~Unmoved(current, c.to) /\ ~MayMove(c.actor, current, c.to)
              /\ Answers(t, Says("unauthorised_actor")) /\ Goes(t, "commit")
           \/ /\ ~Unmoved(current, c.to) /\ MayMove(c.actor, current, c.to)
              /\ UNCHANGED answer /\ Goes(t, "update")
  /\ UNCHANGED call

SelectNothing(t) ==
  /\ At(t, "select")
  /\ View(t, call[t].product) = Absent
  /\ Goes(t, "commit")
  /\ Answers(t, Says("not_found"))
  /\ UNCHANGED <<registryVars, call, seen>>

Update(t) ==
  /\ At(t, "update")
  /\ UpdateStatus(t, call[t].product, call[t].to)
  /\ Goes(t, "event")
  /\ UNCHANGED <<call, seen, answer>>

\* A mutant: TP001 is caught inside the transaction, which stays open.
CaughtInside(t) == UNCHANGED registryVars

\* TP001 reaches the catch outside db.transaction, which has rolled back.
CaughtOutside(t) == Rollback(t)

UpdateRefused(t) ==
  /\ At(t, "update")
  /\ ~GuardAllowsMove(View(t, call[t].product), call[t].to)
  /\ CaughtOutside(t)
  /\ Goes(t, "reread")
  /\ UNCHANGED <<call, seen, answer>>

\* row?.status ?? "draft"
StatusOrDraft(p) == IF status[p] = Absent THEN "draft" ELSE status[p]

\* The catch reads the status again, on its own, to say what was refused.
Reread(t) ==
  /\ At(t, "reread")
  /\ Goes(t, "done")
  /\ Answers(t, [is |-> "illegal_transition", from |-> StatusOrDraft(call[t].product)])
  /\ UNCHANGED <<registryVars, call, seen>>

\* The event each function writes.
ClaimOf(t) ==
  LET c == call[t]
  IN IF Inserts(c)
     THEN [type |-> IF c.fn = "insertProduct" /\ c.to = "registered"
                    THEN "product_registered" ELSE "record_enrolled",
           actor |-> c.actor, from |-> NoState, to |-> NoState]
     ELSE [type |-> Decided(c.actor, seen[t], c.to).type, actor |-> c.actor,
           from |-> seen[t], to |-> c.to]

Record(t) ==
  /\ At(t, "event")
  /\ RecordEvent(t, call[t].product, ClaimOf(t))
  /\ Goes(t, "commit")
  /\ Answers(t, Says("ok"))
  /\ UNCHANGED <<call, seen>>

\* COMMIT returns, and the caller is told what was prepared.
Finish(t) ==
  /\ At(t, "commit")
  /\ Commit(t)
  /\ Goes(t, "done")
  /\ UNCHANGED <<call, seen, answer>>

\* A mutant: the answer prepared inside the transaction survives its failure.
AnswerPrepared(t) == answer[t]

FailureAnswer(t) == Says("error")

\* COMMIT succeeds and its acknowledgement is lost.
FinishUnheard(t) ==
  /\ At(t, "commit")
  /\ Commit(t)
  /\ Goes(t, "done")
  /\ Answers(t, Says("error"))
  /\ UNCHANGED <<call, seen>>

\* Any other exception: a lost connection, a refused event, a failed check.
Fail(t) ==
  /\ step[t] \notin {"idle", "reread", "done"}
  /\ Rollback(t)
  /\ Goes(t, "done")
  /\ Answers(t, FailureAnswer(t))
  /\ UNCHANGED <<call, seen>>

RereadFails(t) ==
  /\ At(t, "reread")
  /\ Goes(t, "done")
  /\ Answers(t, Says("error"))
  /\ UNCHANGED <<registryVars, call, seen>>

\* What a function does next, when the database and its connection answer.
Proceed(t) ==
  \/ Authorised(t) \/ NotAuthorised(t)
  \/ Insert(t) \/ DuplicateSerial(t)
  \/ Select(t) \/ SelectNothing(t)
  \/ Update(t) \/ UpdateRefused(t) \/ Reread(t)
  \/ Record(t) \/ Finish(t)

WritesNext ==
  \E t \in Tx :
    \/ \E c \in Calls : Begin(t, c)
    \/ Proceed(t)
    \/ FinishUnheard(t) \/ Fail(t) \/ RereadFails(t)

WritesSpec == WritesInit /\ [][WritesNext]_vars

\* A function that can take its next statement eventually takes it: the event
\* loop runs every promise and Postgres wakes every waiter. Nobody has to call.
FairWritesSpec == WritesSpec /\ \A t \in Tx : WF_vars(Proceed(t))

-----------------------------------------------------------------------------
(***************************************************************************)
(* What the repositories promise.                                          *)
(***************************************************************************)

Moves(p) == {e \in history : e.product = p /\ e.from # NoState}

BornAs(p, s) ==
  \E t \in Tx : phase[t] = "committed" /\
    \E f \in fired[t] : f.op = "insert" /\ f.product = p /\ f.new = s

\* A product's history is the path it took: its transition events, read in the
\* order their ids were drawn, lead unbroken from the status it was born with to
\* the status it has (product-status-repository.ts:115-118).
HistoryExplainsStatus ==
  \A p \in Product : status[p] # Absent =>
    /\ Unbroken(Moves(p))
    /\ IF Moves(p) = {} THEN BornAs(p, status[p]) ELSE EndsAt(Moves(p), status[p])
    /\ \A e \in Moves(p) : (\A f \in Moves(p) : e.id <= f.id) => BornAs(p, e.from)

\* The rules read early are the rules enforced late: once a function has decided
\* to write, no trigger refuses the event or the commit. The decision was taken
\* on a row that can no longer change (product-status-repository.ts:115-118,
\* 139-144).
NeverRefusedLate ==
  \A t \in Tx :
    /\ At(t, "event") =>
         GuardAllowsRecording(ClaimOf(t).actor, ClaimOf(t).type, ClaimOf(t).from)
    /\ At(t, "commit") => ChecksPass(t)

\* An answer is true of the database: `ok` means one committed event of this
\* call's own, a refusal means the call left nothing behind. Only an error leaves
\* the caller not knowing.
AnswersAreTrue ==
  \A t \in Tx : At(t, "done") =>
    /\ answer[t].is = "ok" =>
         /\ phase[t] = "committed"
         /\ Cardinality({e \in history : e.xact = t}) = 1
         /\ fired[t] # {}
    /\ answer[t].is \in Refusals =>
         /\ {e \in history : e.xact = t} = {}
         /\ fired[t] = {}

\* Every call that arrives is answered, whatever it has to wait for.
EveryCallIsAnswered ==
  \A t \in Tx : (~At(t, "idle")) ~> At(t, "done")

\* The answer `illegal_transition` names a move the rules refuse: "keeps one
\* answer to that question instead of two that can drift apart"
\* (product-status-repository.ts:171-173).
IllegalAnswersAreIllegal ==
  \A t \in Tx : (At(t, "done") /\ answer[t].is = "illegal_transition") =>
    ~GuardAllowsMove(answer[t].from, call[t].to)

-----------------------------------------------------------------------------
(***************************************************************************)
(* The ledger these functions keep: what is committed, and each product's  *)
(* moves in the order of their ids.                                        *)
(***************************************************************************)
Numbered(moves, i) ==
  {e \in moves : Cardinality({f \in moves : f.id <= e.id}) = i}

TrailOf(moves) ==
  [i \in 1 .. Cardinality(moves) |->
     LET e == CHOOSE e \in Numbered(moves, i) : TRUE
     IN [from |-> e.from, to |-> e.to, actor |-> e.actor]]

Ledger == INSTANCE ProductLedger
  WITH standing <- status, trail <- [p \in Product |-> TrailOf(Moves(p))]

\* The repositories implement the ledger: each commit enters one product or
\* makes one move, under the rules and with the trail written at that moment, and
\* no other step shows (drizzle/0010, 0014).
ImplementsLedger == Ledger!LedgerSpec

=============================================================================
