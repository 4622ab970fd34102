--------------------------- MODULE IssuerMigration ---------------------------
(***************************************************************************)
(* One party, one record. Four migrations make every issuer an             *)
(* organization, keep the two in step, move the constraints and drop the   *)
(* issuer (drizzle/0020 - 0023), while writers of either table go on.      *)
(*                                                                         *)
(* The migrations a deployment finds pending run in one transaction,       *)
(* statement by statement, with the table locks their DDL takes; a         *)
(* statement sees what is committed and what its own transaction wrote     *)
(* (READ COMMITTED).                                                       *)
(*                                                                         *)
(* A party is a registry identity, a country and a registration number,    *)
(* and no row is given another one here: of an issuer 0021 refuses it      *)
(* (:68-77), and of an organization, or before 0021, nothing does.         *)
(***************************************************************************)
EXTENDS Naturals, Sequences, FiniteSets

CONSTANTS
  Party,      \* registry identities
  Standing,   \* verification_status; company_name and legal_name go with it
  Default,    \* unverified, the column's default
  Product,    \* product rows
  Event,      \* lifecycle_event rows
  Writer,     \* connections of the servers and the operators, a transaction at a time
  Ops,        \* bound: what the writers of this instance do
  NoParty,    \* NULL
  Absent      \* no such row

Row == Product \cup Event

\* What a transaction does: an issuer or an organization is entered or changes, or a
\* product is recorded with its event. Old code names the party of a record in
\* issuer_id, new code in organization_id; a holder's names nobody.
Op ==
  [op : {"insert_issuer", "update_issuer", "insert_organization", "update_organization"},
   party : Party, standing : Standing]
  \cup [op : {"record"}, product : Product, event : Event,
        party : Party \cup {NoParty}, by : {"issuer", "organization"}]

\* A row keeps, beside its two columns, the party its writer wrote it for.
RowType == [party : Party \cup {NoParty}, issuer : Party \cup {NoParty},
            organization : Party \cup {NoParty}]

Migrator == "migrator"

ASSUME MigrationAssumption ==
  /\ NoParty \notin Party
  /\ Default \in Standing /\ Absent \notin Standing \cup RowType
  /\ Ops \subseteq Op
  /\ Migrator \notin Writer

VARIABLES
  db,      \* what is committed
  stage,   \* how many of 0020 .. 0023 are committed
  ran,     \* how many more the migrator's transaction has behind it
  mine,    \* what each transaction has written and not committed
  held,    \* the table locks it holds
  doing,   \* what each writer does
  step     \* each writer's next statement; the migrator's, by number

vars == <<db, stage, ran, mine, held, doing, step>>

Tx == Writer \cup {Migrator}
Table == {"issuer", "organization", "product", "lifecycle_event"}
Mode == {"access_share", "row_exclusive", "share_row_exclusive", "access_exclusive"}

\* `ahead` marks an organization that has the last word on its own standing: changed
\* by itself, or there before its issuer, and the issuer not changed since. `guard`
\* is lifecycle_event_no_update.
Nothing == [issuer |-> <<>>, organization |-> <<>>, row |-> <<>>,
            ahead |-> <<>>, guard |-> <<>>]
Guard == {"lifecycle_event_no_update"}
Idle == [op |-> "nothing"]

AtRest(t) == IF t = Migrator THEN step[t] = 0 ELSE step[t] = "idle"

\* The types, and that a transaction that is over leaves no lock and no write.
MigrationTypeOK ==
  /\ db.issuer \in [Party -> Standing \cup {Absent}]
  /\ db.organization \in [Party -> Standing \cup {Absent}]
  /\ \A r \in Row : db.row[r] = Absent \/ db.row[r] \in RowType
  /\ db.ahead \in [Party -> BOOLEAN]
  /\ db.guard \in [Guard -> BOOLEAN]
  /\ stage \in 0 .. 4 /\ ran \in 0 .. 3 /\ stage + ran <= 4
  /\ held \in [Tx -> SUBSET (Table \X Mode)]
  /\ \A w \in Writer : step[w] \in {"idle", "first", "second", "commit"}
  /\ step[Migrator] \in 0 .. 12
  /\ \A t \in Tx : AtRest(t) => mine[t] = Nothing /\ held[t] = {}
  /\ AtRest(Migrator) => ran = 0

\* Before 0020: products name issuers, and some organizations exist on their own,
\* without a standing until 0020 adds the column.
MigrationInit ==
  /\ \E standings \in [Party -> Standing \cup {Absent}],
        organizations \in [Party -> {Default, Absent}] :
       db = [issuer |-> standings, organization |-> organizations,
             row |-> [r \in Row |-> Absent],
             ahead |-> [p \in Party |-> FALSE], guard |-> [g \in Guard |-> TRUE]]
  /\ stage = 0 /\ ran = 0
  /\ mine = [t \in Tx |-> Nothing]
  /\ held = [t \in Tx |-> {}]
  /\ doing = [w \in Writer |-> Idle]
  /\ step = [t \in Tx |-> IF t = Migrator THEN 0 ELSE "idle"]

-----------------------------------------------------------------------------
(***************************************************************************)
(* The database.                                                           *)
(***************************************************************************)
\* f, and g where f says nothing.
Onto(f, g) == [x \in DOMAIN f \cup DOMAIN g |-> IF x \in DOMAIN f THEN f[x] ELSE g[x]]

View(t) == [f \in DOMAIN db |-> Onto(mine[t][f], db[f])]

Conflict(m, n) ==
  \/ "access_exclusive" \in {m, n}
  \/ "share_row_exclusive" \in {m, n} /\ {m, n} # {"share_row_exclusive", "access_share"}

\* Whether t has, or is given, these locks: <<table, mode>> pairs.
Lock(t, locks) ==
  /\ \A u \in Tx \ {t} : \A h \in held[u], l \in locks : l[1] = h[1] => ~Conflict(l[2], h[2])
  /\ held' = [held EXCEPT ![t] = @ \cup locks]

\* Another transaction has written this row and may still commit it.
InDoubt(t, table, key) == \E u \in Tx \ {t} : key \in DOMAIN mine[u][table]

Put(t, table, f) == mine' = [mine EXCEPT ![t][table] = Onto(f, @)]

CommitOf(t) ==
  /\ db' = View(t)
  /\ mine' = [mine EXCEPT ![t] = Nothing]
  /\ held' = [held EXCEPT ![t] = {}]

RollbackOf(t) ==
  /\ mine' = [mine EXCEPT ![t] = Nothing]
  /\ held' = [held EXCEPT ![t] = {}]
  /\ UNCHANGED db

Goes(t, s) == step' = [step EXCEPT ![t] = s]

IssuerHere == stage < 4          \* 0023 drops the table and the columns
InStep == stage \in {2, 3}       \* 0021's triggers are there

-----------------------------------------------------------------------------
(***************************************************************************)
(* Writers, and the triggers of 0021 that fire in their statements.        *)
(***************************************************************************)
\* A record is a new product and its first event: identity columns never repeat.
Begin(w, o) ==
  /\ step[w] = "idle"
  /\ o.op = "record" => \A r \in {o.product, o.event} :
       db.row[r] = Absent /\ \A u \in Writer : doing[u].op = "record" => r \notin {doing[u].product, doing[u].event}
  /\ doing' = [doing EXCEPT ![w] = o]
  /\ Goes(w, "first")
  /\ UNCHANGED <<db, stage, ran, mine, held>>

Standings(p, s) == [q \in {p} |-> s]
Mark(p, b) == [q \in {p} |-> b]

\* issuer_has_an_organization, AFTER INSERT ON issuer: matched, never duplicated.
\* An organization in doubt makes the trigger's INSERT wait for the index, and
\* fail if it is committed: Fail, or a statement that starts later and finds it.
InsertIssuer(w) ==
  LET p == doing[w].party
      row == Standings(p, doing[w].standing)
      found == View(w).organization[p] # Absent
  IN /\ step[w] = "first" /\ doing[w].op = "insert_issuer"
     /\ IssuerHere /\ View(w).issuer[p] = Absent /\ ~InDoubt(w, "issuer", p)
     /\ InStep => ~InDoubt(w, "organization", p)
     /\ Lock(w, {<<"issuer", "row_exclusive">>}
                \cup IF InStep THEN {<<"organization", "row_exclusive">>} ELSE {})
     /\ mine' = [mine EXCEPT ![w] =
          [@ EXCEPT !.issuer = row,
                    !.ahead = Mark(p, InStep /\ found),
                    !.organization = IF InStep /\ ~found THEN row ELSE <<>>]]
     /\ Goes(w, "commit")
  /\ UNCHANGED <<db, stage, ran, doing>>

InsertOrganization(w) ==
  LET p == doing[w].party
  IN /\ step[w] = "first" /\ doing[w].op = "insert_organization"
     /\ View(w).organization[p] = Absent /\ ~InDoubt(w, "organization", p)
     /\ Lock(w, {<<"organization", "row_exclusive">>})
     /\ Put(w, "organization", Standings(p, Default))
     /\ Goes(w, "commit")
  /\ UNCHANGED <<db, stage, ran, doing>>

\* The status column comes with 0020, and no trigger of 0021 is on organization.
UpdateOrganization(w) ==
  LET p == doing[w].party
  IN /\ step[w] = "first" /\ doing[w].op = "update_organization"
     /\ stage >= 1 /\ View(w).organization[p] # Absent /\ ~InDoubt(w, "organization", p)
     /\ Lock(w, {<<"organization", "row_exclusive">>})
     /\ mine' = [mine EXCEPT ![w] =
          [@ EXCEPT !.organization = Standings(p, doing[w].standing), !.ahead = Mark(p, TRUE)]]
     /\ Goes(w, "commit")
  /\ UNCHANGED <<db, stage, ran, doing>>

\* A mutant: the first version of 0021, which kept the two in step on INSERT only.
InsertOnly(p, s) == [organization |-> <<>>, ahead |-> <<>>]

\* issuer_changes_reach_its_organization, AFTER UPDATE ON issuer.
ChangesReach(p, s) == [organization |-> Standings(p, s), ahead |-> Mark(p, FALSE)]

UpdateIssuer(w) ==
  LET p == doing[w].party
      reached == IF InStep /\ View(w).organization[p] # Absent
                 THEN ChangesReach(p, doing[w].standing)
                 ELSE [organization |-> <<>>, ahead |-> <<>>]
  IN /\ step[w] = "first" /\ doing[w].op = "update_issuer"
     /\ IssuerHere /\ View(w).issuer[p] # Absent /\ ~InDoubt(w, "issuer", p)
     /\ InStep => ~InDoubt(w, "organization", p)
     /\ Lock(w, {<<"issuer", "row_exclusive">>}
                \cup IF InStep THEN {<<"organization", "row_exclusive">>} ELSE {})
     /\ mine' = [mine EXCEPT ![w] =
          [@ EXCEPT !.issuer = Standings(p, doing[w].standing),
                    !.organization = reached.organization, !.ahead = reached.ahead]]
     /\ Goes(w, "commit")
  /\ UNCHANGED <<db, stage, ran, doing>>

\* What a writer puts in the two columns of a row; a holder's name nobody.
Written(o) ==
  [party |-> o.party,
   issuer |-> IF o.by = "issuer" THEN o.party ELSE NoParty,
   organization |-> IF o.by = "organization" THEN o.party ELSE NoParty]

\* resolve_organization_from_issuer, BEFORE INSERT ON product, lifecycle_event:
\* it fills the new column from the old one, and never overwrites it.
Resolved(w, row) ==
  IF InStep /\ row.issuer # NoParty /\ row.organization = NoParty
     /\ View(w).organization[row.issuer] # Absent
  THEN [row EXCEPT !.organization = row.issuer] ELSE row

\* product_holder_has_no_issuer, lifecycle_event_issuer_matches_actor and the
\* foreign keys; 0022 asks the same of organization_id.
Accepted(w, row) ==
  /\ row.issuer # NoParty => IssuerHere /\ View(w).issuer[row.issuer] # Absent
  /\ row.organization # NoParty => stage >= 1 /\ View(w).organization[row.organization] # Absent
  /\ (row.party = NoParty) = ((IF stage < 3 THEN row.issuer ELSE row.organization) = NoParty)

\* insertProduct and enrolProduct: a product, then its event.
RecordRow(w, from, to, r, table) ==
  LET row == Resolved(w, Written(doing[w]))
  IN /\ step[w] = from /\ doing[w].op = "record"
     /\ Accepted(w, row)
     /\ Lock(w, {<<table, "row_exclusive">>, <<"organization", "access_share">>}
                \cup IF IssuerHere THEN {<<"issuer", "access_share">>} ELSE {})
     /\ Put(w, "row", [q \in {r} |-> row])
     /\ Goes(w, to)
  /\ UNCHANGED <<db, stage, ran, doing>>

RecordProduct(w) == RecordRow(w, "first", "second", doing[w].product, "product")
RecordEvent(w) == RecordRow(w, "second", "commit", doing[w].event, "lifecycle_event")

Ends(w) == Goes(w, "idle") /\ doing' = [doing EXCEPT ![w] = Idle]

Finish(w) ==
  /\ step[w] = "commit"
  /\ CommitOf(w)
  /\ Ends(w)
  /\ UNCHANGED <<stage, ran>>

\* A refused statement, a deadlock's victim, a lost connection.
Fail(w) ==
  /\ step[w] \in {"first", "second", "commit"}
  /\ RollbackOf(w)
  /\ Ends(w)
  /\ UNCHANGED <<stage, ran>>

Write(w) ==
  \/ \E o \in Ops : Begin(w, o)
  \/ InsertIssuer(w) \/ InsertOrganization(w) \/ UpdateIssuer(w) \/ UpdateOrganization(w)
  \/ RecordProduct(w) \/ RecordEvent(w)
  \/ Finish(w) \/ Fail(w)

-----------------------------------------------------------------------------
(***************************************************************************)
(* The migrations.                                                         *)
(***************************************************************************)
Locks(table, mode) == [do |-> "lock", locks |-> {<<table, mode>>}]
Reads(tables) == [do |-> "lock", locks |-> tables \X {"access_share"}]
Moves(table, rows) == [do |-> "move", table |-> table, rows |-> rows]
Does(what) == [do |-> what]

MoveProducts == Moves("product", Product)
MoveEvents == Moves("lifecycle_event", Event)

\* 0020.
OnePartyOneRecord ==
  <<Reads({"issuer"}),
    Locks("organization", "access_exclusive"),
    Locks("lifecycle_event", "access_exclusive"),
    Locks("product", "access_exclusive"),
    Does("insert_organizations"),
    MoveProducts, Does("guard_off"), MoveEvents, Does("guard_on"), Does("verify")>>

\* 0021.
TheTwoStayInStep ==
  <<Locks("issuer", "share_row_exclusive"),
    Locks("product", "share_row_exclusive"),
    Locks("lifecycle_event", "share_row_exclusive"),
    Does("insert_organizations"), Does("reconcile"),
    MoveProducts, Does("guard_off"), MoveEvents, Does("guard_on"), Does("verify")>>

\* 0022.
ConstraintsFollow ==
  <<Locks("lifecycle_event", "access_exclusive"),
    Locks("product", "access_exclusive"),
    Does("constrain")>>

\* 0023.
OneIdentityRemains ==
  <<Reads(Table), Does("verify"),
    Locks("issuer", "access_exclusive"),
    Locks("product", "access_exclusive"),
    Locks("lifecycle_event", "access_exclusive"),
    Does("drop"), Does("verify_guard")>>

\* The migration that runs, or would run next: 0 for 0020.
Current == stage + ran

Migration ==
  CASE Current = 0 -> OnePartyOneRecord
    [] Current = 1 -> TheTwoStayInStep
    [] Current = 2 -> ConstraintsFollow
    [] OTHER       -> OneIdentityRemains

Here == View(Migrator)

Unmatched(d) == {p \in Party : d.issuer[p] # Absent /\ d.organization[p] = Absent}
Unmoved(d) == {r \in Row : d.row[r] # Absent /\ d.row[r].issuer # NoParty
                           /\ d.row[r].organization = NoParty}
Disagreeing(d) == {p \in Party : d.issuer[p] # Absent /\ d.organization[p] # Absent
                                 /\ d.organization[p] # d.issuer[p]}
Guarded(d) == \A g \in Guard : d.guard[g]

\* The postconditions of 0020 and 0021, and the preconditions of 0023.
Verified(d) ==
  /\ Unmatched(d) = {} /\ Unmoved(d) = {}
  /\ Current < 3 => Guarded(d)
  /\ Current = 1 => Disagreeing(d) = {}

At(what) ==
  /\ Current < 4
  /\ step[Migrator] \in DOMAIN Migration
  /\ Migration[step[Migrator]].do = what

NextStatement ==
  /\ Goes(Migrator, step[Migrator] + 1)
  /\ UNCHANGED <<db, stage, ran, doing>>

StartMigration ==
  /\ stage < 4 /\ step[Migrator] = 0
  /\ NextStatement
  /\ UNCHANGED <<mine, held>>

LockTables ==
  /\ At("lock")
  /\ Lock(Migrator, Migration[step[Migrator]].locks)
  /\ NextStatement
  /\ UNCHANGED mine

\* Matched by registry identity: only what is missing is created.
InsertOrganizations ==
  /\ At("insert_organizations")
  /\ \A p \in Unmatched(Here) : ~InDoubt(Migrator, "organization", p)
  /\ Lock(Migrator, {<<"issuer", "access_share">>, <<"organization", "row_exclusive">>})
  /\ Put(Migrator, "organization", [p \in Unmatched(Here) |-> Here.issuer[p]])
  /\ NextStatement

\* The issuer's word goes; a row in doubt is waited for, and looked at again.
Reconcile ==
  LET gone == Disagreeing(Here)
      m == mine[Migrator]
  IN /\ At("reconcile")
     /\ \A p \in gone : ~InDoubt(Migrator, "organization", p)
     /\ mine' = [mine EXCEPT ![Migrator] =
          [m EXCEPT !.organization = Onto([p \in gone |-> Here.issuer[p]], m.organization),
                    !.ahead = Onto([p \in gone |-> FALSE], m.ahead)]]
     /\ NextStatement
     /\ UNCHANGED held

\* A mutant: the join asks for the country alone, where another is registered too.
SameCountry(p) ==
  IF \E q \in Party \ {p} : Here.organization[q] # Absent
  THEN CHOOSE q \in Party \ {p} : Here.organization[q] # Absent ELSE p

SameIdentity(p) == p

\* The UPDATE that gives rows the organization of their issuer. The append-only
\* guard refuses it on history.
Move ==
  LET rows == {r \in Unmoved(Here) \cap Migration[step[Migrator]].rows :
                 Here.organization[Here.row[r].issuer] # Absent}
  IN /\ At("move")
     /\ Migration[step[Migrator]].table = "lifecycle_event" => rows = {} \/ ~Guarded(Here)
     /\ Put(Migrator, "row",
          [r \in rows |-> [Here.row[r] EXCEPT !.organization = SameIdentity(Here.row[r].issuer)]])
     /\ NextStatement
     /\ UNCHANGED held

SetGuard(what, on) ==
  /\ At(what)
  /\ Lock(Migrator, {<<"lifecycle_event", "share_row_exclusive">>})
  /\ Put(Migrator, "guard", [g \in Guard |-> on])
  /\ NextStatement

Verify ==
  /\ \/ At("verify") /\ Verified(Here)
     \/ At("verify_guard") /\ Guarded(Here)
  /\ NextStatement
  /\ UNCHANGED <<mine, held>>

\* 0022: the new checks are asked of every row there is.
Constrain ==
  /\ At("constrain")
  /\ \A r \in Row : Here.row[r] # Absent =>
       (Here.row[r].party = NoParty) = (Here.row[r].organization = NoParty)
  /\ NextStatement
  /\ UNCHANGED <<mine, held>>

\* 0023 drops the triggers, the functions, the columns and the table, by name.
Drop ==
  /\ At("drop")
  /\ mine' = [mine EXCEPT ![Migrator] =
       [@ EXCEPT !.issuer = [p \in Party |-> Absent],
                 !.ahead = [p \in Party |-> FALSE],
                 !.row = [r \in {q \in Row : Here.row[q] # Absent} |->
                            [Here.row[r] EXCEPT !.issuer = NoParty]]]]
  /\ NextStatement
  /\ UNCHANGED held

\* The next pending migration, in the same transaction.
GoOn ==
  /\ Current < 3 /\ step[Migrator] = Len(Migration) + 1
  /\ ran' = ran + 1
  /\ Goes(Migrator, 1)
  /\ UNCHANGED <<db, stage, mine, held, doing>>

\* None is left of those this deployment came with.
FinishMigration ==
  /\ Current < 4 /\ step[Migrator] = Len(Migration) + 1
  /\ CommitOf(Migrator)
  /\ stage' = Current + 1 /\ ran' = 0
  /\ Goes(Migrator, 0)
  /\ UNCHANGED doing

\* A mutant: the transaction of a failed migration is left open.
LeftOpen == UNCHANGED <<db, mine, held>>

\* A mutant: the statements that ran stay, as in a database whose DDL commits.
StatementsStay == CommitOf(Migrator)

WholeRollback == RollbackOf(Migrator)

\* A condition that raises, a deadlock's victim, a lost connection.
FailMigration ==
  /\ step[Migrator] > 0
  /\ WholeRollback
  /\ ran' = 0
  /\ Goes(Migrator, 0)
  /\ UNCHANGED <<stage, doing>>

Migrate ==
  \/ StartMigration \/ LockTables \/ InsertOrganizations \/ Reconcile \/ Move
  \/ SetGuard("guard_off", FALSE) \/ SetGuard("guard_on", TRUE)
  \/ Verify \/ Constrain \/ Drop \/ GoOn \/ FinishMigration \/ FailMigration

MigrationNext == (\E w \in Writer : Write(w)) \/ Migrate

MigrationSpec == MigrationInit /\ [][MigrationNext]_vars

-----------------------------------------------------------------------------
(***************************************************************************)
(* What the four migrations promise.                                       *)
(***************************************************************************)
Named(row) == IF row.organization # NoParty THEN row.organization ELSE row.issuer
Known(d) == {p \in Party : d.issuer[p] # Absent \/ d.organization[p] # Absent}

\* Whoever wrote a row, and whichever migration ran in between, it names the party
\* it was written for, and that party has a record: an organization once the issuer
\* table is gone (0023's "would lose their party").
NobodyLosesTheirParty ==
  \A r \in Row : db.row[r] # Absent =>
    /\ Named(db.row[r]) = db.row[r].party
    /\ db.row[r].party # NoParty => db.row[r].party \in Known(db)

\* While both tables exist the database keeps them in step, whoever enters or changes
\* an issuer: each has its organization, each row both references, and the two records
\* of a party agree, unless the organization was there before its issuer or was
\* changed by itself since (0021: "two verification states that can disagree").
TheRecordsAgree ==
  InStep =>
    /\ Unmatched(db) = {} /\ Unmoved(db) = {}
    /\ \A p \in Disagreeing(db) : db.ahead[p]
    /\ \A r \in Row : db.row[r] # Absent =>
         db.row[r].issuer \in {NoParty, db.row[r].organization}

\* No committed state has the append-only guard off, a party once known stays
\* known, and a row once written keeps the party it names (0020: "there is no
\* window in which the guard is off and the transaction survived").
HistoryIsKept ==
  [][/\ \A g \in Guard : db'.guard[g]
     /\ \A p \in Known(db) : p \in Known(db)'
     /\ \A r \in Row : db.row[r] # Absent =>
          db'.row[r] # Absent /\ Named(db'.row[r]) = Named(db.row[r])]_vars

=============================================================================
