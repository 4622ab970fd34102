------------------------ MODULE IssuerMigrationProofs ------------------------
(***************************************************************************)
(* What the four migrations promise, for any parties, rows, writers and    *)
(* interleavings of their statements, failures included.                   *)
(*                                                                         *)
(* What makes it hold is what each transaction has locked. A migration     *)
(* that reads a table to write its conclusions holds a lock no writer of   *)
(* that table holds with it, to the end of the transaction, whichever      *)
(* migrations go on in it, so what it verified is what it commits          *)
(* (MigratorInv); and a writer that is in flight while 0021 commits has    *)
(* written no issuer and no row, only an organization nobody else had, or  *)
(* one that has the last word on itself (WriterInv). Everything else is    *)
(* that no two transactions have written one party (Apart).                *)
(***************************************************************************)
EXTENDS IssuerMigration, TLAPS

Field == {"issuer", "organization", "row", "ahead", "guard"}

\* What a transaction may have written.
Draft(m) ==
  /\ DOMAIN m = Field
  /\ DOMAIN m.issuer \subseteq Party
  /\ \A p \in DOMAIN m.issuer : m.issuer[p] \in Standing \cup {Absent}
  /\ DOMAIN m.organization \subseteq Party
  /\ \A p \in DOMAIN m.organization : m.organization[p] \in Standing
  /\ DOMAIN m.row \subseteq Row
  /\ \A r \in DOMAIN m.row : m.row[r] \in RowType
  /\ DOMAIN m.ahead \subseteq Party
  /\ \A p \in DOMAIN m.ahead : m.ahead[p] \in BOOLEAN
  /\ DOMAIN m.guard \subseteq Guard
  /\ \A g \in DOMAIN m.guard : m.guard[g] \in BOOLEAN

\* What may be committed.
Database(d) ==
  /\ DOMAIN d = Field
  /\ d.issuer \in [Party -> Standing \cup {Absent}]
  /\ d.organization \in [Party -> Standing \cup {Absent}]
  /\ d.row \in [Row -> RowType \cup {Absent}]
  /\ d.ahead \in [Party -> BOOLEAN]
  /\ d.guard \in [Guard -> BOOLEAN]

Shapes ==
  /\ Database(db)
  /\ stage \in 0 .. 4 /\ ran \in 0 .. 3 /\ stage + ran <= 4
  /\ DOMAIN mine = Tx /\ \A t \in Tx : Draft(mine[t])
  /\ held \in [Tx -> SUBSET (Table \X Mode)]
  /\ doing \in [Writer -> Ops \cup {Idle}]
  /\ DOMAIN step = Tx
  /\ \A w \in Writer : step[w] \in {"idle", "first", "second", "commit"}
  /\ step[Migrator] \in 0 .. 11
  /\ \A t \in Tx : AtRest(t) => mine[t] = Nothing /\ held[t] = {}

\* A row names the party it was written for, in one column or in both.
Good(row) ==
  /\ row.issuer \in {NoParty, row.party} /\ row.organization \in {NoParty, row.party}
  /\ row.party \in {row.issuer, row.organization}

\* The two columns agree, where the old one is filled.
Moved(row) == row.issuer \in {NoParty, row.organization}

\* What is committed.
Sound ==
  /\ \A r \in Row : db.row[r] # Absent =>
       /\ Good(db.row[r])
       /\ db.row[r].party # NoParty => db.row[r].party \in Known(db)
  /\ \A g \in Guard : db.guard[g]
  /\ TheRecordsAgree

\* What a writer has written by each of its statements, and what still holds for it.
Statements(w) ==
  /\ step[w] \in {"idle", "first"} => mine[w] = Nothing
  /\ step[w] = "second" => doing[w].op = "record"
  /\ step[w] = "commit" => doing[w].op # "nothing"
  /\ DOMAIN mine[w].guard = {}

Records(w) ==
  LET m == mine[w]
      o == doing[w]
  IN o.op = "record" =>
       /\ db.row[o.product] = Absent /\ db.row[o.event] = Absent
       /\ DOMAIN m.issuer = {} /\ DOMAIN m.organization = {} /\ DOMAIN m.ahead = {}
       /\ DOMAIN m.row \subseteq {o.product, o.event}
       /\ step[w] \in {"second", "commit"} => <<"product", "row_exclusive">> \in held[w]
       /\ \A r \in DOMAIN m.row :
            /\ Good(m.row[r]) /\ (InStep => Moved(m.row[r]))
            /\ m.row[r].party # NoParty => m.row[r].party \in Known(db)

Issuers(w) ==
  LET m == mine[w]
      p == doing[w].party
      s == doing[w].standing
  IN (step[w] = "commit" /\ doing[w].op \in {"insert_issuer", "update_issuer"}) =>
       /\ IssuerHere /\ <<"issuer", "row_exclusive">> \in held[w]
       /\ DOMAIN m.issuer = {p} /\ m.issuer[p] = s /\ DOMAIN m.row = {}
       /\ DOMAIN m.organization \subseteq {p} /\ DOMAIN m.ahead \subseteq {p}
       /\ ~InStep => DOMAIN m.organization = {}
       /\ (InStep /\ p \in DOMAIN m.organization) => m.organization[p] = s
       /\ (InStep /\ p \notin DOMAIN m.organization) =>
            db.organization[p] # Absent /\ p \in DOMAIN m.ahead /\ m.ahead[p] = TRUE

Organizations(w) ==
  LET m == mine[w]
      p == doing[w].party
  IN (step[w] = "commit" /\ doing[w].op = "insert_organization") =>
       /\ DOMAIN m.issuer = {} /\ DOMAIN m.ahead = {} /\ DOMAIN m.row = {}
       /\ DOMAIN m.organization = {p} /\ db.organization[p] = Absent
       /\ InStep => db.issuer[p] = Absent

Changes(w) ==
  LET m == mine[w]
      p == doing[w].party
  IN (step[w] = "commit" /\ doing[w].op = "update_organization") =>
       /\ DOMAIN m.issuer = {} /\ DOMAIN m.row = {}
       /\ DOMAIN m.organization = {p} /\ db.organization[p] # Absent
       /\ DOMAIN m.ahead = {p} /\ m.ahead[p] = TRUE

WriterInv(w) == Statements(w) /\ Records(w) /\ Issuers(w) /\ Organizations(w) /\ Changes(w)

Bare(m) == \A f \in Field : DOMAIN m[f] = {}

\* The transaction has 0021 behind it, or it was committed before; it has dropped the issuer.
Stepped == (Current = 1 /\ step[Migrator] = 11) \/ (Current \in {2, 3} /\ step[Migrator] > 0)
Dropped == Current = 3 /\ step[Migrator] > 6

\* What the running migration has locked and written by each statement.
Taken ==
  LET m == mine[Migrator]
      k == step[Migrator]
  IN /\ k = 0 => m = Nothing /\ ran = 0
     /\ k > 0 => Current < 4 /\ k \in 1 .. Len(Migration) + 1
     /\ \A j \in DOMAIN Migration :
          j < k /\ Migration[j].do = "lock" => Migration[j].locks \subseteq held[Migrator]
     /\ stage < 2 /\ Current \in {2, 3} =>
          /\ <<"issuer", "share_row_exclusive">> \in held[Migrator]
          /\ <<"product", "share_row_exclusive">> \in held[Migrator]
     /\ \A r \in DOMAIN m.row :
          /\ db.row[r] # Absent /\ m.row[r].party = db.row[r].party /\ Good(m.row[r])
     /\ ~Dropped => DOMAIN m.issuer = {} /\ DOMAIN m.ahead \subseteq DOMAIN m.organization
     /\ (stage >= 2 /\ ~Dropped) => Bare(m)
     /\ Dropped =>
          /\ DOMAIN m.issuer = Party /\ \A p \in Party : m.issuer[p] = Absent
          /\ stage >= 2 => DOMAIN m.organization = {} /\ DOMAIN m.guard = {}
          /\ \A r \in Row : db.row[r] # Absent => r \in DOMAIN m.row
          /\ \A r \in DOMAIN m.row : m.row[r].issuer = NoParty

\* What it has verified, and commits.
Checked ==
  /\ (Current = 0 /\ step[Migrator] = 11) \/ Stepped => Guarded(Here)
  /\ Stepped =>
       /\ \A p \in Party : db.issuer[p] # Absent => Here.organization[p] # Absent
       /\ \A r \in Row : Here.row[r] # Absent => Moved(Here.row[r])
  /\ Stepped /\ ~Dropped =>
       \A p \in Party : (db.issuer[p] # Absent /\ Here.organization[p] # db.issuer[p])
                          => Here.ahead[p] = TRUE

MigratorInv == Taken /\ Checked

\* No two transactions hold locks that conflict, have written one party, or one record.
LocksApart ==
  \A t, u \in Tx : t # u =>
    \A h \in held[t], l \in held[u] : h[1] = l[1] => ~Conflict(h[2], l[2])
PartiesApart ==
  \A t, u \in Tx : t # u =>
    /\ DOMAIN mine[t].issuer \cap DOMAIN mine[u].issuer = {}
    /\ DOMAIN mine[t].organization \cap DOMAIN mine[u].organization = {}
RecordsApart ==
  \A v, w \in Writer : (v # w /\ doing[v].op = "record" /\ doing[w].op = "record") =>
    {doing[v].product, doing[v].event} \cap {doing[w].product, doing[w].event} = {}
Apart == LocksApart /\ PartiesApart /\ RecordsApart

MigrationInv ==
  /\ Shapes /\ Sound /\ MigratorInv /\ Apart
  /\ \A w \in Writer : WriterInv(w)

-----------------------------------------------------------------------------
(***************************************************************************)
(* What the definitions say of one table, one lock, one statement.         *)
(***************************************************************************)

\* Onto is a function of both domains, the first one's word before the second's.
LEMMA OntoIs ==
  ASSUME NEW f, NEW g
  PROVE  /\ DOMAIN Onto(f, g) = DOMAIN f \cup DOMAIN g
         /\ \A x \in DOMAIN f : Onto(f, g)[x] = f[x]
         /\ \A x \in DOMAIN g \ DOMAIN f : Onto(f, g)[x] = g[x]
BY DEF Onto

\* A transaction that has written nothing.
LEMMA NothingIs ==
  Draft(Nothing) /\ Bare(Nothing) /\ \A f \in Field : DOMAIN Nothing[f] = {}
<1>1. DOMAIN <<>> = {}
  OBVIOUS
<1> QED BY <1>1 DEF Nothing, Draft, Bare, Field

\* A transaction sees what it wrote, and else what is committed.
LEMMA ViewIs ==
  ASSUME Shapes, NEW t \in Tx
  PROVE  /\ Database(View(t))
         /\ \A p \in Party :
              /\ View(t).issuer[p] =
                   IF p \in DOMAIN mine[t].issuer THEN mine[t].issuer[p] ELSE db.issuer[p]
              /\ View(t).organization[p] =
                   IF p \in DOMAIN mine[t].organization THEN mine[t].organization[p]
                   ELSE db.organization[p]
              /\ View(t).ahead[p] =
                   IF p \in DOMAIN mine[t].ahead THEN mine[t].ahead[p] ELSE db.ahead[p]
         /\ \A r \in Row : View(t).row[r] =
              IF r \in DOMAIN mine[t].row THEN mine[t].row[r] ELSE db.row[r]
         /\ \A g \in Guard : View(t).guard[g] =
              IF g \in DOMAIN mine[t].guard THEN mine[t].guard[g] ELSE db.guard[g]
<1>1. Database(db) /\ Draft(mine[t])
  BY DEF Shapes
<1>2. DOMAIN View(t) = Field /\ \A f \in Field : View(t)[f] = Onto(mine[t][f], db[f])
  BY <1>1 DEF View, Database
<1>3. /\ View(t).issuer = Onto(mine[t].issuer, db.issuer)
      /\ View(t).organization = Onto(mine[t].organization, db.organization)
      /\ View(t).row = Onto(mine[t].row, db.row)
      /\ View(t).ahead = Onto(mine[t].ahead, db.ahead)
      /\ View(t).guard = Onto(mine[t].guard, db.guard)
  BY <1>2 DEF Field
<1>4. /\ View(t).issuer \in [Party -> Standing \cup {Absent}]
      /\ \A p \in Party : View(t).issuer[p] =
           IF p \in DOMAIN mine[t].issuer THEN mine[t].issuer[p] ELSE db.issuer[p]
  BY <1>1, <1>3 DEF Onto, Database, Draft
<1>5. /\ View(t).organization \in [Party -> Standing \cup {Absent}]
      /\ \A p \in Party : View(t).organization[p] =
           IF p \in DOMAIN mine[t].organization THEN mine[t].organization[p]
           ELSE db.organization[p]
  BY <1>1, <1>3 DEF Onto, Database, Draft
<1>6. /\ View(t).row \in [Row -> RowType \cup {Absent}]
      /\ \A r \in Row : View(t).row[r] =
           IF r \in DOMAIN mine[t].row THEN mine[t].row[r] ELSE db.row[r]
  BY <1>1, <1>3 DEF Onto, Database, Draft
<1>7. /\ View(t).ahead \in [Party -> BOOLEAN]
      /\ \A p \in Party : View(t).ahead[p] =
           IF p \in DOMAIN mine[t].ahead THEN mine[t].ahead[p] ELSE db.ahead[p]
  BY <1>1, <1>3 DEF Onto, Database, Draft
<1>8. /\ View(t).guard \in [Guard -> BOOLEAN]
      /\ \A g \in Guard : View(t).guard[g] =
           IF g \in DOMAIN mine[t].guard THEN mine[t].guard[g] ELSE db.guard[g]
  BY <1>1, <1>3 DEF Onto, Database, Draft
<1> QED BY <1>2, <1>4, <1>5, <1>6, <1>7, <1>8 DEF Database

\* A step of one transaction that commits nothing, and what it may not touch.
Beside(t) ==
  /\ db' = db /\ stage' = stage /\ (t # Migrator => ran' = ran)
  /\ \A u \in Tx \ {t} : mine'[u] = mine[u] /\ held'[u] = held[u] /\ step'[u] = step[u]
  /\ \A v \in Writer \ {t} : doing'[v] = doing[v]

\* A statement of it.
Alone(t) == Beside(t) /\ doing' = doing

\* Writing to one table adds to what was written to it.
LEMMA PutIs ==
  ASSUME Shapes, NEW t \in Tx, NEW table \in Field, NEW f, Put(t, table, f)
  PROVE  /\ DOMAIN mine' = Tx /\ \A u \in Tx \ {t} : mine'[u] = mine[u]
         /\ DOMAIN mine'[t] = Field /\ mine'[t][table] = Onto(f, mine[t][table])
         /\ \A g \in Field \ {table} : mine'[t][g] = mine[t][g]
<1>1. DOMAIN mine = Tx /\ DOMAIN mine[t] = Field
  BY DEF Shapes, Draft
<1>2. mine' = [mine EXCEPT ![t] = [mine[t] EXCEPT ![table] = Onto(f, mine[t][table])]]
  BY DEF Put
<1> QED BY <1>1, <1>2

\* The locks that are taken, by table and mode.
LEMMA PairsAre ==
  \A table \in {"issuer", "organization", "product", "lifecycle_event"} :
    \A mode \in {"access_share", "row_exclusive", "share_row_exclusive", "access_exclusive"} :
      <<table, mode>> \in Table \X Mode
BY DEF Table, Mode

\* A lock is added to those held, and conflicts with none of another's.
LEMMA LockIs ==
  ASSUME Shapes, LocksApart, NEW t \in Tx, NEW locks \in SUBSET (Table \X Mode), Lock(t, locks)
  PROVE  /\ held' \in [Tx -> SUBSET (Table \X Mode)]
         /\ held'[t] = held[t] \cup locks /\ \A u \in Tx \ {t} : held'[u] = held[u]
         /\ LocksApart'
<1>1. held \in [Tx -> SUBSET (Table \X Mode)]
  BY DEF Shapes
<1>2. /\ held' \in [Tx -> SUBSET (Table \X Mode)]
      /\ held'[t] = held[t] \cup locks /\ \A u \in Tx \ {t} : held'[u] = held[u]
  BY <1>1 DEF Lock
<1>3. \A m, n : Conflict(m, n) <=> Conflict(n, m)
  BY DEF Conflict
<1>4. \A u \in Tx \ {t} : \A h \in held[u], l \in locks : l[1] = h[1] => ~Conflict(l[2], h[2])
  BY DEF Lock
<1>5. \A m, n : Conflict(m, n)' = Conflict(m, n)
  BY DEF Conflict
<1> QED BY <1>2, <1>3, <1>4, <1>5 DEF LocksApart

\* The next statement of a transaction is its own.
LEMMA GoesIs ==
  ASSUME Shapes, NEW t \in Tx, NEW s, Goes(t, s)
  PROVE  DOMAIN step' = Tx /\ step'[t] = s /\ \A u \in Tx \ {t} : step'[u] = step[u]
BY DEF Shapes, Goes

\* Which migration runs: it is the same until the migrator goes on or is over.
LEMMA CurrentIs ==
  ASSUME Shapes
  PROVE  /\ Current \in 0 .. 4 /\ stage \in 0 .. 4 /\ stage <= Current
         /\ stage' = stage /\ ran' = ran => Current' = Current /\ Migration' = Migration
<1>1. stage \in 0 .. 4 /\ ran \in 0 .. 3 /\ stage + ran <= 4
  BY DEF Shapes
<1>2. Current \in 0 .. 4 /\ stage <= Current
  BY <1>1 DEF Current
<1>3. ASSUME stage' = stage, ran' = ran PROVE Current' = Current /\ Migration' = Migration
  BY <1>3 DEF Current, Migration
<1> QED BY <1>1, <1>2, <1>3

-----------------------------------------------------------------------------
(***************************************************************************)
(* The statements of a writer.                                             *)
(***************************************************************************)

\* What a writer is asked, once it is asked something.
LEMMA OpIs ==
  ASSUME Shapes, NEW w \in Writer, NEW o, o = doing[w], o.op # "nothing"
  PROVE  /\ o \in Op
         /\ o.op \in {"insert_issuer", "update_issuer", "insert_organization", "update_organization"} =>
              o.party \in Party /\ o.standing \in Standing
         /\ o.op = "record" =>
              /\ o.product \in Row /\ o.event \in Row
              /\ o.party \in Party \cup {NoParty} /\ o.by \in {"issuer", "organization"}
         /\ o.op \in {"insert_issuer", "update_issuer", "insert_organization",
                      "update_organization", "record"}
<1>1. Idle.op = "nothing"
  BY DEF Idle
<1>2. o \in Op
  BY <1>1, MigrationAssumption DEF Shapes
<1> QED BY <1>2 DEF Op, Row

\* A transaction that has written nothing sees what is committed.
LEMMA FreshView ==
  ASSUME Shapes, NEW t \in Tx, mine[t] = Nothing
  PROVE  /\ \A p \in Party : /\ View(t).issuer[p] = db.issuer[p]
                             /\ View(t).organization[p] = db.organization[p]
         /\ \A r \in Row : View(t).row[r] = db.row[r]
<1>1. \A f \in Field : DOMAIN mine[t][f] = {}
  BY NothingIs
<1>2. DOMAIN mine[t].issuer = {} /\ DOMAIN mine[t].organization = {} /\ DOMAIN mine[t].row = {}
  BY <1>1 DEF Field
<1> QED BY <1>2, ViewIs

\* Once both are in step, an issuer has its organization.
LEMMA InStepIsMatched ==
  ASSUME Sound, InStep, NEW p \in Party, db.issuer[p] # Absent
  PROVE  db.organization[p] # Absent
BY DEF Sound, TheRecordsAgree, Unmatched

\* What a writer of issuers has in flight stays as it is where nothing it rests on changes.
LEMMA IssuersStay ==
  ASSUME NEW v \in Writer, Issuers(v), db' = db, InStep' <=> InStep, IssuerHere' <=> IssuerHere,
         mine'[v] = mine[v], held'[v] = held[v], step'[v] = step[v], doing'[v] = doing[v]
  PROVE  Issuers(v)'
<1> SUFFICES ASSUME step[v] = "commit", doing[v].op \in {"insert_issuer", "update_issuer"}
             PROVE  Issuers(v)'
  BY DEF Issuers
<1>1. PICK p, s : p = doing[v].party /\ s = doing[v].standing
  OBVIOUS
<1>2. PICK m : m = mine[v]
  OBVIOUS
<1>3. /\ IssuerHere /\ <<"issuer", "row_exclusive">> \in held[v]
      /\ DOMAIN m.issuer = {p} /\ m.issuer[p] = s /\ DOMAIN m.row = {}
      /\ DOMAIN m.organization \subseteq {p} /\ DOMAIN m.ahead \subseteq {p}
      /\ ~InStep => DOMAIN m.organization = {}
      /\ (InStep /\ p \in DOMAIN m.organization) => m.organization[p] = s
      /\ (InStep /\ p \notin DOMAIN m.organization) =>
           db.organization[p] # Absent /\ p \in DOMAIN m.ahead /\ m.ahead[p] = TRUE
  BY <1>1, <1>2 DEF Issuers
<1> QED BY <1>1, <1>2, <1>3 DEF Issuers

\* Nor what a writer that changes an organization has, as long as that is there.
LEMMA ChangesStay ==
  ASSUME NEW v \in Writer, Changes(v), \A p : db.organization[p] # Absent
           /\ doing[v].op = "update_organization" /\ p = doing[v].party
             => db'.organization[p] # Absent,
         mine'[v] = mine[v], step'[v] = step[v], doing'[v] = doing[v]
  PROVE  Changes(v)'
<1> SUFFICES ASSUME step[v] = "commit", doing[v].op = "update_organization"
             PROVE  Changes(v)'
  BY DEF Changes
<1>1. PICK p : p = doing[v].party
  OBVIOUS
<1>2. PICK m : m = mine[v]
  OBVIOUS
<1>3. /\ DOMAIN m.issuer = {} /\ DOMAIN m.row = {}
      /\ DOMAIN m.organization = {p} /\ db.organization[p] # Absent
      /\ DOMAIN m.ahead = {p} /\ m.ahead[p] = TRUE
  BY <1>1, <1>2 DEF Changes
<1>4. db'.organization[p] # Absent
  BY <1>1, <1>3
<1> QED BY <1>1, <1>2, <1>3, <1>4 DEF Changes

\* A writer's step is judged by what it wrote, what it locked, and whose rows they are.
LEMMA WriterStepKeeps ==
  ASSUME MigrationInv, NEW w \in Writer, Beside(w),
         DOMAIN mine' = Tx, DOMAIN step' = Tx, held' \in [Tx -> SUBSET (Table \X Mode)],
         doing' \in [Writer -> Ops \cup {Idle}],
         Draft(mine'[w]), step'[w] \in {"idle", "first", "second", "commit"},
         step'[w] = "idle" => mine'[w] = Nothing /\ held'[w] = {},
         WriterInv(w)', LocksApart', PartiesApart', RecordsApart'
  PROVE  MigrationInv'
<1> USE DEF MigrationInv
<1>1. /\ db' = db /\ stage' = stage /\ ran' = ran
      /\ \A u \in Tx \ {w} : mine'[u] = mine[u] /\ held'[u] = held[u] /\ step'[u] = step[u]
      /\ \A v \in Writer \ {w} : doing'[v] = doing[v]
  BY MigrationAssumption DEF Beside
<1>2. w \in Tx /\ Migrator \in Tx \ {w} /\ w # Migrator /\ \A v \in Writer : v # Migrator
  BY MigrationAssumption DEF Tx
<1>3. Shapes'
  <2>1. \A t \in Tx : Draft(mine'[t])
    BY <1>1 DEF Shapes
  <2>2. \A t \in Tx : AtRest(t)' => mine'[t] = Nothing /\ held'[t] = {}
    BY <1>1, <1>2 DEF Shapes, AtRest
  <2>3. \A v \in Writer : v \in Tx
    BY DEF Tx
  <2> QED BY <1>1, <1>2, <2>1, <2>2, <2>3 DEF Shapes
<1>4. Sound'
  BY <1>1 DEF Sound, TheRecordsAgree, InStep, Unmatched, Unmoved, Disagreeing, Known
<1>5. MigratorInv'
  <2>1. mine'[Migrator] = mine[Migrator] /\ held'[Migrator] = held[Migrator]
        /\ step'[Migrator] = step[Migrator]
    BY <1>1, <1>2
  <2>2. Migration' = Migration /\ Current' = Current
    BY <1>1, CurrentIs
  <2>3. Here' = Here
    BY <1>1, <2>1 DEF Here, View
  <2>4. (Stepped' <=> Stepped) /\ (Dropped' <=> Dropped)
    BY <2>1, <2>2 DEF Stepped, Dropped
  <2>5. Taken'
    BY <1>1, <2>1, <2>2, <2>4 DEF MigratorInv, Taken
  <2>6. Checked'
    BY <1>1, <2>1, <2>2, <2>3, <2>4 DEF MigratorInv, Checked, Guarded
  <2> QED BY <2>5, <2>6 DEF MigratorInv
<1>6. \A v \in Writer : v # w => WriterInv(v)'
  <2> SUFFICES ASSUME NEW v \in Writer, v # w PROVE WriterInv(v)'
    OBVIOUS
  <2>1. mine'[v] = mine[v] /\ held'[v] = held[v] /\ step'[v] = step[v] /\ doing'[v] = doing[v]
    BY <1>1 DEF Tx
  <2>2. (InStep' <=> InStep) /\ (IssuerHere' <=> IssuerHere) /\ Known(db)' = Known(db)
    BY <1>1 DEF InStep, IssuerHere, Known
  <2>3. Statements(v)'
    BY <2>1 DEF WriterInv, Statements
  <2>4. Records(v)'
    BY <1>1, <2>1, <2>2 DEF WriterInv, Records
  <2>5. Issuers(v)'
    BY <1>1, <2>1, <2>2, IssuersStay DEF WriterInv
  <2>6. Organizations(v)'
    BY <1>1, <2>1, <2>2 DEF WriterInv, Organizations
  <2>7. Changes(v)'
    BY <1>1, <2>1, ChangesStay DEF WriterInv
  <2> QED BY <2>3, <2>4, <2>5, <2>6, <2>7 DEF WriterInv
<1> QED BY <1>3, <1>4, <1>5, <1>6 DEF Apart

\* A statement, in particular, leaves it what it does.
LEMMA StatementKeeps ==
  ASSUME MigrationInv, NEW w \in Writer, Alone(w),
         DOMAIN mine' = Tx, DOMAIN step' = Tx, held' \in [Tx -> SUBSET (Table \X Mode)],
         Draft(mine'[w]), step'[w] \in {"second", "commit"},
         LocksApart', WriterInv(w)', PartiesApart'
  PROVE  MigrationInv'
<1>1. Beside(w) /\ doing' = doing
  BY DEF Alone
<1>2. doing' \in [Writer -> Ops \cup {Idle}]
  BY <1>1 DEF MigrationInv, Shapes
<1>3. RecordsApart'
  BY <1>1 DEF MigrationInv, Apart, RecordsApart
<1> QED BY <1>1, <1>2, <1>3, WriterStepKeeps


\* InsertIssuer: with 0021's trigger, the organization is found, or entered with the issuer.
LEMMA InsertIssuerKeeps ==
  ASSUME MigrationInv, NEW w \in Writer, InsertIssuer(w) PROVE MigrationInv'
<1> USE DEF MigrationInv
<1>1. w \in Tx /\ step[w] = "first" /\ mine[w] = Nothing
  BY DEF InsertIssuer, Tx, WriterInv, Statements
<1>2. PICK p, s : p = doing[w].party /\ s = doing[w].standing
  OBVIOUS
<1>3. p \in Party /\ s \in Standing /\ doing[w].op = "insert_issuer"
  BY <1>2, OpIs DEF InsertIssuer
<1>4. /\ View(w).issuer[p] = db.issuer[p] /\ View(w).organization[p] = db.organization[p]
  BY <1>1, <1>3, FreshView
<1>5. PICK found \in BOOLEAN : found <=> db.organization[p] # Absent
  OBVIOUS
<1>6. mine' = [mine EXCEPT ![w] =
        [mine[w] EXCEPT !.issuer = Standings(p, s), !.ahead = Mark(p, InStep /\ found),
                        !.organization = IF InStep /\ ~found THEN Standings(p, s) ELSE <<>>]]
  BY <1>2, <1>4, <1>5 DEF InsertIssuer
<1>7. DOMAIN mine = Tx /\ DOMAIN mine[w] = Field
  BY <1>1 DEF Shapes, Draft
<1>8. DOMAIN Standings(p, s) = {p} /\ Standings(p, s)[p] = s /\ DOMAIN <<>> = {}
  BY DEF Standings
<1>9. DOMAIN Mark(p, InStep /\ found) = {p} /\ (InStep /\ found => Mark(p, InStep /\ found)[p] = TRUE)
      /\ Mark(p, InStep /\ found)[p] \in BOOLEAN
  BY DEF Mark
<1>10. /\ DOMAIN mine' = Tx /\ \A u \in Tx \ {w} : mine'[u] = mine[u]
       /\ DOMAIN mine'[w] = Field /\ mine'[w].row = mine[w].row /\ mine'[w].guard = mine[w].guard
       /\ mine'[w].issuer = Standings(p, s) /\ mine'[w].ahead = Mark(p, InStep /\ found)
       /\ mine'[w].organization = IF InStep /\ ~found THEN Standings(p, s) ELSE <<>>
  BY <1>1, <1>6, <1>7 DEF Field
<1>11. DOMAIN mine[w].row = {} /\ DOMAIN mine[w].guard = {}
  BY <1>1, NothingIs DEF Field
<1>12. Draft(mine'[w])
  <2>1. /\ DOMAIN mine'[w].issuer = {p} /\ mine'[w].issuer[p] = s
        /\ DOMAIN mine'[w].ahead = {p} /\ mine'[w].ahead[p] \in BOOLEAN
        /\ DOMAIN mine'[w].row = {} /\ DOMAIN mine'[w].guard = {}
    BY <1>8, <1>9, <1>10, <1>11
  <2>2. /\ DOMAIN mine'[w].organization \subseteq {p}
        /\ p \in DOMAIN mine'[w].organization => mine'[w].organization[p] = s
    BY <1>8, <1>10
  <2> QED BY <1>3, <1>10, <2>1, <2>2 DEF Draft
<1>13. PICK locks \in SUBSET (Table \X Mode) : Lock(w, locks) /\ <<"issuer", "row_exclusive">> \in locks
  <2> DEFINE L == {<<"issuer", "row_exclusive">>}
                  \cup IF InStep THEN {<<"organization", "row_exclusive">>} ELSE {}
  <2>1. L \in SUBSET (Table \X Mode)
    BY PairsAre
  <2>2. Lock(w, L)
    BY DEF InsertIssuer
  <2> QED BY <2>1, <2>2
<1>14. /\ held' \in [Tx -> SUBSET (Table \X Mode)] /\ LocksApart'
       /\ <<"issuer", "row_exclusive">> \in held'[w] /\ \A u \in Tx \ {w} : held'[u] = held[u]
  <2>1. Shapes /\ LocksApart
    BY DEF Apart
  <2>2. /\ held' \in [Tx -> SUBSET (Table \X Mode)] /\ LocksApart'
        /\ held'[w] = held[w] \cup locks /\ \A u \in Tx \ {w} : held'[u] = held[u]
    BY <1>1, <1>13, <2>1, LockIs
  <2> QED BY <1>13, <2>2
<1>15. DOMAIN step' = Tx /\ step'[w] = "commit" /\ \A u \in Tx \ {w} : step'[u] = step[u]
  BY <1>1, GoesIs DEF InsertIssuer
<1>16. Alone(w)
  BY <1>10, <1>14, <1>15 DEF Alone, Beside, InsertIssuer
<1>17. PartiesApart'
  <2>1. ~InDoubt(w, "issuer", p) /\ (InStep => ~InDoubt(w, "organization", p))
    BY <1>2 DEF InsertIssuer
  <2>2. \A u \in Tx \ {w} : /\ p \notin DOMAIN mine[u].issuer
                            /\ InStep => p \notin DOMAIN mine[u].organization
    BY <2>1 DEF InDoubt
  <2> QED BY <1>8, <1>10, <2>2 DEF Apart, PartiesApart
<1>18. WriterInv(w)'
  <2>1. doing'[w] = doing[w] /\ db' = db /\ stage' = stage /\ IssuerHere
    BY DEF InsertIssuer
  <2>2. Statements(w)'
    BY <1>3, <1>10, <1>11, <1>15, <2>1 DEF Statements
  <2>3. Records(w)' /\ Organizations(w)' /\ Changes(w)'
    BY <1>3, <2>1 DEF Records, Organizations, Changes
  <2>4. (InStep' <=> InStep) /\ IssuerHere'
    BY <2>1 DEF InStep, IssuerHere
  <2>5. Issuers(w)'
    BY <1>2, <1>5, <1>8, <1>9, <1>10, <1>11, <1>14, <2>1, <2>4 DEF Issuers
  <2> QED BY <2>2, <2>3, <2>5 DEF WriterInv
<1> QED BY <1>10, <1>12, <1>14, <1>15, <1>16, <1>17, <1>18, StatementKeeps

\* UpdateIssuer: with 0021's trigger, its organization changes with it.
LEMMA UpdateIssuerKeeps ==
  ASSUME MigrationInv, NEW w \in Writer, UpdateIssuer(w) PROVE MigrationInv'
<1> USE DEF MigrationInv
<1>1. w \in Tx /\ step[w] = "first" /\ mine[w] = Nothing
  BY DEF UpdateIssuer, Tx, WriterInv, Statements
<1>2. PICK p, s : p = doing[w].party /\ s = doing[w].standing
  OBVIOUS
<1>3. p \in Party /\ s \in Standing /\ doing[w].op = "update_issuer"
  BY <1>2, OpIs DEF UpdateIssuer
<1>4. View(w).issuer[p] = db.issuer[p] /\ View(w).organization[p] = db.organization[p]
  BY <1>1, <1>3, FreshView
<1>5. InStep => View(w).organization[p] # Absent
  BY <1>2, <1>3, <1>4, InStepIsMatched DEF UpdateIssuer
<1>6. PICK f, g : /\ f = IF InStep THEN Standings(p, s) ELSE <<>>
                  /\ g = IF InStep THEN Mark(p, FALSE) ELSE <<>>
  OBVIOUS
<1>7. mine' = [mine EXCEPT ![w] =
        [mine[w] EXCEPT !.issuer = Standings(p, s), !.organization = f, !.ahead = g]]
  BY <1>2, <1>5, <1>6 DEF UpdateIssuer, ChangesReach
<1>8. DOMAIN mine = Tx /\ DOMAIN mine[w] = Field
  BY <1>1 DEF Shapes, Draft
<1>9. DOMAIN Standings(p, s) = {p} /\ Standings(p, s)[p] = s /\ DOMAIN <<>> = {}
      /\ DOMAIN Mark(p, FALSE) = {p} /\ Mark(p, FALSE)[p] = FALSE
  BY DEF Standings, Mark
<1>10. /\ DOMAIN mine' = Tx /\ \A u \in Tx \ {w} : mine'[u] = mine[u]
       /\ DOMAIN mine'[w] = Field /\ mine'[w].row = mine[w].row /\ mine'[w].guard = mine[w].guard
       /\ mine'[w].issuer = Standings(p, s) /\ mine'[w].organization = f /\ mine'[w].ahead = g
  BY <1>1, <1>7, <1>8 DEF Field
<1>11. DOMAIN mine[w].row = {} /\ DOMAIN mine[w].guard = {}
  BY <1>1, NothingIs DEF Field
<1>12. Draft(mine'[w])
  BY <1>3, <1>6, <1>9, <1>10, <1>11 DEF Draft
<1>13. PICK locks \in SUBSET (Table \X Mode) : Lock(w, locks) /\ <<"issuer", "row_exclusive">> \in locks
  <2> DEFINE L == {<<"issuer", "row_exclusive">>}
                  \cup IF InStep THEN {<<"organization", "row_exclusive">>} ELSE {}
  <2>1. L \in SUBSET (Table \X Mode)
    BY PairsAre
  <2>2. Lock(w, L)
    BY DEF UpdateIssuer
  <2> QED BY <2>1, <2>2
<1>14. /\ held' \in [Tx -> SUBSET (Table \X Mode)] /\ LocksApart'
       /\ <<"issuer", "row_exclusive">> \in held'[w] /\ \A u \in Tx \ {w} : held'[u] = held[u]
  <2>1. Shapes /\ LocksApart
    BY DEF Apart
  <2>2. /\ held' \in [Tx -> SUBSET (Table \X Mode)] /\ LocksApart'
        /\ held'[w] = held[w] \cup locks /\ \A u \in Tx \ {w} : held'[u] = held[u]
    BY <1>1, <1>13, <2>1, LockIs
  <2> QED BY <1>13, <2>2
<1>15. DOMAIN step' = Tx /\ step'[w] = "commit" /\ \A u \in Tx \ {w} : step'[u] = step[u]
  BY <1>1, GoesIs DEF UpdateIssuer
<1>16. Alone(w)
  BY <1>10, <1>14, <1>15 DEF Alone, Beside, UpdateIssuer
<1>17. PartiesApart'
  <2>1. ~InDoubt(w, "issuer", p) /\ (InStep => ~InDoubt(w, "organization", p))
    BY <1>2 DEF UpdateIssuer
  <2>2. \A u \in Tx \ {w} : /\ p \notin DOMAIN mine[u].issuer
                            /\ InStep => p \notin DOMAIN mine[u].organization
    BY <2>1 DEF InDoubt
  <2> QED BY <1>6, <1>9, <1>10, <2>2 DEF Apart, PartiesApart
<1>18. WriterInv(w)'
  <2>1. doing'[w] = doing[w] /\ db' = db /\ stage' = stage /\ IssuerHere
    BY DEF UpdateIssuer
  <2>2. Statements(w)'
    BY <1>3, <1>10, <1>11, <1>15, <2>1 DEF Statements
  <2>3. Records(w)' /\ Organizations(w)' /\ Changes(w)'
    BY <1>3, <2>1 DEF Records, Organizations, Changes
  <2>4. (InStep' <=> InStep) /\ IssuerHere'
    BY <2>1 DEF InStep, IssuerHere
  <2>5. Issuers(w)'
    BY <1>2, <1>6, <1>9, <1>10, <1>11, <1>14, <2>1, <2>4 DEF Issuers
  <2> QED BY <2>2, <2>3, <2>5 DEF WriterInv
<1> QED BY <1>10, <1>12, <1>14, <1>15, <1>16, <1>17, <1>18, StatementKeeps

\* InsertOrganization: nobody else has one of this party, and in step no issuer either.
LEMMA InsertOrganizationKeeps ==
  ASSUME MigrationInv, NEW w \in Writer, InsertOrganization(w) PROVE MigrationInv'
<1> USE DEF MigrationInv
<1>1. w \in Tx /\ step[w] = "first" /\ mine[w] = Nothing
  BY DEF InsertOrganization, Tx, WriterInv, Statements
<1>2. PICK p : p = doing[w].party
  OBVIOUS
<1>3. p \in Party /\ doing[w].op = "insert_organization"
  BY <1>2, OpIs DEF InsertOrganization
<1>4. db.organization[p] = Absent
  BY <1>1, <1>2, <1>3, FreshView DEF InsertOrganization
<1>5. /\ DOMAIN mine' = Tx /\ \A u \in Tx \ {w} : mine'[u] = mine[u]
      /\ DOMAIN mine'[w] = Field
      /\ mine'[w].organization = Onto(Standings(p, Default), mine[w].organization)
      /\ \A g \in Field \ {"organization"} : mine'[w][g] = mine[w][g]
  BY <1>1, <1>2, PutIs DEF InsertOrganization, Field
<1>6. /\ DOMAIN mine[w].issuer = {} /\ DOMAIN mine[w].organization = {}
      /\ DOMAIN mine[w].row = {} /\ DOMAIN mine[w].ahead = {} /\ DOMAIN mine[w].guard = {}
  BY <1>1, NothingIs DEF Field
<1>7. /\ DOMAIN mine'[w].issuer = {} /\ DOMAIN mine'[w].row = {}
      /\ DOMAIN mine'[w].ahead = {} /\ DOMAIN mine'[w].guard = {}
  BY <1>5, <1>6 DEF Field
<1>8. DOMAIN mine'[w].organization = {p} /\ mine'[w].organization[p] = Default
  BY <1>5, <1>6 DEF Onto, Standings
<1>9. Draft(mine'[w])
  BY <1>3, <1>5, <1>7, <1>8, MigrationAssumption DEF Draft
<1>10. {<<"organization", "row_exclusive">>} \in SUBSET (Table \X Mode)
  BY PairsAre
<1>11. /\ held' \in [Tx -> SUBSET (Table \X Mode)] /\ LocksApart'
       /\ \A u \in Tx \ {w} : held'[u] = held[u]
  BY <1>1, <1>10, LockIs DEF Apart, InsertOrganization
<1>12. DOMAIN step' = Tx /\ step'[w] = "commit" /\ \A u \in Tx \ {w} : step'[u] = step[u]
  BY <1>1, GoesIs DEF InsertOrganization
<1>13. Alone(w)
  BY <1>5, <1>11, <1>12 DEF Alone, Beside, InsertOrganization
<1>14. PartiesApart'
  <2>1. \A u \in Tx \ {w} : p \notin DOMAIN mine[u].organization
    BY <1>2 DEF InsertOrganization, InDoubt
  <2> QED BY <1>5, <1>7, <1>8, <2>1 DEF Apart, PartiesApart
<1>15. WriterInv(w)'
  <2>1. doing'[w] = doing[w] /\ db' = db /\ stage' = stage
    BY DEF InsertOrganization
  <2>2. Statements(w)'
    BY <1>3, <1>7, <1>12, <2>1 DEF Statements
  <2>3. Records(w)' /\ Issuers(w)' /\ Changes(w)'
    BY <1>3, <2>1 DEF Records, Issuers, Changes
  <2>4. InStep => db.issuer[p] = Absent
    BY <1>3, <1>4, InStepIsMatched
  <2>5. InStep' <=> InStep
    BY <2>1 DEF InStep
  <2>6. Organizations(w)'
    BY <1>2, <1>4, <1>7, <1>8, <2>1, <2>4, <2>5 DEF Organizations
  <2> QED BY <2>2, <2>3, <2>6 DEF WriterInv
<1> QED BY <1>5, <1>9, <1>11, <1>12, <1>13, <1>14, <1>15, StatementKeeps

\* UpdateOrganization: nobody else has written it, and it has the last word on itself.
LEMMA UpdateOrganizationKeeps ==
  ASSUME MigrationInv, NEW w \in Writer, UpdateOrganization(w) PROVE MigrationInv'
<1> USE DEF MigrationInv
<1>1. w \in Tx /\ step[w] = "first" /\ mine[w] = Nothing
  BY DEF UpdateOrganization, Tx, WriterInv, Statements
<1>2. PICK p, s : p = doing[w].party /\ s = doing[w].standing
  OBVIOUS
<1>3. p \in Party /\ s \in Standing /\ doing[w].op = "update_organization"
  BY <1>2, OpIs DEF UpdateOrganization
<1>4. db.organization[p] # Absent
  BY <1>1, <1>2, <1>3, FreshView DEF UpdateOrganization
<1>5. mine' = [mine EXCEPT ![w] =
        [mine[w] EXCEPT !.organization = Standings(p, s), !.ahead = Mark(p, TRUE)]]
  BY <1>2 DEF UpdateOrganization
<1>6. DOMAIN mine = Tx /\ DOMAIN mine[w] = Field
  BY <1>1 DEF Shapes, Draft
<1>7. /\ DOMAIN mine' = Tx /\ \A u \in Tx \ {w} : mine'[u] = mine[u]
      /\ DOMAIN mine'[w] = Field /\ mine'[w].issuer = mine[w].issuer
      /\ mine'[w].row = mine[w].row /\ mine'[w].guard = mine[w].guard
      /\ mine'[w].organization = Standings(p, s) /\ mine'[w].ahead = Mark(p, TRUE)
  BY <1>1, <1>5, <1>6 DEF Field
<1>8. DOMAIN mine[w].issuer = {} /\ DOMAIN mine[w].row = {} /\ DOMAIN mine[w].guard = {}
  BY <1>1, NothingIs DEF Field
<1>9. /\ DOMAIN mine'[w].organization = {p} /\ mine'[w].organization[p] = s
      /\ DOMAIN mine'[w].ahead = {p} /\ mine'[w].ahead[p] = TRUE
  BY <1>7 DEF Standings, Mark
<1>10. Draft(mine'[w])
  BY <1>3, <1>7, <1>8, <1>9 DEF Draft
<1>11. {<<"organization", "row_exclusive">>} \in SUBSET (Table \X Mode)
  BY PairsAre
<1>12. /\ held' \in [Tx -> SUBSET (Table \X Mode)] /\ LocksApart'
       /\ \A u \in Tx \ {w} : held'[u] = held[u]
  BY <1>1, <1>11, LockIs DEF Apart, UpdateOrganization
<1>13. DOMAIN step' = Tx /\ step'[w] = "commit" /\ \A u \in Tx \ {w} : step'[u] = step[u]
  BY <1>1, GoesIs DEF UpdateOrganization
<1>14. Alone(w)
  BY <1>7, <1>12, <1>13 DEF Alone, Beside, UpdateOrganization
<1>15. PartiesApart'
  <2>1. \A u \in Tx \ {w} : p \notin DOMAIN mine[u].organization
    BY <1>2 DEF UpdateOrganization, InDoubt
  <2> QED BY <1>7, <1>8, <1>9, <2>1 DEF Apart, PartiesApart
<1>16. WriterInv(w)'
  <2>1. doing'[w] = doing[w] /\ db' = db
    BY DEF UpdateOrganization
  <2>2. Statements(w)'
    BY <1>3, <1>7, <1>8, <1>13, <2>1 DEF Statements
  <2>3. Records(w)' /\ Issuers(w)' /\ Organizations(w)'
    BY <1>3, <2>1 DEF Records, Issuers, Organizations
  <2>4. Changes(w)'
    BY <1>2, <1>4, <1>7, <1>8, <1>9, <2>1 DEF Changes
  <2> QED BY <2>2, <2>3, <2>4 DEF WriterInv
<1> QED BY <1>7, <1>10, <1>12, <1>13, <1>14, <1>15, <1>16, StatementKeeps

\* What a writer's row says once 0021's trigger has seen it, if the checks accept it.
LEMMA RecordIsGood ==
  ASSUME MigrationInv, NEW w \in Writer, doing[w].op = "record",
         Accepted(w, Resolved(w, Written(doing[w])))
  PROVE  LET row == Resolved(w, Written(doing[w]))
         IN /\ row \in RowType /\ Good(row) /\ (InStep => Moved(row))
            /\ row.party # NoParty => row.party \in Known(db)
<1> USE DEF MigrationInv
<1>1. PICK o : o = doing[w]
  OBVIOUS
<1>2. o.party \in Party \cup {NoParty} /\ o.by \in {"issuer", "organization"} /\ w \in Tx
  BY <1>1, OpIs DEF Tx
<1>3. PICK wr : wr = Written(o)
  OBVIOUS
<1>4. /\ wr \in RowType /\ wr.party = o.party
      /\ \/ wr.issuer = o.party /\ wr.organization = NoParty
         \/ wr.issuer = NoParty /\ wr.organization = o.party
  BY <1>2, <1>3 DEF Written, RowType
<1>5. PICK row : row = Resolved(w, wr)
  OBVIOUS
<1>6. DOMAIN mine[w].issuer = {} /\ DOMAIN mine[w].organization = {}
  BY DEF WriterInv, Records
<1>7. \A p \in Party : View(w).issuer[p] = db.issuer[p] /\ View(w).organization[p] = db.organization[p]
  BY <1>2, <1>6, ViewIs
<1>8. Accepted(w, row)
  BY <1>1, <1>3, <1>5
<1>9. \/ row = wr
      \/ row = [wr EXCEPT !.organization = wr.issuer] /\ wr.issuer # NoParty
  BY <1>5 DEF Resolved
<1>10. /\ row \in RowType /\ row.party = o.party /\ row.issuer = wr.issuer
       /\ row.organization \in {wr.organization, wr.issuer}
       /\ row.organization = wr.organization \/ wr.issuer # NoParty
  BY <1>2, <1>4, <1>9 DEF RowType
<1>11. Good(row)
  BY <1>4, <1>10 DEF Good
<1>12. /\ row.issuer # NoParty => row.issuer \in Party /\ db.issuer[row.issuer] # Absent
       /\ row.organization # NoParty => row.organization \in Party /\ db.organization[row.organization] # Absent
  BY <1>7, <1>8, <1>10 DEF Accepted, RowType
<1>13. row.party # NoParty => row.party \in Known(db)
  BY <1>11, <1>12 DEF Good, Known
<1>14. ASSUME InStep, row.issuer # NoParty PROVE row.issuer = row.organization
  <2>1. wr.issuer = o.party /\ wr.organization = NoParty /\ wr.issuer # NoParty /\ wr.issuer \in Party
    BY <1>4, <1>10, <1>12, <1>14
  <2>2. db.organization[wr.issuer] # Absent
    BY <1>10, <1>12, <1>14, <2>1, InStepIsMatched
  <2>3. View(w).organization[wr.issuer] # Absent
    BY <1>7, <2>1, <2>2
  <2>4. row = [wr EXCEPT !.organization = wr.issuer]
    BY <1>5, <1>14, <2>1, <2>3 DEF Resolved
  <2> QED BY <1>4, <2>4 DEF RowType
<1> QED BY <1>1, <1>3, <1>5, <1>10, <1>11, <1>13, <1>14 DEF Moved

\* A record's statements, the product and then its event.
LEMMA RecordRowKeeps ==
  ASSUME MigrationInv, NEW w \in Writer, NEW from, NEW to, NEW r, NEW table,
         RecordRow(w, from, to, r, table),
         \/ from = "first" /\ to = "second" /\ r = doing[w].product /\ table = "product"
         \/ from = "second" /\ to = "commit" /\ r = doing[w].event /\ table = "lifecycle_event"
  PROVE  MigrationInv'
<1> USE DEF MigrationInv
<1>1. w \in Tx /\ step[w] = from /\ doing[w].op = "record"
  BY DEF RecordRow, Tx
<1>2. PICK o : o = doing[w]
  OBVIOUS
<1>3. PICK row : row = Resolved(w, Written(o))
  OBVIOUS
<1>4. /\ row \in RowType /\ Good(row) /\ (InStep => Moved(row))
      /\ row.party # NoParty => row.party \in Known(db)
  BY <1>1, <1>2, <1>3, RecordIsGood DEF RecordRow
<1>5. r \in Row /\ r \in {o.product, o.event}
  BY <1>1, <1>2, OpIs
<1>6. /\ db.row[o.product] = Absent /\ db.row[o.event] = Absent
      /\ DOMAIN mine[w].issuer = {} /\ DOMAIN mine[w].organization = {} /\ DOMAIN mine[w].ahead = {}
      /\ DOMAIN mine[w].row \subseteq {o.product, o.event} /\ DOMAIN mine[w].guard = {}
      /\ step[w] = "second" => <<"product", "row_exclusive">> \in held[w]
  BY <1>1, <1>2 DEF WriterInv, Records, Statements
<1>7. \A q \in DOMAIN mine[w].row :
        /\ Good(mine[w].row[q]) /\ (InStep => Moved(mine[w].row[q]))
        /\ mine[w].row[q].party # NoParty => mine[w].row[q].party \in Known(db)
  BY <1>1, <1>2 DEF WriterInv, Records
<1>8. PICK f : f = [q \in {r} |-> row]
  OBVIOUS
<1>9. Put(w, "row", f)
  BY <1>2, <1>3, <1>8 DEF RecordRow
<1>10. /\ DOMAIN mine' = Tx /\ \A u \in Tx \ {w} : mine'[u] = mine[u]
       /\ DOMAIN mine'[w] = Field /\ mine'[w].row = Onto(f, mine[w].row)
       /\ \A g \in Field \ {"row"} : mine'[w][g] = mine[w][g]
  BY <1>1, <1>9, PutIs DEF Field
<1>11. /\ mine'[w].issuer = mine[w].issuer /\ mine'[w].organization = mine[w].organization
       /\ mine'[w].ahead = mine[w].ahead /\ mine'[w].guard = mine[w].guard
  BY <1>10 DEF Field
<1>12. /\ DOMAIN mine'[w].row = {r} \cup DOMAIN mine[w].row
       /\ \A q \in DOMAIN mine'[w].row : mine'[w].row[q] = row \/
            (q \in DOMAIN mine[w].row /\ mine'[w].row[q] = mine[w].row[q])
  <2>1. DOMAIN f = {r} /\ f[r] = row
    BY <1>8
  <2>2. PICK old : old = mine[w].row
    OBVIOUS
  <2>3. /\ DOMAIN Onto(f, old) = DOMAIN f \cup DOMAIN old
        /\ \A x \in DOMAIN f : Onto(f, old)[x] = f[x]
        /\ \A x \in DOMAIN old \ DOMAIN f : Onto(f, old)[x] = old[x]
    BY OntoIs
  <2> QED BY <1>10, <2>1, <2>2, <2>3
<1>13. Draft(mine'[w])
  <2>1. Draft(mine[w])
    BY <1>1 DEF Shapes
  <2>2. /\ DOMAIN mine'[w].row \subseteq Row
        /\ \A q \in DOMAIN mine'[w].row : mine'[w].row[q] \in RowType
    BY <1>4, <1>5, <1>12, <2>1 DEF Draft
  <2> QED BY <1>6, <1>10, <1>11, <2>2 DEF Draft
<1>14. PICK locks \in SUBSET (Table \X Mode) : Lock(w, locks) /\ <<table, "row_exclusive">> \in locks
  <2> DEFINE L == {<<table, "row_exclusive">>, <<"organization", "access_share">>}
                  \cup IF IssuerHere THEN {<<"issuer", "access_share">>} ELSE {}
  <2>1. L \in SUBSET (Table \X Mode)
    BY PairsAre
  <2>2. Lock(w, L)
    BY DEF RecordRow
  <2> QED BY <2>1, <2>2
<1>15. /\ held' \in [Tx -> SUBSET (Table \X Mode)] /\ LocksApart'
       /\ held'[w] = held[w] \cup locks /\ \A u \in Tx \ {w} : held'[u] = held[u]
  <2>1. Shapes /\ LocksApart
    BY DEF Apart
  <2> QED BY <1>1, <1>14, <2>1, LockIs
<1>16. <<"product", "row_exclusive">> \in held'[w]
  BY <1>1, <1>6, <1>14, <1>15
<1>17. DOMAIN step' = Tx /\ step'[w] = to /\ \A u \in Tx \ {w} : step'[u] = step[u]
  BY <1>1, GoesIs DEF RecordRow
<1>18. Alone(w)
  BY <1>10, <1>15, <1>17 DEF Alone, Beside, RecordRow
<1>19. PartiesApart'
  BY <1>10, <1>11 DEF Apart, PartiesApart
<1>20. WriterInv(w)'
  <2>1. doing'[w] = doing[w] /\ db' = db /\ stage' = stage
    BY DEF RecordRow
  <2>2. Statements(w)'
    BY <1>1, <1>6, <1>11, <1>17, <2>1 DEF Statements
  <2>3. (InStep' <=> InStep) /\ Known(db)' = Known(db)
    BY <2>1 DEF InStep, Known
  <2>4. \A q \in DOMAIN mine'[w].row :
          /\ Good(mine'[w].row[q]) /\ (InStep => Moved(mine'[w].row[q]))
          /\ mine'[w].row[q].party # NoParty => mine'[w].row[q].party \in Known(db)
    BY <1>4, <1>7, <1>12
  <2>5. DOMAIN mine'[w].row \subseteq {o.product, o.event}
    BY <1>5, <1>6, <1>12
  <2>6. Records(w)'
    BY <1>2, <1>6, <1>11, <1>16, <2>1, <2>3, <2>4, <2>5 DEF Records
  <2>7. Issuers(w)' /\ Organizations(w)' /\ Changes(w)'
    BY <1>1, <2>1 DEF Issuers, Organizations, Changes
  <2> QED BY <2>2, <2>6, <2>7 DEF WriterInv
<1> QED BY <1>10, <1>13, <1>15, <1>17, <1>18, <1>19, <1>20, StatementKeeps

-----------------------------------------------------------------------------
(***************************************************************************)
(* The programs of the four migrations, statement by statement.            *)
(***************************************************************************)

\* 0020 writes its organizations and its rows, and then verifies, in that order.
LEMMA ZeroIs ==
  ASSUME Current = 0
  PROVE  /\ DOMAIN Migration = 1 .. 10 /\ Len(Migration) = 10
         /\ Migration[1].do = "lock" /\ Migration[2].do = "lock"
         /\ Migration[3].do = "lock" /\ Migration[4].do = "lock"
         /\ Migration[5].do = "insert_organizations" /\ Migration[6].do = "move"
         /\ Migration[7].do = "guard_off" /\ Migration[8].do = "move"
         /\ Migration[9].do = "guard_on" /\ Migration[10].do = "verify"
<1>1. /\ DOMAIN Migration = 1 .. 10 /\ Len(Migration) = 10
      /\ Migration[1] = Reads({"issuer"})
      /\ Migration[2] = Locks("organization", "access_exclusive")
      /\ Migration[3] = Locks("lifecycle_event", "access_exclusive")
      /\ Migration[4] = Locks("product", "access_exclusive")
      /\ Migration[5] = Does("insert_organizations")
      /\ Migration[6] = MoveProducts
      /\ Migration[7] = Does("guard_off")
      /\ Migration[8] = MoveEvents
      /\ Migration[9] = Does("guard_on")
      /\ Migration[10] = Does("verify")
  BY DEF Migration, OnePartyOneRecord
<1>2. /\ Reads({"issuer"}).do = "lock" /\ Locks("organization", "access_exclusive").do = "lock"
      /\ Locks("lifecycle_event", "access_exclusive").do = "lock" /\ Locks("product", "access_exclusive").do = "lock"
      /\ Does("insert_organizations").do = "insert_organizations" /\ MoveProducts.do = "move"
      /\ Does("guard_off").do = "guard_off" /\ MoveEvents.do = "move"
      /\ Does("guard_on").do = "guard_on" /\ Does("verify").do = "verify"
  BY DEF Does, Locks, MoveEvents, MoveProducts, Moves, Reads
<1> QED BY <1>1, <1>2

\* The locks of 0020.
LEMMA ZeroLocks ==
  ASSUME Current = 0
  PROVE  /\ Migration[1].locks = {"issuer"} \X {"access_share"}
         /\ Migration[2].locks = {<<"organization", "access_exclusive">>}
         /\ Migration[3].locks = {<<"lifecycle_event", "access_exclusive">>}
         /\ Migration[4].locks = {<<"product", "access_exclusive">>}
<1>1. /\ Migration[1] = Reads({"issuer"})
      /\ Migration[2] = Locks("organization", "access_exclusive")
      /\ Migration[3] = Locks("lifecycle_event", "access_exclusive")
      /\ Migration[4] = Locks("product", "access_exclusive")
  BY DEF Migration, OnePartyOneRecord
<1>2. /\ Reads({"issuer"}).locks = {"issuer"} \X {"access_share"}
      /\ Locks("organization", "access_exclusive").locks = {<<"organization", "access_exclusive">>}
      /\ Locks("lifecycle_event", "access_exclusive").locks = {<<"lifecycle_event", "access_exclusive">>}
      /\ Locks("product", "access_exclusive").locks = {<<"product", "access_exclusive">>}
  BY DEF Locks, Reads
<1> QED BY <1>1, <1>2

\* 0021 locks three tables against their writers before it reads them.
LEMMA OneIs ==
  ASSUME Current = 1
  PROVE  /\ DOMAIN Migration = 1 .. 10 /\ Len(Migration) = 10
         /\ Migration[1].do = "lock" /\ Migration[2].do = "lock"
         /\ Migration[3].do = "lock" /\ Migration[4].do = "insert_organizations"
         /\ Migration[5].do = "reconcile" /\ Migration[6].do = "move"
         /\ Migration[7].do = "guard_off" /\ Migration[8].do = "move"
         /\ Migration[9].do = "guard_on" /\ Migration[10].do = "verify"
<1>1. /\ DOMAIN Migration = 1 .. 10 /\ Len(Migration) = 10
      /\ Migration[1] = Locks("issuer", "share_row_exclusive")
      /\ Migration[2] = Locks("product", "share_row_exclusive")
      /\ Migration[3] = Locks("lifecycle_event", "share_row_exclusive")
      /\ Migration[4] = Does("insert_organizations")
      /\ Migration[5] = Does("reconcile")
      /\ Migration[6] = MoveProducts
      /\ Migration[7] = Does("guard_off")
      /\ Migration[8] = MoveEvents
      /\ Migration[9] = Does("guard_on")
      /\ Migration[10] = Does("verify")
  BY DEF Migration, TheTwoStayInStep
<1>2. /\ Locks("issuer", "share_row_exclusive").do = "lock" /\ Locks("product", "share_row_exclusive").do = "lock"
      /\ Locks("lifecycle_event", "share_row_exclusive").do = "lock" /\ Does("insert_organizations").do = "insert_organizations"
      /\ Does("reconcile").do = "reconcile" /\ MoveProducts.do = "move"
      /\ Does("guard_off").do = "guard_off" /\ MoveEvents.do = "move"
      /\ Does("guard_on").do = "guard_on" /\ Does("verify").do = "verify"
  BY DEF Does, Locks, MoveEvents, MoveProducts, Moves
<1> QED BY <1>1, <1>2

\* The locks of 0021.
LEMMA OneLocks ==
  ASSUME Current = 1
  PROVE  /\ Migration[1].locks = {<<"issuer", "share_row_exclusive">>}
         /\ Migration[2].locks = {<<"product", "share_row_exclusive">>}
         /\ Migration[3].locks = {<<"lifecycle_event", "share_row_exclusive">>}
<1>1. /\ Migration[1] = Locks("issuer", "share_row_exclusive")
      /\ Migration[2] = Locks("product", "share_row_exclusive")
      /\ Migration[3] = Locks("lifecycle_event", "share_row_exclusive")
  BY DEF Migration, TheTwoStayInStep
<1>2. /\ Locks("issuer", "share_row_exclusive").locks = {<<"issuer", "share_row_exclusive">>}
      /\ Locks("product", "share_row_exclusive").locks = {<<"product", "share_row_exclusive">>}
      /\ Locks("lifecycle_event", "share_row_exclusive").locks = {<<"lifecycle_event", "share_row_exclusive">>}
  BY DEF Locks
<1> QED BY <1>1, <1>2

\* 0022 writes nothing.
LEMMA TwoIs ==
  ASSUME Current = 2
  PROVE  /\ DOMAIN Migration = 1 .. 3 /\ Len(Migration) = 3
         /\ Migration[1].do = "lock" /\ Migration[2].do = "lock"
         /\ Migration[3].do = "constrain"
<1>1. /\ DOMAIN Migration = 1 .. 3 /\ Len(Migration) = 3
      /\ Migration[1] = Locks("lifecycle_event", "access_exclusive")
      /\ Migration[2] = Locks("product", "access_exclusive")
      /\ Migration[3] = Does("constrain")
  BY DEF Migration, ConstraintsFollow
<1>2. /\ Locks("lifecycle_event", "access_exclusive").do = "lock" /\ Locks("product", "access_exclusive").do = "lock"
      /\ Does("constrain").do = "constrain"
  BY DEF Does, Locks
<1> QED BY <1>1, <1>2

\* The locks of 0022.
LEMMA TwoLocks ==
  ASSUME Current = 2
  PROVE  /\ Migration[1].locks = {<<"lifecycle_event", "access_exclusive">>}
         /\ Migration[2].locks = {<<"product", "access_exclusive">>}
<1>1. /\ Migration[1] = Locks("lifecycle_event", "access_exclusive")
      /\ Migration[2] = Locks("product", "access_exclusive")
  BY DEF Migration, ConstraintsFollow
<1>2. /\ Locks("lifecycle_event", "access_exclusive").locks = {<<"lifecycle_event", "access_exclusive">>}
      /\ Locks("product", "access_exclusive").locks = {<<"product", "access_exclusive">>}
  BY DEF Locks
<1> QED BY <1>1, <1>2

\* 0023 has three tables to itself when it drops.
LEMMA ThreeIs ==
  ASSUME Current = 3
  PROVE  /\ DOMAIN Migration = 1 .. 7 /\ Len(Migration) = 7
         /\ Migration[1].do = "lock" /\ Migration[2].do = "verify"
         /\ Migration[3].do = "lock" /\ Migration[4].do = "lock"
         /\ Migration[5].do = "lock" /\ Migration[6].do = "drop"
         /\ Migration[7].do = "verify_guard"
<1>1. /\ DOMAIN Migration = 1 .. 7 /\ Len(Migration) = 7
      /\ Migration[1] = Reads(Table)
      /\ Migration[2] = Does("verify")
      /\ Migration[3] = Locks("issuer", "access_exclusive")
      /\ Migration[4] = Locks("product", "access_exclusive")
      /\ Migration[5] = Locks("lifecycle_event", "access_exclusive")
      /\ Migration[6] = Does("drop")
      /\ Migration[7] = Does("verify_guard")
  BY DEF Migration, OneIdentityRemains
<1>2. /\ Reads(Table).do = "lock" /\ Does("verify").do = "verify"
      /\ Locks("issuer", "access_exclusive").do = "lock" /\ Locks("product", "access_exclusive").do = "lock"
      /\ Locks("lifecycle_event", "access_exclusive").do = "lock" /\ Does("drop").do = "drop"
      /\ Does("verify_guard").do = "verify_guard"
  BY DEF Does, Locks, Reads
<1> QED BY <1>1, <1>2

\* The locks of 0023.
LEMMA ThreeLocks ==
  ASSUME Current = 3
  PROVE  /\ Migration[1].locks = Table \X {"access_share"}
         /\ Migration[3].locks = {<<"issuer", "access_exclusive">>}
         /\ Migration[4].locks = {<<"product", "access_exclusive">>}
         /\ Migration[5].locks = {<<"lifecycle_event", "access_exclusive">>}
<1>1. /\ Migration[1] = Reads(Table)
      /\ Migration[3] = Locks("issuer", "access_exclusive")
      /\ Migration[4] = Locks("product", "access_exclusive")
      /\ Migration[5] = Locks("lifecycle_event", "access_exclusive")
  BY DEF Migration, OneIdentityRemains
<1>2. /\ Reads(Table).locks = Table \X {"access_share"}
      /\ Locks("issuer", "access_exclusive").locks = {<<"issuer", "access_exclusive">>}
      /\ Locks("product", "access_exclusive").locks = {<<"product", "access_exclusive">>}
      /\ Locks("lifecycle_event", "access_exclusive").locks = {<<"lifecycle_event", "access_exclusive">>}
  BY DEF Locks, Reads
<1> QED BY <1>1, <1>2

\* Where in which migration a statement of each kind stands.
LEMMA WhereIs ==
  ASSUME Shapes, NEW what, At(what)
  PROVE  LET k == step[Migrator]
         IN /\ k \in 1 .. Len(Migration) /\ k > 0
            /\ k = 10 => Current < 2 /\ what = "verify"
            /\ what = "insert_organizations" => (Current = 0 /\ k = 5) \/ (Current = 1 /\ k = 4)
            /\ what = "reconcile" => Current = 1 /\ k = 5
            /\ what \in {"move", "guard_off", "guard_on"} => Current < 2 /\ k \in 6 .. 9
            /\ what = "drop" => Current = 3 /\ k = 6
            /\ Current = 3 /\ k = 6 => what = "drop"
            /\ (what = "verify" /\ Current < 2) => k = 10
            /\ what = "verify_guard" => Current = 3 /\ k = 7
<1>1. PICK k : k = step[Migrator]
  OBVIOUS
<1>2. k \in DOMAIN Migration /\ Migration[k].do = what /\ Current \in 0 .. 3
  <2>1. k \in DOMAIN Migration /\ Migration[k].do = what /\ Current < 4
    BY <1>1 DEF At
  <2>2. Current \in 0 .. 4
    BY CurrentIs
  <2> QED BY <2>1, <2>2
<1>3. CASE Current = 0
  <2>1. /\ Migration[1].do = "lock" /\ Migration[2].do = "lock" /\ Migration[3].do = "lock"
        /\ Migration[4].do = "lock" /\ Migration[5].do = "insert_organizations"
        /\ Migration[6].do = "move" /\ Migration[7].do = "guard_off" /\ Migration[8].do = "move"
        /\ Migration[9].do = "guard_on" /\ Migration[10].do = "verify"
    BY <1>3, ZeroIs
  <2>2. k \in {1, 2, 3, 4, 5, 6, 7, 8, 9, 10} /\ Len(Migration) = 10
    BY <1>2, <1>3, ZeroIs
  <2> QED BY <1>1, <1>2, <1>3, <2>1, <2>2
<1>4. CASE Current = 1
  <2>1. /\ Migration[1].do = "lock" /\ Migration[2].do = "lock" /\ Migration[3].do = "lock"
        /\ Migration[4].do = "insert_organizations" /\ Migration[5].do = "reconcile"
        /\ Migration[6].do = "move" /\ Migration[7].do = "guard_off" /\ Migration[8].do = "move"
        /\ Migration[9].do = "guard_on" /\ Migration[10].do = "verify"
    BY <1>4, OneIs
  <2>2. k \in {1, 2, 3, 4, 5, 6, 7, 8, 9, 10} /\ Len(Migration) = 10
    BY <1>2, <1>4, OneIs
  <2> QED BY <1>1, <1>2, <1>4, <2>1, <2>2
<1>5. CASE Current = 2
  <2>1. Migration[1].do = "lock" /\ Migration[2].do = "lock" /\ Migration[3].do = "constrain"
    BY <1>5, TwoIs
  <2>2. k \in {1, 2, 3} /\ Len(Migration) = 3
    BY <1>2, <1>5, TwoIs
  <2> QED BY <1>1, <1>2, <1>5, <2>1, <2>2
<1>6. CASE Current = 3
  <2>1. /\ Migration[1].do = "lock" /\ Migration[2].do = "verify" /\ Migration[3].do = "lock"
        /\ Migration[4].do = "lock" /\ Migration[5].do = "lock" /\ Migration[6].do = "drop"
        /\ Migration[7].do = "verify_guard"
    BY <1>6, ThreeIs
  <2>2. k \in {1, 2, 3, 4, 5, 6, 7} /\ Len(Migration) = 7
    BY <1>2, <1>6, ThreeIs
  <2> QED BY <1>1, <1>2, <1>6, <2>1, <2>2
<1> QED BY <1>2, <1>3, <1>4, <1>5, <1>6

\* The locks of a statement are locks of the tables.
LEMMA LocksAreLocks ==
  ASSUME Shapes, At("lock")
  PROVE  Migration[step[Migrator]].locks \in SUBSET (Table \X Mode)
<1>1. PICK k : k = step[Migrator]
  OBVIOUS
<1>2. k \in DOMAIN Migration /\ Migration[k].do = "lock" /\ Current \in 0 .. 3
  <2>1. k \in DOMAIN Migration /\ Migration[k].do = "lock" /\ Current < 4
    BY <1>1 DEF At
  <2>2. Current \in 0 .. 4
    BY CurrentIs
  <2> QED BY <2>1, <2>2
<1>3. \A tables \in SUBSET Table : tables \X {"access_share"} \in SUBSET (Table \X Mode)
  BY DEF Mode
<1>4. \A table \in Table, mode \in Mode : {<<table, mode>>} \in SUBSET (Table \X Mode)
  OBVIOUS
<1>5. /\ {"issuer"} \in SUBSET Table /\ Table \in SUBSET Table
      /\ "issuer" \in Table /\ "organization" \in Table /\ "product" \in Table
      /\ "lifecycle_event" \in Table
      /\ "share_row_exclusive" \in Mode /\ "access_exclusive" \in Mode
  BY DEF Table, Mode
<1>6. CASE Current = 0
  <2>1. k \in 1 .. 4
    BY <1>2, <1>6, ZeroIs
  <2> QED BY <1>1, <1>3, <1>4, <1>5, <1>6, <2>1, ZeroLocks
<1>7. CASE Current = 1
  <2>1. k \in 1 .. 3
    BY <1>2, <1>7, OneIs
  <2> QED BY <1>1, <1>4, <1>5, <1>7, <2>1, OneLocks
<1>8. CASE Current = 2
  <2>1. k \in 1 .. 2
    BY <1>2, <1>8, TwoIs
  <2> QED BY <1>1, <1>4, <1>5, <1>8, <2>1, TwoLocks
<1>9. CASE Current = 3
  <2>1. k \in {1, 3, 4, 5}
    BY <1>2, <1>9, ThreeIs
  <2> QED BY <1>1, <1>3, <1>4, <1>5, <1>9, <2>1, ThreeLocks
<1> QED BY <1>2, <1>6, <1>7, <1>8, <1>9

\* What 0021 and 0023 hold once they have locked: nobody else writes the issuer, the
\* products or their events.
LEMMA TakenSoFar ==
  ASSUME MigrationInv,
         \/ stage < 2 /\ Stepped
         \/ Current = 1 /\ step[Migrator] > 3
         \/ Current = 3 /\ step[Migrator] > 5
  PROVE  \A w \in Writer : /\ <<"issuer", "row_exclusive">> \notin held[w]
                           /\ <<"product", "row_exclusive">> \notin held[w]
<1>1. PICK mode : /\ mode \in {"share_row_exclusive", "access_exclusive"}
                  /\ <<"issuer", mode>> \in held[Migrator] /\ <<"product", mode>> \in held[Migrator]
  <2>1. \A j \in DOMAIN Migration :
          j < step[Migrator] /\ Migration[j].do = "lock" => Migration[j].locks \subseteq held[Migrator]
    BY DEF MigrationInv, MigratorInv, Taken
  <2>2. step[Migrator] \in 0 .. 11
    BY DEF MigrationInv, Shapes
  <2>3. CASE Current = 1 /\ step[Migrator] > 3
    <3>1. /\ Migration[1].do = "lock" /\ Migration[2].do = "lock"
          /\ 1 \in DOMAIN Migration /\ 2 \in DOMAIN Migration
      BY <2>3, OneIs
    <3>2. 1 < step[Migrator] /\ 2 < step[Migrator]
      BY <2>2, <2>3
    <3>3. Migration[1].locks \subseteq held[Migrator] /\ Migration[2].locks \subseteq held[Migrator]
      BY <2>1, <3>1, <3>2
    <3> QED BY <2>3, <3>3, OneLocks
  <2>4. CASE Current = 3 /\ step[Migrator] > 5
    <3>1. /\ Migration[3].do = "lock" /\ Migration[4].do = "lock"
          /\ 3 \in DOMAIN Migration /\ 4 \in DOMAIN Migration
      BY <2>4, ThreeIs
    <3>2. 3 < step[Migrator] /\ 4 < step[Migrator]
      BY <2>2, <2>4
    <3>3. Migration[3].locks \subseteq held[Migrator] /\ Migration[4].locks \subseteq held[Migrator]
      BY <2>1, <3>1, <3>2
    <3> QED BY <2>4, <3>3, ThreeLocks
  <2>5. CASE stage < 2 /\ Current \in {2, 3}
    BY <2>5 DEF MigrationInv, MigratorInv, Taken
  <2>6. Stepped => (Current = 1 /\ step[Migrator] > 3) \/ Current \in {2, 3}
    BY DEF Stepped
  <2> QED BY <2>3, <2>4, <2>5, <2>6
<1>2. Conflict(mode, "row_exclusive")
  <2>1. "row_exclusive" \in {mode, "row_exclusive"}
        /\ "row_exclusive" \notin {"share_row_exclusive", "access_share"}
    OBVIOUS
  <2> QED BY <1>1, <2>1 DEF Conflict
<1>3. \A w \in Writer : w \in Tx /\ w # Migrator /\ Migrator \in Tx
  BY MigrationAssumption DEF Tx
<1>4. \A w \in Writer : \A l \in held[w], h \in held[Migrator] :
        h[1] = l[1] => ~Conflict(h[2], l[2])
  BY <1>3 DEF MigrationInv, Apart, LocksApart
<1> QED BY <1>1, <1>2, <1>4

-----------------------------------------------------------------------------
(***************************************************************************)
(* A writer's transaction begins, fails or commits.                        *)
(***************************************************************************)

\* Begin: a record is of a product and an event that nobody has.
LEMMA BeginKeeps ==
  ASSUME MigrationInv, NEW w \in Writer, NEW o \in Ops, Begin(w, o) PROVE MigrationInv'
<1> USE DEF MigrationInv
<1>1. w \in Tx /\ step[w] = "idle" /\ mine[w] = Nothing /\ mine' = mine /\ held' = held
      /\ db' = db /\ stage' = stage
  BY DEF Begin, Tx, Shapes, WriterInv, Statements
<1>2. doing' \in [Writer -> Ops \cup {Idle}] /\ doing'[w] = o
      /\ \A v \in Writer \ {w} : doing'[v] = doing[v]
  BY DEF Begin, Shapes
<1>3. DOMAIN step' = Tx /\ step'[w] = "first" /\ \A u \in Tx \ {w} : step'[u] = step[u]
  BY <1>1, GoesIs DEF Begin
<1>4. Beside(w)
  BY <1>1, <1>2, <1>3 DEF Beside, Begin
<1>5. \A f \in Field : DOMAIN mine[w][f] = {}
  BY <1>1, NothingIs
<1>6. o.op = "record" =>
        /\ db.row[o.product] = Absent /\ db.row[o.event] = Absent
        /\ \A u \in Writer : doing[u].op = "record" =>
             {o.product, o.event} \cap {doing[u].product, doing[u].event} = {}
  BY DEF Begin
<1>7. WriterInv(w)'
  <2>1. /\ DOMAIN mine'[w].issuer = {} /\ DOMAIN mine'[w].organization = {}
        /\ DOMAIN mine'[w].ahead = {} /\ DOMAIN mine'[w].row = {} /\ DOMAIN mine'[w].guard = {}
    BY <1>1, <1>5 DEF Field
  <2>2. Statements(w)'
    BY <1>1, <1>3, <2>1 DEF Statements
  <2>3. Records(w)'
    BY <1>1, <1>2, <1>3, <1>6, <2>1 DEF Records
  <2>4. Issuers(w)' /\ Organizations(w)' /\ Changes(w)'
    BY <1>3 DEF Issuers, Organizations, Changes
  <2> QED BY <2>2, <2>3, <2>4 DEF WriterInv
<1>8. LocksApart' /\ PartiesApart'
  <2>1. \A m, n : Conflict(m, n)' = Conflict(m, n)
    BY DEF Conflict
  <2> QED BY <1>1, <2>1 DEF Apart, LocksApart, PartiesApart
<1>9. RecordsApart'
  BY <1>2, <1>6 DEF Apart, RecordsApart
<1>10. DOMAIN mine' = Tx /\ held' \in [Tx -> SUBSET (Table \X Mode)] /\ Draft(mine'[w])
  BY <1>1 DEF Shapes
<1> QED BY <1>2, <1>3, <1>4, <1>7, <1>8, <1>9, <1>10, WriterStepKeeps

\* What a transaction leaves when it is over: no write and no lock.
LEMMA OverIs ==
  ASSUME Shapes, LocksApart, PartiesApart, NEW t \in Tx,
         mine' = [mine EXCEPT ![t] = Nothing], held' = [held EXCEPT ![t] = {}]
  PROVE  /\ DOMAIN mine' = Tx /\ mine'[t] = Nothing /\ \A u \in Tx \ {t} : mine'[u] = mine[u]
         /\ held' \in [Tx -> SUBSET (Table \X Mode)]
         /\ held'[t] = {} /\ \A u \in Tx \ {t} : held'[u] = held[u]
         /\ LocksApart' /\ PartiesApart'
<1>1. DOMAIN mine = Tx /\ held \in [Tx -> SUBSET (Table \X Mode)]
  BY DEF Shapes
<1>2. DOMAIN mine' = Tx /\ mine'[t] = Nothing /\ \A u \in Tx \ {t} : mine'[u] = mine[u]
  BY <1>1
<1>3. /\ held' \in [Tx -> SUBSET (Table \X Mode)]
      /\ held'[t] = {} /\ \A u \in Tx \ {t} : held'[u] = held[u]
  BY <1>1
<1>4. \A m, n : Conflict(m, n)' = Conflict(m, n)
  BY DEF Conflict
<1>5. LocksApart'
  BY <1>3, <1>4 DEF LocksApart
<1>6. DOMAIN mine'[t].issuer = {} /\ DOMAIN mine'[t].organization = {}
  BY <1>2, NothingIs DEF Field
<1>7. PartiesApart'
  BY <1>2, <1>6 DEF PartiesApart
<1> QED BY <1>2, <1>3, <1>5, <1>7

\* What it was asked is forgotten.
LEMMA EndsIs ==
  ASSUME MigrationInv, NEW w \in Writer, Ends(w)
  PROVE  /\ doing' \in [Writer -> Ops \cup {Idle}] /\ doing'[w] = Idle /\ doing'[w].op = "nothing"
         /\ \A v \in Writer \ {w} : doing'[v] = doing[v]
         /\ DOMAIN step' = Tx /\ step'[w] = "idle" /\ \A u \in Tx \ {w} : step'[u] = step[u]
         /\ RecordsApart'
<1>1. Shapes /\ RecordsApart /\ w \in Tx
  BY DEF MigrationInv, Apart, Tx
<1>2. /\ doing' \in [Writer -> Ops \cup {Idle}] /\ doing'[w] = Idle
      /\ \A v \in Writer \ {w} : doing'[v] = doing[v]
  BY <1>1 DEF Ends, Shapes
<1>3. doing'[w].op = "nothing"
  BY <1>2 DEF Idle
<1>4. DOMAIN step' = Tx /\ step'[w] = "idle" /\ \A u \in Tx \ {w} : step'[u] = step[u]
  BY <1>1, GoesIs DEF Ends
<1>5. RecordsApart'
  BY <1>1, <1>2, <1>3 DEF RecordsApart
<1> QED BY <1>2, <1>3, <1>4, <1>5

\* A writer that does nothing has nothing to keep.
LEMMA IdleKeeps ==
  ASSUME NEW w \in Writer, mine'[w] = Nothing, step'[w] = "idle", doing'[w].op = "nothing"
  PROVE  WriterInv(w)'
<1>1. DOMAIN mine'[w].guard = {}
  BY NothingIs DEF Field
<1>2. Statements(w)'
  BY <1>1 DEF Statements
<1>3. Records(w)' /\ Issuers(w)' /\ Organizations(w)' /\ Changes(w)'
  BY DEF Records, Issuers, Organizations, Changes
<1> QED BY <1>2, <1>3 DEF WriterInv

\* Fail: nothing it wrote is kept.
LEMMA FailKeeps ==
  ASSUME MigrationInv, NEW w \in Writer, Fail(w) PROVE MigrationInv'
<1> USE DEF MigrationInv
<1>1. w \in Tx /\ Ends(w) /\ Shapes /\ LocksApart /\ PartiesApart
  BY DEF Tx, Fail, Apart
<1>2. mine' = [mine EXCEPT ![w] = Nothing] /\ held' = [held EXCEPT ![w] = {}]
  BY DEF Fail, RollbackOf
<1>3. /\ DOMAIN mine' = Tx /\ mine'[w] = Nothing /\ \A u \in Tx \ {w} : mine'[u] = mine[u]
      /\ held' \in [Tx -> SUBSET (Table \X Mode)]
      /\ held'[w] = {} /\ \A u \in Tx \ {w} : held'[u] = held[u]
      /\ LocksApart' /\ PartiesApart'
  BY <1>1, <1>2, OverIs
<1>4. /\ doing' \in [Writer -> Ops \cup {Idle}] /\ doing'[w].op = "nothing"
      /\ \A v \in Writer \ {w} : doing'[v] = doing[v]
      /\ DOMAIN step' = Tx /\ step'[w] = "idle" /\ \A u \in Tx \ {w} : step'[u] = step[u]
      /\ RecordsApart'
  BY <1>1, EndsIs
<1>5. Beside(w)
  BY <1>3, <1>4 DEF Beside, Fail, RollbackOf
<1>6. WriterInv(w)'
  BY <1>3, <1>4, IdleKeeps
<1>7. Draft(mine'[w])
  BY <1>3, NothingIs
<1> QED BY <1>3, <1>4, <1>5, <1>6, <1>7, WriterStepKeeps

\* Two transactions have written no party's issuer, and no party's organization, both.
LEMMA Theirs ==
  ASSUME MigrationInv, NEW t \in Tx, NEW u \in Tx, t # u, NEW p
  PROVE  /\ p \in DOMAIN mine[t].issuer => p \notin DOMAIN mine[u].issuer
         /\ p \in DOMAIN mine[t].organization => p \notin DOMAIN mine[u].organization
BY DEF MigrationInv, Apart, PartiesApart

\* What a writer has written by the time it commits: a record and its event, an issuer with
\* or without its organization, or an organization.
LEMMA WrittenIs ==
  ASSUME MigrationInv, NEW w \in Writer
  PROVE  LET m == mine[w]
         IN /\ Draft(m) /\ DOMAIN m.guard = {}
            /\ \A p \in DOMAIN m.issuer : m.issuer[p] \in Standing /\ m.issuer[p] # Absent
            /\ \A p \in DOMAIN m.organization : m.organization[p] # Absent
            /\ \A r \in DOMAIN m.row :
                 /\ db.row[r] = Absent /\ m.row[r] # Absent
                 /\ <<"product", "row_exclusive">> \in held[w]
                 /\ Good(m.row[r]) /\ (InStep => Moved(m.row[r]))
                 /\ m.row[r].party # NoParty => m.row[r].party \in Known(db)
            /\ DOMAIN m.issuer # {} => <<"issuer", "row_exclusive">> \in held[w]
<1> USE DEF MigrationInv
<1>1. PICK m : m = mine[w]
  OBVIOUS
<1>2. PICK o : o = doing[w]
  OBVIOUS
<1>3. Draft(m) /\ w \in Tx
  BY <1>1 DEF Shapes, Tx
<1>4. DOMAIN m.guard = {}
  BY <1>1 DEF WriterInv, Statements
<1>5. Absent \notin Standing \cup RowType
  BY MigrationAssumption
<1>6. \A p \in DOMAIN m.organization : m.organization[p] # Absent
  BY <1>3, <1>5 DEF Draft
<1>7. \A r \in DOMAIN m.row : m.row[r] # Absent
  BY <1>3, <1>5 DEF Draft
<1>8. CASE m = Nothing
  <2>1. DOMAIN m.issuer = {} /\ DOMAIN m.row = {}
    BY <1>8, NothingIs DEF Field
  <2> QED BY <1>1, <1>3, <1>4, <1>6, <2>1
<1>9. CASE m # Nothing
  <2>1. step[w] \in {"second", "commit"} /\ o.op # "nothing"
    BY <1>1, <1>2, <1>9 DEF WriterInv, Statements, Shapes
  <2>2. \/ o.op = "record"
        \/ step[w] = "commit" /\ o.op \in {"insert_issuer", "update_issuer", "insert_organization",
                                            "update_organization"}
    BY <1>1, <1>2, <2>1, OpIs DEF WriterInv, Statements
  <2>3. CASE o.op = "record"
    <3>1. /\ db.row[o.product] = Absent /\ db.row[o.event] = Absent
          /\ DOMAIN m.issuer = {} /\ DOMAIN m.row \subseteq {o.product, o.event}
          /\ <<"product", "row_exclusive">> \in held[w]
      BY <1>1, <1>2, <2>1, <2>3 DEF WriterInv, Records
    <3>2. \A r \in DOMAIN m.row :
            /\ Good(m.row[r]) /\ (InStep => Moved(m.row[r]))
            /\ m.row[r].party # NoParty => m.row[r].party \in Known(db)
      BY <1>1, <1>2, <2>3 DEF WriterInv, Records
    <3> QED BY <1>1, <1>3, <1>4, <1>6, <1>7, <3>1, <3>2
  <2>4. CASE step[w] = "commit" /\ o.op \in {"insert_issuer", "update_issuer"}
    <3>1. PICK p, s : p = o.party /\ s = o.standing
      OBVIOUS
    <3>2. /\ <<"issuer", "row_exclusive">> \in held[w]
          /\ DOMAIN m.issuer = {p} /\ m.issuer[p] = s /\ DOMAIN m.row = {}
      BY <1>1, <1>2, <2>4, <3>1 DEF WriterInv, Issuers
    <3>3. s \in Standing
      BY <1>2, <2>4, <3>1, OpIs
    <3> QED BY <1>1, <1>3, <1>4, <1>5, <1>6, <3>2, <3>3
  <2>5. CASE step[w] = "commit" /\ o.op \in {"insert_organization", "update_organization"}
    <3>1. DOMAIN m.issuer = {} /\ DOMAIN m.row = {}
      BY <1>1, <1>2, <2>5 DEF WriterInv, Organizations, Changes
    <3> QED BY <1>1, <1>3, <1>4, <1>6, <3>1
  <2> QED BY <2>2, <2>3, <2>4, <2>5
<1> QED BY <1>8, <1>9

\* In step, the issuer it wrote has the organization it wrote, or one that was there; and
\* the organization it wrote without an issuer is nobody's, or has the last word.
LEMMA WrittenInStep ==
  ASSUME MigrationInv, NEW w \in Writer, InStep, NEW p \in Party
  PROVE  LET m == mine[w]
         IN /\ p \in DOMAIN m.issuer /\ p \in DOMAIN m.organization =>
                 m.organization[p] = m.issuer[p]
            /\ p \in DOMAIN m.issuer /\ p \notin DOMAIN m.organization =>
                 db.organization[p] # Absent /\ p \in DOMAIN m.ahead /\ m.ahead[p] = TRUE
            /\ p \notin DOMAIN m.issuer /\ p \in DOMAIN m.organization =>
                 db.issuer[p] = Absent \/ p \in DOMAIN m.ahead
            /\ p \notin DOMAIN m.issuer /\ p \in DOMAIN m.ahead =>
                 m.ahead[p] = TRUE /\ db.organization[p] # Absent
<1> USE DEF MigrationInv
<1>1. PICK m : m = mine[w]
  OBVIOUS
<1>2. PICK o : o = doing[w]
  OBVIOUS
<1>3. CASE m = Nothing
  <2>1. DOMAIN m.issuer = {} /\ DOMAIN m.organization = {} /\ DOMAIN m.ahead = {}
    BY <1>3, NothingIs DEF Field
  <2> QED BY <1>1, <2>1
<1>4. CASE m # Nothing
  <2>1. step[w] \in {"second", "commit"} /\ o.op # "nothing"
    BY <1>1, <1>2, <1>4 DEF WriterInv, Statements, Shapes
  <2>2. \/ o.op = "record"
        \/ step[w] = "commit" /\ o.op \in {"insert_issuer", "update_issuer", "insert_organization",
                                            "update_organization"}
    BY <1>1, <1>2, <2>1, OpIs DEF WriterInv, Statements
  <2>3. CASE o.op = "record"
    <3>1. DOMAIN m.issuer = {} /\ DOMAIN m.organization = {} /\ DOMAIN m.ahead = {}
      BY <1>1, <1>2, <2>3 DEF WriterInv, Records
    <3> QED BY <1>1, <3>1
  <2>4. CASE step[w] = "commit" /\ o.op \in {"insert_issuer", "update_issuer"}
    <3>1. PICK q, s : q = o.party /\ s = o.standing
      OBVIOUS
    <3>2. /\ DOMAIN m.issuer = {q} /\ m.issuer[q] = s
          /\ DOMAIN m.organization \subseteq {q} /\ DOMAIN m.ahead \subseteq {q}
          /\ q \in DOMAIN m.organization => m.organization[q] = s
          /\ q \notin DOMAIN m.organization =>
               db.organization[q] # Absent /\ q \in DOMAIN m.ahead /\ m.ahead[q] = TRUE
      BY <1>1, <1>2, <2>4, <3>1 DEF WriterInv, Issuers
    <3> QED BY <1>1, <3>2
  <2>5. CASE step[w] = "commit" /\ o.op = "insert_organization"
    <3>1. PICK q : q = o.party
      OBVIOUS
    <3>2. /\ DOMAIN m.issuer = {} /\ DOMAIN m.ahead = {}
          /\ DOMAIN m.organization = {q} /\ db.issuer[q] = Absent
      BY <1>1, <1>2, <2>5, <3>1 DEF WriterInv, Organizations
    <3> QED BY <1>1, <3>2
  <2>6. CASE step[w] = "commit" /\ o.op = "update_organization"
    <3>1. PICK q : q = o.party
      OBVIOUS
    <3>2. /\ DOMAIN m.issuer = {} /\ DOMAIN m.ahead = {q} /\ m.ahead[q] = TRUE
          /\ DOMAIN m.organization = {q} /\ db.organization[q] # Absent
      BY <1>1, <1>2, <2>6, <3>1 DEF WriterInv, Changes
    <3> QED BY <1>1, <3>2
  <2> QED BY <2>2, <2>3, <2>4, <2>5, <2>6
<1> QED BY <1>3, <1>4

\* An organization it wrote without an issuer is nobody else's, or has the last word.
LEMMA OrganizationIs ==
  ASSUME MigrationInv, NEW w \in Writer, DOMAIN mine[w].issuer = {}
  PROVE  /\ \A p \in DOMAIN mine[w].ahead : mine[w].ahead[p] = TRUE
         /\ \A p \in DOMAIN mine[w].organization :
              p \in DOMAIN mine[w].ahead \/ db.organization[p] = Absent
<1> USE DEF MigrationInv
<1>1. PICK m : m = mine[w]
  OBVIOUS
<1>2. PICK o : o = doing[w]
  OBVIOUS
<1>3. CASE m = Nothing
  <2>1. DOMAIN m.organization = {} /\ DOMAIN m.ahead = {}
    BY <1>3, NothingIs DEF Field
  <2> QED BY <1>1, <2>1
<1>4. CASE m # Nothing
  <2>1. step[w] \in {"second", "commit"} /\ o.op # "nothing"
    BY <1>1, <1>2, <1>4 DEF WriterInv, Statements, Shapes
  <2>2. o.op = "record" \/
          (step[w] = "commit" /\ o.op \in {"insert_issuer", "update_issuer", "insert_organization",
                                           "update_organization"})
    BY <1>1, <1>2, <2>1, OpIs DEF WriterInv, Statements
  <2>3. CASE o.op = "record"
    <3>1. DOMAIN m.organization = {} /\ DOMAIN m.ahead = {}
      BY <1>1, <1>2, <2>3 DEF WriterInv, Records
    <3> QED BY <1>1, <3>1
  <2>4. CASE step[w] = "commit" /\ o.op \in {"insert_issuer", "update_issuer"}
    <3>1. PICK q : q = o.party
      OBVIOUS
    <3>2. DOMAIN m.issuer = {q}
      BY <1>1, <1>2, <2>4, <3>1 DEF WriterInv, Issuers
    <3> QED BY <1>1, <3>2
  <2>5. CASE step[w] = "commit" /\ o.op = "insert_organization"
    <3>1. PICK q : q = o.party
      OBVIOUS
    <3>2. DOMAIN m.ahead = {} /\ DOMAIN m.organization = {q} /\ db.organization[q] = Absent
      BY <1>1, <1>2, <2>5, <3>1 DEF WriterInv, Organizations
    <3> QED BY <1>1, <3>2
  <2>6. CASE step[w] = "commit" /\ o.op = "update_organization"
    <3>1. PICK q : q = o.party
      OBVIOUS
    <3>2. DOMAIN m.ahead = {q} /\ m.ahead[q] = TRUE /\ DOMAIN m.organization = {q}
      BY <1>1, <1>2, <2>6, <3>1 DEF WriterInv, Changes
    <3> QED BY <1>1, <3>2
  <2> QED BY <2>2, <2>3, <2>4, <2>5, <2>6
<1> QED BY <1>3, <1>4

\* What a writer's commit changes of what is committed: no party and no row is lost.
LEMMA FinishIs ==
  ASSUME MigrationInv, NEW w \in Writer, db' = View(w)
  PROVE  /\ Database(db')
         /\ \A p \in Party :
              /\ db'.issuer[p] = IF p \in DOMAIN mine[w].issuer THEN mine[w].issuer[p] ELSE db.issuer[p]
              /\ db'.organization[p] = IF p \in DOMAIN mine[w].organization
                                       THEN mine[w].organization[p] ELSE db.organization[p]
              /\ db'.ahead[p] = IF p \in DOMAIN mine[w].ahead THEN mine[w].ahead[p] ELSE db.ahead[p]
              /\ db.issuer[p] # Absent => db'.issuer[p] # Absent
              /\ db.organization[p] # Absent => db'.organization[p] # Absent
         /\ Known(db) \subseteq Known(db)'
         /\ \A r \in Row : db'.row[r] = IF r \in DOMAIN mine[w].row THEN mine[w].row[r] ELSE db.row[r]
         /\ \A r \in Row : db.row[r] # Absent => db'.row[r] = db.row[r]
         /\ \A g \in Guard : db'.guard[g] = db.guard[g]
<1> USE DEF MigrationInv
<1>1. w \in Tx
  BY DEF Tx
<1>2. /\ Database(db')
      /\ \A p \in Party :
           /\ db'.issuer[p] = IF p \in DOMAIN mine[w].issuer THEN mine[w].issuer[p] ELSE db.issuer[p]
           /\ db'.organization[p] = IF p \in DOMAIN mine[w].organization
                                    THEN mine[w].organization[p] ELSE db.organization[p]
           /\ db'.ahead[p] = IF p \in DOMAIN mine[w].ahead THEN mine[w].ahead[p] ELSE db.ahead[p]
      /\ \A r \in Row : db'.row[r] = IF r \in DOMAIN mine[w].row THEN mine[w].row[r] ELSE db.row[r]
      /\ \A g \in Guard : db'.guard[g] =
           IF g \in DOMAIN mine[w].guard THEN mine[w].guard[g] ELSE db.guard[g]
  BY <1>1, ViewIs
<1>3. /\ DOMAIN mine[w].guard = {}
      /\ \A p \in DOMAIN mine[w].issuer : mine[w].issuer[p] # Absent
      /\ \A p \in DOMAIN mine[w].organization : mine[w].organization[p] # Absent
      /\ \A r \in DOMAIN mine[w].row : db.row[r] = Absent
  BY WrittenIs
<1>4. \A p \in Party : /\ db.issuer[p] # Absent => db'.issuer[p] # Absent
                       /\ db.organization[p] # Absent => db'.organization[p] # Absent
  BY <1>2, <1>3
<1>5. Known(db) \subseteq Known(db)'
  BY <1>4 DEF Known
<1>6. \A r \in Row : db.row[r] # Absent => db'.row[r] = db.row[r]
  BY <1>2, <1>3
<1>7. \A g \in Guard : db'.guard[g] = db.guard[g]
  BY <1>2, <1>3
<1> QED BY <1>2, <1>4, <1>5, <1>6, <1>7

\* What is committed stays sound.
LEMMA FinishSound ==
  ASSUME MigrationInv, NEW w \in Writer, db' = View(w), stage' = stage
  PROVE  Sound'
<1> USE DEF MigrationInv
<1>1. \A r \in Row : db'.row[r] # Absent =>
        /\ Good(db'.row[r]) /\ (InStep => Moved(db'.row[r]))
        /\ db'.row[r].party # NoParty => db'.row[r].party \in Known(db)
  <2> SUFFICES ASSUME NEW r \in Row, db'.row[r] # Absent
               PROVE  /\ Good(db'.row[r]) /\ (InStep => Moved(db'.row[r]))
                      /\ db'.row[r].party # NoParty => db'.row[r].party \in Known(db)
    OBVIOUS
  <2>1. CASE r \in DOMAIN mine[w].row
    <3>1. db'.row[r] = mine[w].row[r]
      BY <2>1, FinishIs
    <3> QED BY <2>1, <3>1, WrittenIs
  <2>2. CASE r \notin DOMAIN mine[w].row
    <3>1. db'.row[r] = db.row[r]
      BY <2>2, FinishIs
    <3> QED BY <3>1 DEF Sound, TheRecordsAgree, Moved
  <2> QED BY <2>1, <2>2
<1>2. Known(db) \subseteq Known(db)' /\ \A g \in Guard : db'.guard[g]
  BY FinishIs DEF Sound
<1>3. InStep' <=> InStep
  BY DEF InStep
<1>4. ASSUME InStep PROVE TheRecordsAgree'
  <2>1. ASSUME NEW p \in Party, db'.issuer[p] # Absent
        PROVE  /\ db'.organization[p] # Absent
               /\ db'.organization[p] # db'.issuer[p] => db'.ahead[p] = TRUE
    <3> DEFINE m == mine[w]
    <3>1. /\ db'.issuer[p] = IF p \in DOMAIN m.issuer THEN m.issuer[p] ELSE db.issuer[p]
          /\ db'.organization[p] =
               IF p \in DOMAIN m.organization THEN m.organization[p] ELSE db.organization[p]
          /\ db'.ahead[p] = IF p \in DOMAIN m.ahead THEN m.ahead[p] ELSE db.ahead[p]
      BY FinishIs
    <3>2. /\ p \in DOMAIN m.issuer /\ p \in DOMAIN m.organization =>
               m.organization[p] = m.issuer[p]
          /\ p \in DOMAIN m.issuer /\ p \notin DOMAIN m.organization =>
               db.organization[p] # Absent /\ p \in DOMAIN m.ahead /\ m.ahead[p] = TRUE
          /\ p \notin DOMAIN m.issuer /\ p \in DOMAIN m.organization =>
               db.issuer[p] = Absent \/ p \in DOMAIN m.ahead
          /\ p \notin DOMAIN m.issuer /\ p \in DOMAIN m.ahead =>
               m.ahead[p] = TRUE /\ db.organization[p] # Absent
      BY <1>4, WrittenInStep
    <3>3. db.issuer[p] # Absent =>
            /\ db.organization[p] # Absent
            /\ db.organization[p] # db.issuer[p] => db.ahead[p] = TRUE
      <4>1. db.ahead[p] \in BOOLEAN
        BY DEF Shapes, Database
      <4> QED BY <1>4, <4>1 DEF Sound, TheRecordsAgree, Unmatched, Disagreeing
    <3>4. db.organization[p] # Absent => db'.organization[p] # Absent
      BY FinishIs
    <3> QED BY <2>1, <3>1, <3>2, <3>3, <3>4
  <2>2. Unmatched(db)' = {} /\ \A p \in Disagreeing(db)' : db'.ahead[p]
    BY <2>1 DEF Unmatched, Disagreeing
  <2>3. \A r \in Row : db'.row[r] # Absent => Moved(db'.row[r])
    BY <1>1, <1>4
  <2>4. Unmoved(db)' = {}
    BY <2>3 DEF Unmoved, Moved
  <2> QED BY <2>2, <2>3, <2>4 DEF TheRecordsAgree, Moved
<1>5. TheRecordsAgree'
  BY <1>3, <1>4 DEF TheRecordsAgree
<1>6. \A r \in Row : db'.row[r] # Absent =>
        /\ Good(db'.row[r])
        /\ db'.row[r].party # NoParty => db'.row[r].party \in Known(db)'
  BY <1>1, <1>2
<1> QED BY <1>2, <1>5, <1>6 DEF Sound

\* What a migration in flight verified is still so: of what it read, nothing is committed.
LEMMA FinishMigrator ==
  ASSUME MigrationInv, NEW w \in Writer, db' = View(w), stage' = stage, ran' = ran,
         mine'[Migrator] = mine[Migrator], held'[Migrator] = held[Migrator],
         step'[Migrator] = step[Migrator], step[w] = "commit", Sound'
  PROVE  MigratorInv'
<1> USE DEF MigrationInv
<1>1. PICK m : m = mine[Migrator]
  OBVIOUS
<1>2. PICK k : k = step[Migrator]
  OBVIOUS
<1>3. /\ Migration' = Migration /\ Current' = Current
      /\ Current \in 0 .. 4 /\ stage \in 0 .. 4 /\ stage <= Current
  BY CurrentIs
<1>4. Migrator \in Tx /\ w \in Tx /\ w # Migrator /\ Draft(m)
  BY <1>1, MigrationAssumption DEF Tx, Shapes
<1>5. (Stepped' <=> Stepped) /\ (Dropped' <=> Dropped)
  BY <1>3 DEF Stepped, Dropped
<1>6. /\ \A p \in Party :
           /\ Here.issuer[p] = IF p \in DOMAIN m.issuer THEN m.issuer[p] ELSE db.issuer[p]
           /\ Here.organization[p] = IF p \in DOMAIN m.organization THEN m.organization[p]
                                     ELSE db.organization[p]
           /\ Here.ahead[p] = IF p \in DOMAIN m.ahead THEN m.ahead[p] ELSE db.ahead[p]
      /\ \A r \in Row : Here.row[r] = IF r \in DOMAIN m.row THEN m.row[r] ELSE db.row[r]
      /\ \A g \in Guard : Here.guard[g] = IF g \in DOMAIN m.guard THEN m.guard[g] ELSE db.guard[g]
  BY <1>1, <1>4, ViewIs DEF Here
<1>7. /\ \A p \in Party :
           /\ Here'.issuer[p] = IF p \in DOMAIN m.issuer THEN m.issuer[p] ELSE db'.issuer[p]
           /\ Here'.organization[p] = IF p \in DOMAIN m.organization THEN m.organization[p]
                                      ELSE db'.organization[p]
           /\ Here'.ahead[p] = IF p \in DOMAIN m.ahead THEN m.ahead[p] ELSE db'.ahead[p]
      /\ \A r \in Row : Here'.row[r] = IF r \in DOMAIN m.row THEN m.row[r] ELSE db'.row[r]
      /\ \A g \in Guard : Here'.guard[g] = IF g \in DOMAIN m.guard THEN m.guard[g] ELSE db'.guard[g]
  <2>1. Draft(m) /\ Database(db')
    BY <1>4, FinishIs
  <2>2. \A f \in Field : Here'[f] = Onto(m[f], db'[f])
    BY <1>1, <2>1 DEF Here, View, Database
  <2>3. /\ Here'.issuer = Onto(m.issuer, db'.issuer)
        /\ Here'.organization = Onto(m.organization, db'.organization)
        /\ Here'.ahead = Onto(m.ahead, db'.ahead)
        /\ Here'.row = Onto(m.row, db'.row) /\ Here'.guard = Onto(m.guard, db'.guard)
    BY <2>2 DEF Field
  <2> QED BY <2>1, <2>3 DEF Onto, Database, Draft
<1>8. ASSUME (stage < 2 /\ Stepped) \/ Dropped
      PROVE  DOMAIN mine[w].issuer = {} /\ DOMAIN mine[w].row = {}
  <2>1. (stage < 2 /\ Stepped) \/ (Current = 3 /\ step[Migrator] > 5)
    <3>1. step[Migrator] \in 0 .. 11
      BY DEF Shapes
    <3> QED BY <1>8, <3>1 DEF Dropped
  <2>2. <<"issuer", "row_exclusive">> \notin held[w] /\ <<"product", "row_exclusive">> \notin held[w]
    BY <2>1, TakenSoFar
  <2> QED BY <2>2, WrittenIs
<1>9. Taken'
  <2>1. \A r \in DOMAIN m.row : /\ db'.row[r] # Absent
                                /\ m.row[r].party = db'.row[r].party /\ Good(m.row[r])
    <3>1. \A r \in DOMAIN m.row : r \in Row
      BY <1>4 DEF Draft
    <3> QED BY <1>1, <3>1, FinishIs DEF MigratorInv, Taken
  <2>2. Dropped => \A r \in Row : db'.row[r] # Absent => r \in DOMAIN m.row
    <3> SUFFICES ASSUME Dropped, NEW r \in Row, db'.row[r] # Absent PROVE r \in DOMAIN m.row
      OBVIOUS
    <3>1. db'.row[r] = db.row[r]
      BY <1>8, FinishIs
    <3> QED BY <1>1, <3>1 DEF MigratorInv, Taken
  <2>3. /\ k = 0 => m = Nothing /\ ran = 0
        /\ k > 0 => Current < 4 /\ k \in 1 .. Len(Migration) + 1
        /\ \A j \in DOMAIN Migration :
             j < k /\ Migration[j].do = "lock" => Migration[j].locks \subseteq held[Migrator]
        /\ stage < 2 /\ Current \in {2, 3} =>
             /\ <<"issuer", "share_row_exclusive">> \in held[Migrator]
             /\ <<"product", "share_row_exclusive">> \in held[Migrator]
        /\ ~Dropped => DOMAIN m.issuer = {} /\ DOMAIN m.ahead \subseteq DOMAIN m.organization
        /\ (stage >= 2 /\ ~Dropped) => Bare(m)
        /\ Dropped =>
             /\ DOMAIN m.issuer = Party /\ \A p \in Party : m.issuer[p] = Absent
             /\ stage >= 2 => DOMAIN m.organization = {} /\ DOMAIN m.guard = {}
             /\ \A r \in DOMAIN m.row : m.row[r].issuer = NoParty
    BY <1>1, <1>2 DEF MigratorInv, Taken
  <2>4. mine'[Migrator] = m /\ held'[Migrator] = held[Migrator] /\ step'[Migrator] = k
    BY <1>1, <1>2
  <2> QED BY <1>3, <1>5, <2>1, <2>2, <2>3, <2>4 DEF Taken
<1>10. (Current = 0 /\ k = 11) \/ Stepped => Guarded(Here)'
  <2>1. (Current = 0 /\ k = 11) \/ Stepped => Guarded(Here)
    BY <1>2 DEF MigratorInv, Checked
  <2> QED BY <1>6, <1>7, <2>1, FinishIs DEF Guarded
<1>11. ASSUME Stepped, NEW p \in Party
       PROVE  /\ db'.issuer[p] # Absent => Here'.organization[p] # Absent
              /\ (~Dropped /\ db'.issuer[p] # Absent /\ Here'.organization[p] # db'.issuer[p])
                   => Here'.ahead[p] = TRUE
  <2>1. CASE stage >= 2 /\ ~Dropped
    <3>1. DOMAIN m.organization = {} /\ DOMAIN m.ahead = {}
      BY <1>1, <2>1 DEF MigratorInv, Taken, Bare, Field
    <3>2. Here'.organization[p] = db'.organization[p] /\ Here'.ahead[p] = db'.ahead[p]
      BY <1>7, <3>1
    <3>3. InStep'
      BY <1>3, <1>11, <2>1 DEF InStep, Stepped
    <3>4. db'.ahead[p] \in BOOLEAN
      BY FinishIs DEF Database
    <3> QED BY <3>2, <3>3, <3>4 DEF Sound, TheRecordsAgree, Unmatched, Disagreeing
  <2>2. CASE stage < 2 \/ Dropped
    <3>1. DOMAIN mine[w].issuer = {}
      BY <1>8, <1>11, <2>2
    <3>2. /\ \A q \in DOMAIN mine[w].ahead : mine[w].ahead[q] = TRUE
          /\ \A q \in DOMAIN mine[w].organization :
               q \in DOMAIN mine[w].ahead \/ db.organization[q] = Absent
      BY <3>1, OrganizationIs
    <3>3. /\ db'.issuer[p] = db.issuer[p]
          /\ db'.organization[p] = IF p \in DOMAIN mine[w].organization
                                   THEN mine[w].organization[p] ELSE db.organization[p]
          /\ db'.ahead[p] = IF p \in DOMAIN mine[w].ahead THEN mine[w].ahead[p] ELSE db.ahead[p]
          /\ db.organization[p] # Absent => db'.organization[p] # Absent
      BY <3>1, FinishIs
    <3>4. /\ db.issuer[p] # Absent => Here.organization[p] # Absent
          /\ (~Dropped /\ db.issuer[p] # Absent /\ Here.organization[p] # db.issuer[p])
               => Here.ahead[p] = TRUE
      BY <1>11 DEF MigratorInv, Checked
    <3>5. p \in DOMAIN mine[w].organization => p \notin DOMAIN m.organization
      BY <1>1, <1>4, Theirs
    <3>6. ~Dropped => DOMAIN m.ahead \subseteq DOMAIN m.organization
      BY <1>1 DEF MigratorInv, Taken
    <3>7. CASE p \in DOMAIN mine[w].organization
      BY <1>6, <1>7, <3>2, <3>3, <3>4, <3>5, <3>6, <3>7
    <3>8. CASE p \notin DOMAIN mine[w].organization
      BY <1>6, <1>7, <3>2, <3>3, <3>4, <3>8
    <3> QED BY <3>7, <3>8
  <2>3. (stage >= 2 /\ ~Dropped) \/ (stage < 2 \/ Dropped)
    BY <1>3
  <2> QED BY <2>1, <2>2, <2>3
<1>12. ASSUME Stepped, NEW r \in Row, Here'.row[r] # Absent PROVE Moved(Here'.row[r])
  <2>1. CASE stage >= 2 /\ ~Dropped
    <3>1. DOMAIN m.row = {}
      BY <1>1, <2>1 DEF MigratorInv, Taken, Bare, Field
    <3>2. Here'.row[r] = db'.row[r] /\ InStep'
      BY <1>3, <1>7, <1>12, <2>1, <3>1 DEF InStep, Stepped
    <3> QED BY <1>12, <3>2 DEF Sound, TheRecordsAgree, Moved
  <2>2. CASE stage < 2 \/ Dropped
    <3>1. DOMAIN mine[w].row = {}
      BY <1>8, <1>12, <2>2
    <3>2. Here'.row[r] = Here.row[r]
      BY <1>6, <1>7, <3>1, FinishIs
    <3> QED BY <1>12, <3>2 DEF MigratorInv, Checked
  <2> QED BY <1>3, <2>1, <2>2
<1>13. Checked'
  BY <1>2, <1>3, <1>5, <1>10, <1>11, <1>12 DEF Checked
<1> QED BY <1>9, <1>13 DEF MigratorInv

\* What another writer has in flight is not touched by the commit.
LEMMA FinishWriter ==
  ASSUME MigrationInv, NEW w \in Writer, db' = View(w), stage' = stage,
         NEW v \in Writer, v # w, mine'[v] = mine[v], held'[v] = held[v],
         step'[v] = step[v], doing'[v] = doing[v]
  PROVE  WriterInv(v)'
<1> USE DEF MigrationInv
<1>1. (InStep' <=> InStep) /\ (IssuerHere' <=> IssuerHere) /\ v \in Tx /\ w \in Tx
  BY DEF InStep, IssuerHere, Tx
<1>2. Known(db) \subseteq Known(db)'
  BY FinishIs
<1>3. PICK m : m = mine[v]
  OBVIOUS
<1>4. PICK o : o = doing[v]
  OBVIOUS
<1>5. mine'[v] = m /\ doing'[v] = o
  BY <1>3, <1>4
<1>6. Statements(v)'
  BY DEF WriterInv, Statements
<1>7. Records(v)'
  <2> SUFFICES ASSUME o.op = "record" PROVE Records(v)'
    BY <1>4 DEF Records
  <2>1. /\ db.row[o.product] = Absent /\ db.row[o.event] = Absent
        /\ DOMAIN m.issuer = {} /\ DOMAIN m.organization = {} /\ DOMAIN m.ahead = {}
        /\ DOMAIN m.row \subseteq {o.product, o.event}
        /\ step[v] \in {"second", "commit"} => <<"product", "row_exclusive">> \in held[v]
        /\ \A r \in DOMAIN m.row :
             /\ Good(m.row[r]) /\ (InStep => Moved(m.row[r]))
             /\ m.row[r].party # NoParty => m.row[r].party \in Known(db)
    BY <1>3, <1>4 DEF WriterInv, Records
  <2>2. o.product \in Row /\ o.event \in Row
    BY <1>4, OpIs
  <2>3. \A r \in {o.product, o.event} : r \notin DOMAIN mine[w].row
    <3>1. CASE doing[w].op = "record"
      <4>1. DOMAIN mine[w].row \subseteq {doing[w].product, doing[w].event}
        BY <3>1 DEF WriterInv, Records
      <4> QED BY <1>4, <3>1, <4>1 DEF Apart, RecordsApart
    <3>2. CASE doing[w].op # "record"
      <4>1. DOMAIN mine[w].row = {}
        <5>1. PICK d : d = doing[w]
          OBVIOUS
        <5>2. CASE d.op = "nothing"
          <6>1. mine[w] = Nothing
            BY <5>1, <5>2 DEF WriterInv, Statements, Shapes
          <6> QED BY <6>1, NothingIs DEF Field
        <5>3. CASE d.op # "nothing" /\ step[w] # "commit"
          <6>1. mine[w] = Nothing
            BY <3>2, <5>1, <5>3 DEF WriterInv, Statements, Shapes
          <6> QED BY <6>1, NothingIs DEF Field
        <5>4. CASE d.op # "nothing" /\ step[w] = "commit"
          <6>1. d.op \in {"insert_issuer", "update_issuer", "insert_organization",
                         "update_organization"}
            BY <3>2, <5>1, <5>4, OpIs
          <6> QED BY <5>1, <5>4, <6>1 DEF WriterInv, Issuers, Organizations, Changes
        <5> QED BY <5>2, <5>3, <5>4
      <4> QED BY <4>1
    <3> QED BY <3>1, <3>2
  <2>4. db'.row[o.product] = Absent /\ db'.row[o.event] = Absent
    BY <2>1, <2>2, <2>3, FinishIs
  <2>5. \A r \in DOMAIN m.row :
          /\ Good(m.row[r]) /\ (InStep' => Moved(m.row[r]))
          /\ m.row[r].party # NoParty => m.row[r].party \in Known(db)'
    BY <1>1, <1>2, <2>1
  <2> QED BY <1>5, <2>1, <2>4, <2>5 DEF Records
<1>8. Issuers(v)'
  <2> SUFFICES ASSUME step[v] = "commit", o.op \in {"insert_issuer", "update_issuer"}
               PROVE  Issuers(v)'
    BY <1>4 DEF Issuers
  <2>1. PICK p, s : p = o.party /\ s = o.standing
    OBVIOUS
  <2>2. /\ IssuerHere /\ <<"issuer", "row_exclusive">> \in held[v]
        /\ DOMAIN m.issuer = {p} /\ m.issuer[p] = s /\ DOMAIN m.row = {}
        /\ DOMAIN m.organization \subseteq {p} /\ DOMAIN m.ahead \subseteq {p}
        /\ ~InStep => DOMAIN m.organization = {}
        /\ (InStep /\ p \in DOMAIN m.organization) => m.organization[p] = s
        /\ (InStep /\ p \notin DOMAIN m.organization) =>
             db.organization[p] # Absent /\ p \in DOMAIN m.ahead /\ m.ahead[p] = TRUE
    BY <1>3, <1>4, <2>1 DEF WriterInv, Issuers
  <2>3. p \in Party
    BY <1>4, <2>1, OpIs
  <2>4. db.organization[p] # Absent => db'.organization[p] # Absent
    BY <2>3, FinishIs
  <2> QED BY <1>1, <1>5, <2>1, <2>2, <2>4 DEF Issuers
<1>9. Organizations(v)'
  <2> SUFFICES ASSUME step[v] = "commit", o.op = "insert_organization"
               PROVE  Organizations(v)'
    BY <1>4 DEF Organizations
  <2>1. PICK p : p = o.party
    OBVIOUS
  <2>2. /\ DOMAIN m.issuer = {} /\ DOMAIN m.ahead = {} /\ DOMAIN m.row = {}
        /\ DOMAIN m.organization = {p} /\ db.organization[p] = Absent
        /\ InStep => db.issuer[p] = Absent
    BY <1>3, <1>4, <2>1 DEF WriterInv, Organizations
  <2>3. p \in Party
    BY <1>4, <2>1, OpIs
  <2>4. p \notin DOMAIN mine[w].organization
    BY <1>1, <1>3, <2>2, Theirs
  <2>5. db'.organization[p] = Absent
    BY <2>2, <2>3, <2>4, FinishIs
  <2>6. ASSUME InStep PROVE db'.issuer[p] = Absent
    <3>1. p \notin DOMAIN mine[w].issuer
      BY <2>2, <2>3, <2>4, <2>6, WrittenInStep
    <3> QED BY <2>2, <2>3, <2>6, <3>1, FinishIs
  <2> QED BY <1>1, <1>5, <2>1, <2>2, <2>5, <2>6 DEF Organizations
<1>10. Changes(v)'
  <2>1. \A p : db.organization[p] # Absent
          /\ doing[v].op = "update_organization" /\ p = doing[v].party => db'.organization[p] # Absent
    <3>1. doing[v].op = "update_organization" => doing[v].party \in Party
      BY OpIs
    <3> QED BY <3>1, FinishIs
  <2> QED BY <2>1, ChangesStay DEF WriterInv
<1> QED BY <1>6, <1>7, <1>8, <1>9, <1>10 DEF WriterInv

\* Finish: a writer commits.
LEMMA FinishKeeps ==
  ASSUME MigrationInv, NEW w \in Writer, Finish(w) PROVE MigrationInv'
<1> USE DEF MigrationInv
<1>1. w \in Tx /\ Ends(w) /\ Shapes /\ LocksApart /\ PartiesApart /\ step[w] = "commit"
  BY DEF Tx, Finish, Apart
<1>2. /\ db' = View(w) /\ mine' = [mine EXCEPT ![w] = Nothing] /\ held' = [held EXCEPT ![w] = {}]
      /\ stage' = stage /\ ran' = ran
  BY DEF Finish, CommitOf
<1>3. /\ DOMAIN mine' = Tx /\ mine'[w] = Nothing /\ \A u \in Tx \ {w} : mine'[u] = mine[u]
      /\ held' \in [Tx -> SUBSET (Table \X Mode)]
      /\ held'[w] = {} /\ \A u \in Tx \ {w} : held'[u] = held[u]
      /\ LocksApart' /\ PartiesApart'
  BY <1>1, <1>2, OverIs
<1>4. /\ doing' \in [Writer -> Ops \cup {Idle}] /\ doing'[w].op = "nothing"
      /\ \A v \in Writer \ {w} : doing'[v] = doing[v]
      /\ DOMAIN step' = Tx /\ step'[w] = "idle" /\ \A u \in Tx \ {w} : step'[u] = step[u]
      /\ RecordsApart'
  BY <1>1, EndsIs
<1>5. Migrator \in Tx \ {w} /\ \A v \in Writer : v # Migrator /\ v \in Tx
  BY MigrationAssumption DEF Tx
<1>6. Shapes'
  <2>1. \A t \in Tx : Draft(mine'[t])
    BY <1>3, NothingIs DEF Shapes
  <2>2. \A t \in Tx : AtRest(t)' => mine'[t] = Nothing /\ held'[t] = {}
    BY <1>3, <1>4, <1>5 DEF Shapes, AtRest
  <2>3. Database(db')
    BY <1>2, FinishIs
  <2>4. /\ \A v \in Writer : step'[v] \in {"idle", "first", "second", "commit"}
        /\ step'[Migrator] \in 0 .. 11
    BY <1>4, <1>5 DEF Shapes
  <2> QED BY <1>2, <1>3, <1>4, <2>1, <2>2, <2>3, <2>4 DEF Shapes
<1>7. Sound'
  BY <1>2, FinishSound
<1>8. MigratorInv'
  BY <1>1, <1>2, <1>3, <1>4, <1>5, <1>7, FinishMigrator
<1>9. \A v \in Writer : WriterInv(v)'
  <2>1. WriterInv(w)'
    BY <1>3, <1>4, IdleKeeps
  <2>2. \A v \in Writer : v # w => WriterInv(v)'
    BY <1>2, <1>3, <1>4, <1>5, FinishWriter
  <2> QED BY <2>1, <2>2
<1> QED BY <1>3, <1>4, <1>6, <1>7, <1>8, <1>9 DEF Apart

-----------------------------------------------------------------------------
(***************************************************************************)
(* The statements of a migration.                                          *)
(***************************************************************************)

\* A migration's step is judged by what it locked, wrote and verified.
LEMMA MigratorStepKeeps ==
  ASSUME MigrationInv, Alone(Migrator), ran' \in 0 .. 3, stage + ran' <= 4,
         DOMAIN mine' = Tx, DOMAIN step' = Tx, held' \in [Tx -> SUBSET (Table \X Mode)],
         Draft(mine'[Migrator]), step'[Migrator] \in 0 .. 11,
         step'[Migrator] = 0 => mine'[Migrator] = Nothing /\ held'[Migrator] = {},
         LocksApart', PartiesApart', MigratorInv'
  PROVE  MigrationInv'
<1> USE DEF MigrationInv
<1>1. /\ db' = db /\ stage' = stage
      /\ \A u \in Tx \ {Migrator} : mine'[u] = mine[u] /\ held'[u] = held[u] /\ step'[u] = step[u]
      /\ doing' = doing
  BY DEF Alone, Beside
<1>2. \A w \in Writer : w \in Tx \ {Migrator}
  BY MigrationAssumption DEF Tx
<1>3. Shapes'
  <2>1. \A t \in Tx : Draft(mine'[t])
    BY <1>1 DEF Shapes
  <2>2. \A t \in Tx : AtRest(t)' => mine'[t] = Nothing /\ held'[t] = {}
    BY <1>1, <1>2 DEF Shapes, AtRest
  <2> QED BY <1>1, <1>2, <2>1, <2>2 DEF Shapes
<1>4. Sound'
  BY <1>1 DEF Sound, TheRecordsAgree, InStep, Unmatched, Unmoved, Disagreeing, Known
<1>5. ASSUME NEW v \in Writer PROVE WriterInv(v)'
  <2>1. /\ mine'[v] = mine[v] /\ held'[v] = held[v] /\ step'[v] = step[v] /\ doing'[v] = doing[v]
        /\ db' = db
    BY <1>1, <1>2
  <2>2. (InStep' <=> InStep) /\ (IssuerHere' <=> IssuerHere) /\ Known(db)' = Known(db)
    BY <1>1 DEF InStep, IssuerHere, Known
  <2>3. Statements(v)'
    BY <2>1 DEF WriterInv, Statements
  <2>4. Records(v)'
    BY <2>1, <2>2 DEF WriterInv, Records
  <2>5. Issuers(v)'
    BY <2>1, <2>2, IssuersStay DEF WriterInv
  <2>6. Organizations(v)'
    BY <2>1, <2>2 DEF WriterInv, Organizations
  <2>7. Changes(v)'
    BY <2>1, ChangesStay DEF WriterInv
  <2> QED BY <2>3, <2>4, <2>5, <2>6, <2>7 DEF WriterInv
<1>6. RecordsApart'
  BY <1>1 DEF Apart, RecordsApart
<1> QED BY <1>3, <1>4, <1>5, <1>6 DEF Apart

\* A migration sees what it wrote, and else what is committed.
LEMMA HereIs ==
  ASSUME MigrationInv
  PROVE  LET m == mine[Migrator]
         IN /\ \A p \in Party :
                 /\ Here.issuer[p] = IF p \in DOMAIN m.issuer THEN m.issuer[p] ELSE db.issuer[p]
                 /\ Here.organization[p] = IF p \in DOMAIN m.organization THEN m.organization[p]
                                           ELSE db.organization[p]
                 /\ Here.ahead[p] = IF p \in DOMAIN m.ahead THEN m.ahead[p] ELSE db.ahead[p]
            /\ \A r \in Row : Here.row[r] = IF r \in DOMAIN m.row THEN m.row[r] ELSE db.row[r]
            /\ \A g \in Guard :
                 Here.guard[g] = IF g \in DOMAIN m.guard THEN m.guard[g] ELSE db.guard[g]
            /\ Database(Here)
            /\ \A r \in Row : Here.row[r] # Absent =>
                 /\ db.row[r] # Absent /\ Here.row[r].party = db.row[r].party /\ Good(Here.row[r])
                 /\ Here.row[r] \in RowType
<1>1. Migrator \in Tx /\ Shapes
  BY DEF Tx, MigrationInv
<1>2. PICK m : m = mine[Migrator]
  OBVIOUS
<1>3. /\ \A p \in Party :
           /\ Here.issuer[p] = IF p \in DOMAIN m.issuer THEN m.issuer[p] ELSE db.issuer[p]
           /\ Here.organization[p] = IF p \in DOMAIN m.organization THEN m.organization[p]
                                     ELSE db.organization[p]
           /\ Here.ahead[p] = IF p \in DOMAIN m.ahead THEN m.ahead[p] ELSE db.ahead[p]
      /\ \A r \in Row : Here.row[r] = IF r \in DOMAIN m.row THEN m.row[r] ELSE db.row[r]
      /\ \A g \in Guard :
           Here.guard[g] = IF g \in DOMAIN m.guard THEN m.guard[g] ELSE db.guard[g]
      /\ Database(Here)
  BY <1>1, <1>2, ViewIs DEF Here
<1>4. \A r \in Row : Here.row[r] # Absent => Here.row[r] \in RowType
  BY <1>3 DEF Database
<1>5. \A r \in DOMAIN m.row : db.row[r] # Absent /\ m.row[r].party = db.row[r].party /\ Good(m.row[r])
  BY <1>2 DEF MigrationInv, MigratorInv, Taken
<1>6. \A r \in Row : db.row[r] # Absent => Good(db.row[r])
  BY DEF MigrationInv, Sound
<1> QED BY <1>2, <1>3, <1>4, <1>5, <1>6

\* What a migration sees, statement by statement, of what is committed.
LEMMA SteppedIs ==
  ASSUME MigrationInv, InStep, NEW p \in Party
  PROVE  /\ db.issuer[p] # Absent => db.organization[p] # Absent
         /\ (db.issuer[p] # Absent /\ db.organization[p] # db.issuer[p]) => db.ahead[p] = TRUE
<1>1. db.ahead[p] \in BOOLEAN
  BY DEF MigrationInv, Shapes, Database
<1> QED BY <1>1 DEF MigrationInv, Sound, TheRecordsAgree, Unmatched, Disagreeing

\* A statement keeps what was locked, and adds to what was written only what it may.
LEMMA MigrationStatementKeeps ==
  ASSUME MigrationInv, NEW what, At(what), NextStatement,
         DOMAIN mine' = Tx, held' \in [Tx -> SUBSET (Table \X Mode)],
         \A u \in Tx \ {Migrator} : mine'[u] = mine[u] /\ held'[u] = held[u],
         held[Migrator] \subseteq held'[Migrator],
         what = "lock" => Migration[step[Migrator]].locks \subseteq held'[Migrator],
         Draft(mine'[Migrator]), LocksApart', PartiesApart',
         \A r \in DOMAIN mine'[Migrator].row :
           /\ db.row[r] # Absent /\ mine'[Migrator].row[r].party = db.row[r].party
           /\ Good(mine'[Migrator].row[r]),
         what # "drop" =>
           /\ ~Dropped => DOMAIN mine'[Migrator].issuer = {}
                          /\ DOMAIN mine'[Migrator].ahead \subseteq DOMAIN mine'[Migrator].organization
           /\ Current \in {2, 3} => mine' = mine,
         what = "verify" => mine' = mine /\ Verified(Here),
         what = "drop" =>
           /\ DOMAIN mine'[Migrator].issuer = Party
           /\ \A p \in Party : mine'[Migrator].issuer[p] = Absent
           /\ mine'[Migrator].organization = mine[Migrator].organization
           /\ mine'[Migrator].guard = mine[Migrator].guard
           /\ \A r \in Row : db.row[r] # Absent => r \in DOMAIN mine'[Migrator].row
           /\ \A r \in DOMAIN mine'[Migrator].row : mine'[Migrator].row[r].issuer = NoParty
  PROVE  MigrationInv'
<1> USE DEF MigrationInv
<1>1. PICK k : k = step[Migrator]
  OBVIOUS
<1>2. PICK m : m = mine[Migrator]
  OBVIOUS
<1>3. db' = db /\ stage' = stage /\ ran' = ran /\ doing' = doing
  BY DEF NextStatement
<1>4. Migrator \in Tx
  BY DEF Tx
<1>5. DOMAIN step' = Tx /\ step'[Migrator] = k + 1 /\ \A u \in Tx \ {Migrator} : step'[u] = step[u]
  BY <1>1, <1>4, GoesIs DEF NextStatement
<1>6. /\ k \in 1 .. Len(Migration) /\ k > 0
      /\ k = 10 => Current < 2 /\ what = "verify"
      /\ what = "drop" => Current = 3 /\ k = 6
      /\ Current = 3 /\ k = 6 => what = "drop"
      /\ (what = "verify" /\ Current < 2) => k = 10
  BY <1>1, WhereIs
<1>7. Current < 4 /\ k \in DOMAIN Migration /\ Migration[k].do = what
  BY <1>1 DEF At
<1>8. /\ Len(Migration) \in 0 .. 10 /\ DOMAIN Migration = 1 .. Len(Migration)
      /\ Current \in 0 .. 3 /\ stage \in 0 .. 3 /\ stage <= Current
  <2>1. Current \in 0 .. 3 /\ stage \in 0 .. 3 /\ stage <= Current
    BY <1>7, CurrentIs
  <2> QED BY <2>1, ZeroIs, OneIs, TwoIs, ThreeIs
<1>9. Migration' = Migration /\ Current' = Current
  BY <1>3, CurrentIs
<1>10. /\ Stepped' <=> (Current = 1 /\ k = 10) \/ Current \in {2, 3}
       /\ Dropped' <=> Current = 3 /\ k + 1 > 6
       /\ Stepped <=> Current \in {2, 3}
       /\ Dropped <=> Current = 3 /\ k > 6
  BY <1>1, <1>5, <1>6, <1>8, <1>9 DEF Stepped, Dropped
<1>11. /\ \A j \in DOMAIN Migration :
            j < k /\ Migration[j].do = "lock" => Migration[j].locks \subseteq held[Migrator]
       /\ stage < 2 /\ Current \in {2, 3} =>
            /\ <<"issuer", "share_row_exclusive">> \in held[Migrator]
            /\ <<"product", "share_row_exclusive">> \in held[Migrator]
       /\ (stage >= 2 /\ ~Dropped) => Bare(m)
       /\ Dropped =>
            /\ DOMAIN m.issuer = Party /\ \A p \in Party : m.issuer[p] = Absent
            /\ stage >= 2 => DOMAIN m.organization = {} /\ DOMAIN m.guard = {}
            /\ \A r \in Row : db.row[r] # Absent => r \in DOMAIN m.row
            /\ \A r \in DOMAIN m.row : m.row[r].issuer = NoParty
  BY <1>1, <1>2 DEF MigratorInv, Taken
<1>12. \A j \in DOMAIN Migration :
         j < k + 1 /\ Migration[j].do = "lock" => Migration[j].locks \subseteq held'[Migrator]
  <2> SUFFICES ASSUME NEW j \in DOMAIN Migration, j < k + 1, Migration[j].do = "lock"
               PROVE  Migration[j].locks \subseteq held'[Migrator]
    OBVIOUS
  <2>1. j = k \/ j < k
    BY <1>6, <1>8
  <2>2. j < k => Migration[j].locks \subseteq held[Migrator]
    BY <1>11
  <2>3. j = k => Migration[j].locks \subseteq held'[Migrator]
    BY <1>1, <1>7
  <2> QED BY <2>1, <2>2, <2>3
<1>13. (stage >= 2 /\ ~Dropped') => Bare(mine'[Migrator])
  <2> SUFFICES ASSUME stage >= 2, ~Dropped' PROVE Bare(mine'[Migrator])
    OBVIOUS
  <2>1. Current \in {2, 3} /\ ~Dropped /\ what # "drop"
    BY <1>6, <1>8, <1>10
  <2> QED BY <1>2, <1>11, <2>1
<1>14. Dropped' =>
         /\ DOMAIN mine'[Migrator].issuer = Party
         /\ \A p \in Party : mine'[Migrator].issuer[p] = Absent
         /\ stage >= 2 => DOMAIN mine'[Migrator].organization = {} /\ DOMAIN mine'[Migrator].guard = {}
         /\ \A r \in Row : db.row[r] # Absent => r \in DOMAIN mine'[Migrator].row
         /\ \A r \in DOMAIN mine'[Migrator].row : mine'[Migrator].row[r].issuer = NoParty
  <2>1. CASE Current = 3 /\ k = 6
    <3>1. stage >= 2 => DOMAIN m.organization = {} /\ DOMAIN m.guard = {}
      BY <1>10, <1>11, <2>1 DEF Bare, Field
    <3> QED BY <1>2, <1>6, <2>1, <3>1
  <2>2. CASE Current = 3 /\ k > 6
    <3>1. mine' = mine
      BY <1>6, <2>2
    <3> QED BY <1>2, <1>10, <1>11, <2>2, <3>1
  <2> QED BY <1>6, <1>8, <1>10, <2>1, <2>2
<1>15. ~Dropped' => /\ DOMAIN mine'[Migrator].issuer = {}
                    /\ DOMAIN mine'[Migrator].ahead \subseteq DOMAIN mine'[Migrator].organization
  BY <1>6, <1>8, <1>10
<1>16. Taken'
  <2>1. k + 1 # 0 /\ k + 1 \in 1 .. Len(Migration) + 1
    BY <1>6, <1>8
  <2>2. stage < 2 /\ Current \in {2, 3} =>
          /\ <<"issuer", "share_row_exclusive">> \in held'[Migrator]
          /\ <<"product", "share_row_exclusive">> \in held'[Migrator]
    BY <1>11
  <2> QED BY <1>3, <1>5, <1>7, <1>9, <1>12, <1>13, <1>14, <1>15, <2>1, <2>2 DEF Taken
<1>17. ASSUME k = 10 PROVE Checked'
  <2>1. what = "verify" /\ Current < 2
    BY <1>6, <1>17
  <2>2. Here' = Here /\ Verified(Here)
    BY <1>3, <2>1 DEF Here, View
  <2>3. Guarded(Here)'
    <3>1. Guarded(Here)
      BY <1>8, <2>1, <2>2 DEF Verified
    <3> QED BY <2>2, <3>1 DEF Guarded
  <2>4. ASSUME Current = 1
        PROVE  /\ \A p \in Party : db.issuer[p] # Absent => Here.organization[p] = db.issuer[p]
               /\ \A r \in Row : Here.row[r] # Absent => Moved(Here.row[r])
    <3>1. Unmatched(Here) = {} /\ Unmoved(Here) = {} /\ Disagreeing(Here) = {}
      BY <2>2, <2>4 DEF Verified
    <3>2. \A p \in Party : Here.issuer[p] = db.issuer[p]
      <4>1. DOMAIN m.issuer = {}
        BY <1>2, <1>10, <2>4 DEF MigratorInv, Taken
      <4> QED BY <1>2, <4>1, HereIs
    <3>3. \A p \in Party : db.issuer[p] # Absent => Here.organization[p] = db.issuer[p]
      BY <3>1, <3>2 DEF Unmatched, Disagreeing
    <3>4. ASSUME NEW r \in Row, Here.row[r] # Absent PROVE Moved(Here.row[r])
      <4>1. Good(Here.row[r])
        BY <3>4, HereIs
      <4>2. ~(Here.row[r].issuer # NoParty /\ Here.row[r].organization = NoParty)
        BY <3>1, <3>4 DEF Unmoved
      <4> QED BY <4>1, <4>2 DEF Good, Moved
    <3> QED BY <3>3, <3>4
  <2>5. Stepped' => Current = 1
    BY <1>10, <2>1
  <2> QED BY <1>3, <2>2, <2>3, <2>4, <2>5 DEF Checked
<1>18. ASSUME k # 10, Current < 2 PROVE Checked'
  <2>1. k \in Nat
    BY <1>6, <1>8
  <2>2. ~Stepped' /\ ~(Current' = 0 /\ step'[Migrator] = 11)
    BY <1>5, <1>8, <1>9, <1>10, <1>18, <2>1
  <2> QED BY <2>2 DEF Checked
<1>19. ASSUME k # 10, Current \in {2, 3}, what # "drop" PROVE Checked'
  <2>1. Here' = Here
    BY <1>3, <1>19 DEF Here, View
  <2>2. Stepped /\ Stepped' /\ (~Dropped' => ~Dropped)
    <3>1. PICK n : n = Len(Migration)
      OBVIOUS
    <3>2. k \in 1 .. n /\ n \in 0 .. 10
      BY <1>6, <1>8, <3>1
    <3> QED BY <1>10, <1>19, <3>2
  <2>3. Guarded(Here)'
    <3>1. Guarded(Here)
      BY <2>2 DEF MigratorInv, Checked
    <3> QED BY <2>1, <3>1 DEF Guarded
  <2> QED BY <1>3, <2>1, <2>2, <2>3 DEF MigratorInv, Checked
<1>20. ASSUME k # 10, Current \in {2, 3}, what = "drop" PROVE Checked'
  <2>1. Stepped /\ Stepped' /\ Dropped'
    BY <1>6, <1>10, <1>20
  <2>2. Draft(mine'[Migrator]) /\ Database(db)
    BY DEF Shapes
  <2>3. \A f \in Field : Here'[f] = Onto(mine'[Migrator][f], db[f])
    BY <1>3, <2>2 DEF Here, View, Database
  <2>4. /\ Here'.organization = Onto(mine'[Migrator].organization, db.organization)
        /\ Here'.row = Onto(mine'[Migrator].row, db.row)
        /\ Here'.guard = Onto(mine'[Migrator].guard, db.guard)
    BY <2>3 DEF Field
  <2>5. /\ \A p \in Party : Here'.organization[p] = Here.organization[p]
        /\ \A g \in Guard : Here'.guard[g] = Here.guard[g]
    <3>1. /\ \A p \in Party : Here'.organization[p] =
               IF p \in DOMAIN m.organization THEN m.organization[p] ELSE db.organization[p]
          /\ \A g \in Guard : Here'.guard[g] =
               IF g \in DOMAIN m.guard THEN m.guard[g] ELSE db.guard[g]
      BY <1>2, <1>20, <2>2, <2>4 DEF Onto, Database
    <3> QED BY <1>2, <3>1, HereIs
  <2>6. ASSUME NEW r \in Row, Here'.row[r] # Absent PROVE Moved(Here'.row[r])
    <3>1. /\ r \in DOMAIN mine'[Migrator].row => Here'.row[r] = mine'[Migrator].row[r]
          /\ r \notin DOMAIN mine'[Migrator].row => Here'.row[r] = db.row[r]
      BY <2>2, <2>4 DEF Onto, Database
    <3>2. r \in DOMAIN mine'[Migrator].row
      BY <1>20, <2>6, <3>1
    <3>3. Here'.row[r].issuer = NoParty
      BY <1>20, <3>1, <3>2
    <3> QED BY <3>3 DEF Moved
  <2>7. Guarded(Here)'
    BY <2>1, <2>5 DEF MigratorInv, Checked, Guarded
  <2> QED BY <1>3, <2>1, <2>5, <2>6, <2>7 DEF MigratorInv, Checked
<1>21. MigratorInv'
  BY <1>8, <1>16, <1>17, <1>18, <1>19, <1>20 DEF MigratorInv
<1>22. Alone(Migrator)
  BY <1>3, <1>5 DEF Alone, Beside
<1>23. step'[Migrator] \in 1 .. 11 /\ ran' \in 0 .. 3 /\ stage + ran' <= 4
  <2>1. ran' \in 0 .. 3 /\ stage + ran' <= 4
    BY <1>3 DEF Shapes
  <2>2. PICK n : n = Len(Migration)
    OBVIOUS
  <2>3. k \in 1 .. n /\ n \in 0 .. 10
    BY <1>6, <1>8, <2>2
  <2> QED BY <1>5, <2>1, <2>3
<1> QED BY <1>5, <1>21, <1>22, <1>23, MigratorStepKeeps

\* A statement that writes nothing.
LEMMA ReadingKeeps ==
  ASSUME MigrationInv, NEW what, At(what), NextStatement, what # "drop", mine' = mine,
         held' \in [Tx -> SUBSET (Table \X Mode)], held[Migrator] \subseteq held'[Migrator],
         \A u \in Tx \ {Migrator} : held'[u] = held[u], LocksApart',
         what = "lock" => Migration[step[Migrator]].locks \subseteq held'[Migrator],
         what = "verify" => Verified(Here)
  PROVE  MigrationInv'
<1> USE DEF MigrationInv
<1>1. Migrator \in Tx /\ DOMAIN mine' = Tx /\ Draft(mine'[Migrator])
  BY DEF Shapes, Tx
<1>2. PartiesApart'
  BY DEF Apart, PartiesApart
<1>3. /\ \A r \in DOMAIN mine'[Migrator].row :
           /\ db.row[r] # Absent /\ mine'[Migrator].row[r].party = db.row[r].party
           /\ Good(mine'[Migrator].row[r])
      /\ ~Dropped => DOMAIN mine'[Migrator].issuer = {}
                     /\ DOMAIN mine'[Migrator].ahead \subseteq DOMAIN mine'[Migrator].organization
  BY DEF MigratorInv, Taken
<1> QED BY <1>1, <1>2, <1>3, MigrationStatementKeeps

\* What is locked stays locked.
LEMMA HeldStays ==
  ASSUME MigrationInv, held' = held
  PROVE  held' \in [Tx -> SUBSET (Table \X Mode)] /\ LocksApart'
<1>1. \A m, n : Conflict(m, n)' = Conflict(m, n)
  BY DEF Conflict
<1> QED BY <1>1 DEF MigrationInv, Shapes, Apart, LocksApart

\* StartMigration: nothing is locked, nothing written.
LEMMA StartKeeps ==
  ASSUME MigrationInv, StartMigration PROVE MigrationInv'
<1> USE DEF MigrationInv
<1>1. /\ stage < 4 /\ step[Migrator] = 0 /\ mine' = mine /\ held' = held
      /\ db' = db /\ stage' = stage /\ ran' = ran /\ doing' = doing
  BY DEF StartMigration, NextStatement
<1>2. Migrator \in Tx
  BY DEF Tx
<1>3. DOMAIN step' = Tx /\ step'[Migrator] = 1 /\ \A u \in Tx \ {Migrator} : step'[u] = step[u]
  BY <1>1, <1>2, GoesIs DEF StartMigration, NextStatement
<1>4. Alone(Migrator)
  BY <1>1, <1>3 DEF Alone, Beside
<1>5. mine'[Migrator] = Nothing /\ ran = 0
  BY <1>1 DEF MigratorInv, Taken
<1>6. Draft(mine'[Migrator]) /\ Bare(mine'[Migrator]) /\ \A f \in Field : DOMAIN mine'[Migrator][f] = {}
  BY <1>5, NothingIs
<1>7. DOMAIN mine'[Migrator].issuer = {} /\ DOMAIN mine'[Migrator].ahead = {}
      /\ DOMAIN mine'[Migrator].row = {}
  BY <1>6 DEF Field
<1>8. /\ Migration' = Migration /\ Len(Migration) \in 1 .. 10 /\ DOMAIN Migration = 1 .. Len(Migration)
      /\ Current' = Current /\ Current = stage /\ stage \in 0 .. 3
  <2>1. stage \in 0 .. 3 /\ Current = stage
    BY <1>1, <1>5 DEF Shapes, Current
  <2>2. Migration' = Migration /\ Current' = Current
    BY <1>1, CurrentIs
  <2> QED BY <2>1, <2>2, ZeroIs, OneIs, TwoIs, ThreeIs
<1>9. (Stepped' <=> stage \in {2, 3}) /\ ~Dropped'
  BY <1>3, <1>8 DEF Stepped, Dropped
<1>10. Taken'
  <2>1. \A j \in DOMAIN Migration : ~(j < 1)
    BY <1>8
  <2> QED BY <1>1, <1>3, <1>5, <1>6, <1>7, <1>8, <1>9, <2>1 DEF Taken
<1>11. Checked'
  <2>1. ASSUME stage \in {2, 3}
        PROVE  /\ \A p \in Party : Here'.organization[p] = db.organization[p]
                                   /\ Here'.ahead[p] = db.ahead[p]
               /\ \A r \in Row : Here'.row[r] = db.row[r]
               /\ \A g \in Guard : Here'.guard[g] = db.guard[g]
    <3>1. Here' = Here
      BY <1>1 DEF Here, View
    <3>2. \A f \in Field : DOMAIN mine[Migrator][f] = {}
      BY <1>1, <1>6
    <3>3. /\ DOMAIN mine[Migrator].organization = {} /\ DOMAIN mine[Migrator].ahead = {}
          /\ DOMAIN mine[Migrator].row = {} /\ DOMAIN mine[Migrator].guard = {}
      BY <3>2 DEF Field
    <3> QED BY <3>1, <3>3, HereIs
  <2>2. ASSUME stage \in {2, 3}, NEW r \in Row, db.row[r] # Absent PROVE Moved(db.row[r])
    BY <2>2 DEF Sound, TheRecordsAgree, InStep, Moved
  <2>3. ASSUME stage \in {2, 3} PROVE Guarded(Here)'
    BY <2>1, <2>3 DEF Guarded, Sound
  <2>4. stage \in {2, 3} => InStep
    BY DEF InStep
  <2>5. step'[Migrator] # 11
    BY <1>3
  <2> QED BY <1>1, <1>9, <2>1, <2>2, <2>3, <2>4, <2>5, SteppedIs DEF Checked
<1>12. LocksApart' /\ PartiesApart' /\ held' \in [Tx -> SUBSET (Table \X Mode)] /\ DOMAIN mine' = Tx
  BY <1>1, HeldStays DEF Apart, PartiesApart, Shapes
<1>13. ran' \in 0 .. 3 /\ stage + ran' <= 4 /\ MigratorInv'
  BY <1>1, <1>10, <1>11 DEF Shapes, MigratorInv
<1> QED BY <1>3, <1>4, <1>6, <1>12, <1>13, MigratorStepKeeps

\* GoOn: the next migration finds the locks and the writes of the one before.
LEMMA GoOnKeeps ==
  ASSUME MigrationInv, GoOn PROVE MigrationInv'
<1> USE DEF MigrationInv
<1>1. PICK m : m = mine[Migrator]
  OBVIOUS
<1>2. PICK k : k = step[Migrator]
  OBVIOUS
<1>3. /\ mine' = mine /\ held' = held /\ db' = db /\ stage' = stage /\ doing' = doing
      /\ ran' = ran + 1 /\ Current < 3 /\ k = Len(Migration) + 1 /\ Migrator \in Tx
  BY <1>2 DEF GoOn, Tx
<1>4. DOMAIN step' = Tx /\ step'[Migrator] = 1 /\ \A u \in Tx \ {Migrator} : step'[u] = step[u]
  BY <1>3, GoesIs DEF GoOn
<1>5. /\ stage \in 0 .. 2 /\ ran \in 0 .. 2 /\ stage + ran = Current /\ Current \in 0 .. 2
      /\ Current' = Current + 1 /\ stage <= Current
  BY <1>3 DEF Shapes, Current
<1>6. (Current = 0 => k = 11) /\ (Current = 1 => k = 11) /\ (Current = 2 => k = 4)
  <2>1. PICK n : n = Len(Migration)
    OBVIOUS
  <2>2. (Current = 0 => n = 10) /\ (Current = 1 => n = 10) /\ (Current = 2 => n = 3)
    BY <2>1, ZeroIs, OneIs, TwoIs
  <2>3. k = n + 1
    BY <1>3, <2>1
  <2> QED BY <2>2, <2>3
<1>7. /\ ~Dropped /\ ~Dropped' /\ (Stepped' <=> Current \in {1, 2}) /\ (Current \in {1, 2} => Stepped)
  <2>1. ~Dropped /\ ~Dropped'
    BY <1>4, <1>5 DEF Dropped
  <2>2. Stepped' <=> Current \in {1, 2}
    BY <1>4, <1>5 DEF Stepped
  <2>3. Current \in {1, 2} => Stepped
    BY <1>2, <1>5, <1>6 DEF Stepped
  <2> QED BY <2>1, <2>2, <2>3
<1>8. Here' = Here
  BY <1>3 DEF Here, View
<1>9. /\ DOMAIN m.issuer = {} /\ DOMAIN m.ahead \subseteq DOMAIN m.organization
      /\ stage >= 2 => Bare(m)
      /\ \A r \in DOMAIN m.row :
           /\ db.row[r] # Absent /\ m.row[r].party = db.row[r].party /\ Good(m.row[r])
  BY <1>1, <1>7 DEF MigratorInv, Taken
<1>10. ASSUME stage < 2, Current \in {1, 2}
       PROVE  /\ <<"issuer", "share_row_exclusive">> \in held[Migrator]
              /\ <<"product", "share_row_exclusive">> \in held[Migrator]
  <2>1. CASE Current = 1
    <3>1. /\ Migration[1].do = "lock" /\ Migration[2].do = "lock"
          /\ 1 \in DOMAIN Migration /\ 2 \in DOMAIN Migration
      BY <2>1, OneIs
    <3>2. 1 < k /\ 2 < k
      BY <1>5, <1>6, <2>1
    <3>3. Migration[1].locks \subseteq held[Migrator] /\ Migration[2].locks \subseteq held[Migrator]
      BY <1>2, <3>1, <3>2 DEF MigratorInv, Taken
    <3> QED BY <2>1, <3>3, OneLocks
  <2>2. CASE Current = 2
    BY <1>10, <2>2 DEF MigratorInv, Taken
  <2> QED BY <1>10, <2>1, <2>2
<1>11. Taken'
  <2>1. PICK c : c = Current + 1 /\ c \in 1 .. 3 /\ Current' = c
    BY <1>5
  <2>2. Len(Migration') \in 1 .. 10 /\ DOMAIN Migration' = 1 .. Len(Migration')
    <3>1. CASE c = 1
      <4>1. Migration' = TheTwoStayInStep
        BY <2>1, <3>1 DEF Migration, TheTwoStayInStep
      <4> QED BY <4>1 DEF TheTwoStayInStep
    <3>2. CASE c = 2
      <4>1. Migration' = ConstraintsFollow
        BY <2>1, <3>2 DEF Migration, ConstraintsFollow
      <4> QED BY <4>1 DEF ConstraintsFollow
    <3>3. CASE c = 3
      <4>1. Migration' = OneIdentityRemains
        BY <2>1, <3>3 DEF Migration, OneIdentityRemains
      <4> QED BY <4>1 DEF OneIdentityRemains
    <3> QED BY <2>1, <3>1, <3>2, <3>3
  <2>3. \A j \in DOMAIN Migration' : ~(j < 1)
    BY <2>2
  <2> QED BY <1>1, <1>3, <1>4, <1>5, <1>7, <1>9, <1>10, <2>1, <2>2, <2>3 DEF Taken
<1>12. Checked'
  <2>1. Stepped => Guarded(Here)
    BY DEF MigratorInv, Checked
  <2>2. Stepped' => Guarded(Here)'
    BY <1>7, <1>8, <2>1 DEF Guarded
  <2>3. Current' # 0
    BY <1>5
  <2> QED BY <1>3, <1>7, <1>8, <2>2, <2>3 DEF MigratorInv, Checked
<1>13. Alone(Migrator)
  BY <1>3, <1>4 DEF Alone, Beside
<1>14. ran' \in 0 .. 3 /\ stage + ran' <= 4 /\ MigratorInv'
  BY <1>3, <1>5, <1>11, <1>12 DEF MigratorInv
<1>15. LocksApart' /\ PartiesApart' /\ held' \in [Tx -> SUBSET (Table \X Mode)]
       /\ DOMAIN mine' = Tx /\ Draft(mine'[Migrator])
  BY <1>3, HeldStays DEF Apart, PartiesApart, Shapes
<1> QED BY <1>4, <1>13, <1>14, <1>15, MigratorStepKeeps

\* LockTables: what it takes conflicts with nothing that is held.
LEMMA LockTablesKeeps ==
  ASSUME MigrationInv, LockTables PROVE MigrationInv'
<1>1. PICK locks : locks = Migration[step[Migrator]].locks
  OBVIOUS
<1>2. /\ At("lock") /\ Lock(Migrator, locks) /\ NextStatement /\ mine' = mine
      /\ Shapes /\ LocksApart /\ Migrator \in Tx
  BY <1>1 DEF LockTables, MigrationInv, Apart, Tx
<1>3. locks \in SUBSET (Table \X Mode)
  BY <1>1, <1>2, LocksAreLocks
<1>4. /\ held' \in [Tx -> SUBSET (Table \X Mode)]
      /\ held'[Migrator] = held[Migrator] \cup locks /\ \A u \in Tx \ {Migrator} : held'[u] = held[u]
      /\ LocksApart'
  BY <1>2, <1>3, LockIs
<1> QED BY <1>1, <1>2, <1>4, ReadingKeeps

\* Verify and Constrain: they ask, and go on.
LEMMA AskingKeeps ==
  ASSUME MigrationInv, Verify \/ Constrain PROVE MigrationInv'
<1>1. mine' = mine /\ held' = held /\ NextStatement
  BY DEF Verify, Constrain
<1>2. \/ At("verify") /\ Verified(Here)
      \/ At("verify_guard")
      \/ At("constrain")
  BY DEF Verify, Constrain
<1>3. held' \in [Tx -> SUBSET (Table \X Mode)] /\ LocksApart'
  BY <1>1, HeldStays
<1>4. /\ held[Migrator] \subseteq held'[Migrator] /\ \A u \in Tx \ {Migrator} : held'[u] = held[u]
  BY <1>1
<1>5. CASE At("verify") /\ Verified(Here)
  BY <1>1, <1>3, <1>4, <1>5, ReadingKeeps
<1>6. CASE At("verify_guard")
  BY <1>1, <1>3, <1>4, <1>6, ReadingKeeps
<1>7. CASE At("constrain")
  BY <1>1, <1>3, <1>4, <1>7, ReadingKeeps
<1> QED BY <1>2, <1>5, <1>6, <1>7

\* A statement that writes organizations: of parties nobody else has one of in flight.
LEMMA OrganizationsKeep ==
  ASSUME MigrationInv, NEW what, At(what), NextStatement, Current < 2,
         what \in {"insert_organizations", "reconcile"},
         NEW f, NEW b, DOMAIN f \subseteq Party,
         DOMAIN b \subseteq DOMAIN f \cup DOMAIN mine[Migrator].ahead,
         DOMAIN mine' = Tx, \A u \in Tx \ {Migrator} : mine'[u] = mine[u],
         DOMAIN mine'[Migrator] = Field,
         mine'[Migrator].organization = Onto(f, mine[Migrator].organization),
         mine'[Migrator].ahead = b,
         mine'[Migrator].issuer = mine[Migrator].issuer,
         mine'[Migrator].row = mine[Migrator].row, mine'[Migrator].guard = mine[Migrator].guard,
         \A p \in DOMAIN f : f[p] \in Standing, \A p \in DOMAIN b : b[p] \in BOOLEAN,
         \A p \in DOMAIN f, u \in Tx \ {Migrator} : p \notin DOMAIN mine[u].organization,
         held' \in [Tx -> SUBSET (Table \X Mode)], held[Migrator] \subseteq held'[Migrator],
         \A u \in Tx \ {Migrator} : held'[u] = held[u], LocksApart'
  PROVE  MigrationInv'
<1> USE DEF MigrationInv
<1>1. PICK m : m = mine[Migrator]
  OBVIOUS
<1>2. Migrator \in Tx /\ Draft(m)
  BY <1>1 DEF Tx, Shapes
<1>3. PICK g : g = Onto(f, m.organization)
  OBVIOUS
<1>4. DOMAIN g = DOMAIN f \cup DOMAIN m.organization /\ \A p \in DOMAIN g : g[p] \in Standing
  BY <1>2, <1>3 DEF Onto, Draft
<1>5. DOMAIN b \subseteq DOMAIN f \cup DOMAIN m.ahead /\ DOMAIN b \subseteq Party
  BY <1>1, <1>2 DEF Draft
<1>6. Draft(mine'[Migrator])
  BY <1>1, <1>2, <1>3, <1>4, <1>5 DEF Draft
<1>7. PartiesApart'
  BY <1>1, <1>3, <1>4 DEF Apart, PartiesApart
<1>8. ~Dropped
  BY CurrentIs DEF Dropped
<1>9. /\ \A r \in DOMAIN m.row :
           /\ db.row[r] # Absent /\ m.row[r].party = db.row[r].party /\ Good(m.row[r])
      /\ DOMAIN m.issuer = {} /\ DOMAIN m.ahead \subseteq DOMAIN m.organization
  BY <1>1, <1>8 DEF MigratorInv, Taken
<1>10. DOMAIN b \subseteq DOMAIN g
  BY <1>4, <1>5, <1>9
<1>11. Current \notin {2, 3}
  BY CurrentIs
<1> QED BY <1>1, <1>3, <1>6, <1>7, <1>9, <1>10, <1>11, MigrationStatementKeeps

\* InsertOrganizations: an organization for each issuer that has none.
LEMMA InsertOrganizationsKeeps ==
  ASSUME MigrationInv, InsertOrganizations PROVE MigrationInv'
<1> USE DEF MigrationInv
<1>1. PICK f : f = [p \in Unmatched(Here) |-> Here.issuer[p]]
  OBVIOUS
<1>2. PICK locks : locks = {<<"issuer", "access_share">>, <<"organization", "row_exclusive">>}
  OBVIOUS
<1>3. /\ At("insert_organizations") /\ NextStatement /\ Put(Migrator, "organization", f)
      /\ Lock(Migrator, locks) /\ Shapes /\ LocksApart /\ Migrator \in Tx
      /\ \A p \in Unmatched(Here) : ~InDoubt(Migrator, "organization", p)
  BY <1>1, <1>2 DEF InsertOrganizations, Apart, Tx
<1>4. locks \in SUBSET (Table \X Mode)
  BY <1>2, PairsAre
<1>5. /\ held' \in [Tx -> SUBSET (Table \X Mode)]
      /\ held'[Migrator] = held[Migrator] \cup locks /\ \A u \in Tx \ {Migrator} : held'[u] = held[u]
      /\ LocksApart'
  BY <1>3, <1>4, LockIs
<1>6. DOMAIN f \subseteq Party /\ \A p \in DOMAIN f : f[p] \in Standing
  <2>1. Database(Here)
    BY HereIs
  <2> QED BY <1>1, <2>1 DEF Unmatched, Database
<1>7. \A p \in DOMAIN f, u \in Tx \ {Migrator} : p \notin DOMAIN mine[u].organization
  BY <1>1, <1>3 DEF InDoubt
<1>8. Current < 2
  BY <1>3, WhereIs
<1>9. PICK m : m = mine[Migrator]
  OBVIOUS
<1>10. /\ DOMAIN mine' = Tx /\ \A u \in Tx \ {Migrator} : mine'[u] = mine[u]
       /\ DOMAIN mine'[Migrator] = Field /\ mine'[Migrator].organization = Onto(f, m.organization)
       /\ mine'[Migrator].issuer = m.issuer /\ mine'[Migrator].row = m.row
       /\ mine'[Migrator].ahead = m.ahead /\ mine'[Migrator].guard = m.guard
  BY <1>3, <1>9, PutIs DEF Field
<1>11. \A p \in DOMAIN m.ahead : m.ahead[p] \in BOOLEAN
  BY <1>3, <1>9 DEF Shapes, Draft
<1> QED BY <1>3, <1>5, <1>6, <1>7, <1>8, <1>9, <1>10, <1>11, OrganizationsKeep

\* Reconcile: of parties nobody has one of in flight.
LEMMA ReconcileKeeps ==
  ASSUME MigrationInv, Reconcile PROVE MigrationInv'
<1> USE DEF MigrationInv
<1>1. PICK f, a : /\ f = [p \in Disagreeing(Here) |-> Here.issuer[p]]
                  /\ a = [p \in Disagreeing(Here) |-> FALSE]
  OBVIOUS
<1>2. PICK m : m = mine[Migrator]
  OBVIOUS
<1>3. /\ At("reconcile") /\ NextStatement /\ held' = held
      /\ mine' = [mine EXCEPT ![Migrator] =
           [m EXCEPT !.organization = Onto(f, m.organization), !.ahead = Onto(a, m.ahead)]]
      /\ \A p \in Disagreeing(Here) : ~InDoubt(Migrator, "organization", p)
      /\ Shapes /\ Migrator \in Tx /\ Draft(m) /\ DOMAIN mine = Tx
  <2>1. /\ At("reconcile") /\ NextStatement /\ held' = held
        /\ \A p \in Disagreeing(Here) : ~InDoubt(Migrator, "organization", p)
    BY DEF Reconcile
  <2>2. mine' = [mine EXCEPT ![Migrator] =
          [mine[Migrator] EXCEPT !.organization = Onto(f, mine[Migrator].organization),
                                 !.ahead = Onto(a, mine[Migrator].ahead)]]
    BY <1>1 DEF Reconcile
  <2>3. Shapes /\ Migrator \in Tx
    BY DEF Tx
  <2>4. Draft(m) /\ DOMAIN mine = Tx
    BY <1>2, <2>3 DEF Shapes
  <2> QED BY <1>2, <2>1, <2>2, <2>3, <2>4
<1>4. held' \in [Tx -> SUBSET (Table \X Mode)] /\ LocksApart'
      /\ held[Migrator] \subseteq held'[Migrator] /\ \A u \in Tx \ {Migrator} : held'[u] = held[u]
  BY <1>3, HeldStays
<1>5. /\ DOMAIN mine' = Tx /\ \A u \in Tx \ {Migrator} : mine'[u] = mine[u]
      /\ DOMAIN mine'[Migrator] = Field /\ mine'[Migrator].organization = Onto(f, m.organization)
      /\ mine'[Migrator].ahead = Onto(a, m.ahead) /\ mine'[Migrator].issuer = m.issuer
      /\ mine'[Migrator].row = m.row /\ mine'[Migrator].guard = m.guard
  BY <1>3 DEF Draft, Field
<1>6. /\ DOMAIN f \subseteq Party /\ \A p \in DOMAIN f : f[p] \in Standing
      /\ DOMAIN a \subseteq DOMAIN f /\ \A p \in DOMAIN a : a[p] \in BOOLEAN
  <2>1. Database(Here)
    BY HereIs
  <2> QED BY <1>1, <2>1 DEF Disagreeing, Database
<1>7. \A p \in DOMAIN f, u \in Tx \ {Migrator} : p \notin DOMAIN mine[u].organization
  BY <1>1, <1>3 DEF InDoubt
<1>8. Current < 2
  BY <1>3, WhereIs
<1>9. PICK b : b = Onto(a, m.ahead)
  OBVIOUS
<1>10. /\ DOMAIN b \subseteq DOMAIN f \cup DOMAIN m.ahead
       /\ \A p \in DOMAIN b : b[p] \in BOOLEAN
  BY <1>3, <1>6, <1>9 DEF Onto, Draft
<1> QED BY <1>2, <1>3, <1>4, <1>5, <1>6, <1>7, <1>8, <1>9, <1>10, OrganizationsKeep

\* Move: a row's organization becomes what its issuer was, the party it was written for.
LEMMA MoveKeeps ==
  ASSUME MigrationInv, Move PROVE MigrationInv'
<1> USE DEF MigrationInv
<1>1. PICK rows : rows = {r \in Unmoved(Here) \cap Migration[step[Migrator]].rows :
                            Here.organization[Here.row[r].issuer] # Absent}
  OBVIOUS
<1>2. PICK f : f = [r \in rows |-> [Here.row[r] EXCEPT !.organization = SameIdentity(Here.row[r].issuer)]]
  OBVIOUS
<1>3. PICK m : m = mine[Migrator]
  OBVIOUS
<1>4. /\ At("move") /\ NextStatement /\ Put(Migrator, "row", f) /\ held' = held
      /\ Shapes /\ Migrator \in Tx /\ Draft(m)
  BY <1>1, <1>2, <1>3 DEF Move, Tx, Shapes
<1>5. held' \in [Tx -> SUBSET (Table \X Mode)] /\ LocksApart'
      /\ held[Migrator] \subseteq held'[Migrator] /\ \A u \in Tx \ {Migrator} : held'[u] = held[u]
  BY <1>4, HeldStays
<1>6. Current < 2 /\ Current \notin {2, 3} /\ ~Dropped
  BY <1>4, WhereIs, CurrentIs DEF Dropped
<1>7. \A r \in rows : /\ r \in Row /\ Here.row[r] # Absent
                      /\ Here.row[r].issuer # NoParty /\ Here.row[r].organization = NoParty
  BY <1>1 DEF Unmoved
<1>8. DOMAIN f = rows /\ \A r \in rows : f[r] = [Here.row[r] EXCEPT !.organization = Here.row[r].issuer]
  BY <1>2 DEF SameIdentity
<1>9. \A r \in rows : /\ f[r] \in RowType /\ db.row[r] # Absent
                      /\ f[r].party = db.row[r].party /\ Good(f[r])
  <2> SUFFICES ASSUME NEW r \in rows
               PROVE  /\ f[r] \in RowType /\ db.row[r] # Absent
                      /\ f[r].party = db.row[r].party /\ Good(f[r])
    OBVIOUS
  <2>1. PICK row : row = Here.row[r]
    OBVIOUS
  <2>2. /\ db.row[r] # Absent /\ row.party = db.row[r].party /\ Good(row) /\ row \in RowType
        /\ row.issuer # NoParty /\ row.organization = NoParty
    BY <1>7, <2>1, HereIs
  <2>3. f[r] = [row EXCEPT !.organization = row.issuer]
    BY <1>8, <2>1
  <2>4. /\ f[r] \in RowType /\ f[r].party = row.party /\ f[r].issuer = row.issuer
        /\ f[r].organization = row.issuer
    BY <2>2, <2>3 DEF RowType
  <2> QED BY <2>2, <2>4 DEF Good
<1>10. /\ DOMAIN mine' = Tx /\ \A u \in Tx \ {Migrator} : mine'[u] = mine[u]
       /\ DOMAIN mine'[Migrator] = Field /\ mine'[Migrator].row = Onto(f, m.row)
       /\ mine'[Migrator].issuer = m.issuer /\ mine'[Migrator].organization = m.organization
       /\ mine'[Migrator].ahead = m.ahead /\ mine'[Migrator].guard = m.guard
  BY <1>3, <1>4, PutIs DEF Field
<1>11. PICK g : g = Onto(f, m.row)
  OBVIOUS
<1>12. /\ \A r \in DOMAIN m.row :
            /\ db.row[r] # Absent /\ m.row[r].party = db.row[r].party /\ Good(m.row[r])
       /\ DOMAIN m.issuer = {} /\ DOMAIN m.ahead \subseteq DOMAIN m.organization
  BY <1>3, <1>6 DEF MigratorInv, Taken
<1>13. DOMAIN g = rows \cup DOMAIN m.row
       /\ \A r \in DOMAIN g : (r \in rows /\ g[r] = f[r]) \/ (r \in DOMAIN m.row /\ g[r] = m.row[r])
  BY <1>8, <1>11 DEF Onto
<1>14. /\ DOMAIN g \subseteq Row
       /\ \A r \in DOMAIN g : /\ g[r] \in RowType /\ db.row[r] # Absent
                              /\ g[r].party = db.row[r].party /\ Good(g[r])
  BY <1>4, <1>7, <1>9, <1>12, <1>13 DEF Draft
<1>15. Draft(mine'[Migrator])
  BY <1>4, <1>10, <1>11, <1>14 DEF Draft
<1>16. PartiesApart'
  BY <1>3, <1>10 DEF Apart, PartiesApart
<1> QED BY <1>4, <1>5, <1>6, <1>10, <1>11, <1>12, <1>14, <1>15, <1>16, MigrationStatementKeeps

\* SetGuard: off and on again, in one transaction.
LEMMA SetGuardKeeps ==
  ASSUME MigrationInv, NEW what \in {"guard_off", "guard_on"}, NEW on \in BOOLEAN, SetGuard(what, on)
  PROVE  MigrationInv'
<1> USE DEF MigrationInv
<1>1. PICK f : f = [g \in Guard |-> on]
  OBVIOUS
<1>2. PICK m : m = mine[Migrator]
  OBVIOUS
<1>3. PICK locks : locks = {<<"lifecycle_event", "share_row_exclusive">>}
  OBVIOUS
<1>4. /\ At(what) /\ NextStatement /\ Put(Migrator, "guard", f) /\ Lock(Migrator, locks)
      /\ Shapes /\ LocksApart /\ Migrator \in Tx /\ Draft(m)
  BY <1>1, <1>2, <1>3 DEF SetGuard, Apart, Tx, Shapes
<1>5. locks \in SUBSET (Table \X Mode)
  BY <1>3, PairsAre
<1>6. /\ held' \in [Tx -> SUBSET (Table \X Mode)]
      /\ held'[Migrator] = held[Migrator] \cup locks /\ \A u \in Tx \ {Migrator} : held'[u] = held[u]
      /\ LocksApart'
  BY <1>4, <1>5, LockIs
<1>7. Current < 2 /\ Current \notin {2, 3} /\ ~Dropped
  BY <1>4, WhereIs, CurrentIs DEF Dropped
<1>8. /\ DOMAIN mine' = Tx /\ \A u \in Tx \ {Migrator} : mine'[u] = mine[u]
      /\ DOMAIN mine'[Migrator] = Field /\ mine'[Migrator].guard = Onto(f, m.guard)
      /\ mine'[Migrator].issuer = m.issuer /\ mine'[Migrator].organization = m.organization
      /\ mine'[Migrator].ahead = m.ahead /\ mine'[Migrator].row = m.row
  BY <1>2, <1>4, PutIs DEF Field
<1>9. DOMAIN Onto(f, m.guard) \subseteq Guard
      /\ \A g \in DOMAIN Onto(f, m.guard) : Onto(f, m.guard)[g] \in BOOLEAN
  BY <1>1, <1>4 DEF Onto, Draft
<1>10. Draft(mine'[Migrator])
  BY <1>4, <1>8, <1>9 DEF Draft
<1>11. PartiesApart'
  BY <1>2, <1>8 DEF Apart, PartiesApart
<1>12. /\ \A r \in DOMAIN m.row :
            /\ db.row[r] # Absent /\ m.row[r].party = db.row[r].party /\ Good(m.row[r])
       /\ DOMAIN m.issuer = {} /\ DOMAIN m.ahead \subseteq DOMAIN m.organization
  BY <1>2, <1>7 DEF MigratorInv, Taken
<1> QED BY <1>4, <1>6, <1>7, <1>8, <1>10, <1>11, <1>12, MigrationStatementKeeps

\* Drop: every row keeps the organization, and nobody is writing an issuer.
LEMMA DropKeeps ==
  ASSUME MigrationInv, Drop PROVE MigrationInv'
<1> USE DEF MigrationInv
<1>1. PICK m : m = mine[Migrator]
  OBVIOUS
<1>2. PICK i, a, f :
        /\ i = [p \in Party |-> Absent] /\ a = [p \in Party |-> FALSE]
        /\ f = [r \in {q \in Row : Here.row[q] # Absent} |-> [Here.row[r] EXCEPT !.issuer = NoParty]]
  OBVIOUS
<1>3. /\ At("drop") /\ NextStatement /\ held' = held
      /\ mine' = [mine EXCEPT ![Migrator] = [m EXCEPT !.issuer = i, !.ahead = a, !.row = f]]
      /\ Shapes /\ Migrator \in Tx /\ Draft(m) /\ DOMAIN mine = Tx
  BY <1>1, <1>2 DEF Drop, Tx, Shapes
<1>4. Current = 3 /\ step[Migrator] = 6 /\ Stepped
  BY <1>3, WhereIs DEF Stepped
<1>5. /\ DOMAIN mine' = Tx /\ \A u \in Tx \ {Migrator} : mine'[u] = mine[u]
      /\ DOMAIN mine'[Migrator] = Field /\ mine'[Migrator].issuer = i /\ mine'[Migrator].ahead = a
      /\ mine'[Migrator].row = f /\ mine'[Migrator].organization = m.organization
      /\ mine'[Migrator].guard = m.guard
  BY <1>3 DEF Draft, Field
<1>6. DOMAIN f = {q \in Row : Here.row[q] # Absent}
  BY <1>2
<1>7. \A r \in DOMAIN f :
        /\ f[r] \in RowType /\ db.row[r] # Absent /\ f[r].party = db.row[r].party /\ Good(f[r])
        /\ f[r].issuer = NoParty
  <2> SUFFICES ASSUME NEW r \in DOMAIN f
               PROVE  /\ f[r] \in RowType /\ db.row[r] # Absent
                      /\ f[r].party = db.row[r].party /\ Good(f[r]) /\ f[r].issuer = NoParty
    OBVIOUS
  <2>1. PICK row : row = Here.row[r]
    OBVIOUS
  <2>2. /\ r \in Row /\ row # Absent /\ Good(row) /\ row \in RowType
        /\ db.row[r] # Absent /\ row.party = db.row[r].party
    BY <1>6, <2>1, HereIs
  <2>3. row.issuer \in {NoParty, row.organization}
    BY <1>4, <2>1, <2>2 DEF MigratorInv, Checked, Moved
  <2>4. f[r] = [row EXCEPT !.issuer = NoParty]
    BY <1>2, <1>6, <2>1
  <2>5. /\ f[r] \in RowType /\ f[r].party = row.party /\ f[r].issuer = NoParty
        /\ f[r].organization = row.organization
    BY <2>2, <2>4 DEF RowType
  <2> QED BY <2>2, <2>3, <2>5 DEF Good
<1>8. DOMAIN i = Party /\ \A p \in Party : i[p] = Absent
  BY <1>2
<1>9. DOMAIN a = Party /\ \A p \in Party : a[p] \in BOOLEAN
  BY <1>2
<1>10. Draft(mine'[Migrator])
  BY <1>3, <1>5, <1>6, <1>7, <1>8, <1>9 DEF Draft
<1>11. \A w \in Writer : DOMAIN mine[w].issuer = {}
  <2>1. Current = 3 /\ step[Migrator] > 5
    BY <1>4
  <2> QED BY <2>1, TakenSoFar, WrittenIs
<1>12. PartiesApart'
  <2>1. mine'[Migrator].organization = mine[Migrator].organization
    BY <1>1, <1>5
  <2>2. \A u \in Tx \ {Migrator} : u \in Writer
    BY DEF Tx
  <2> QED BY <1>5, <1>11, <2>1, <2>2 DEF Apart, PartiesApart
<1>13. held' \in [Tx -> SUBSET (Table \X Mode)] /\ LocksApart'
       /\ held[Migrator] \subseteq held'[Migrator] /\ \A u \in Tx \ {Migrator} : held'[u] = held[u]
  BY <1>3, HeldStays
<1>14. \A r \in Row : db.row[r] # Absent => r \in DOMAIN f
  <2>1. \A r \in DOMAIN m.row : m.row[r] # Absent
    BY <1>3, MigrationAssumption DEF Draft
  <2> QED BY <1>1, <1>6, <2>1, HereIs
<1> QED BY <1>1, <1>3, <1>5, <1>7, <1>8, <1>10, <1>12, <1>13, <1>14, MigrationStatementKeeps

-----------------------------------------------------------------------------
(***************************************************************************)
(* A migration fails or commits.                                           *)
(***************************************************************************)

\* A migration that is over has locked, written and verified nothing.
LEMMA RestKeeps ==
  ASSUME mine'[Migrator] = Nothing, step'[Migrator] = 0, ran' = 0,
         stage' < 2 => stage' \in {0, 1}
  PROVE  MigratorInv'
<1>1. /\ DOMAIN mine'[Migrator].issuer = {} /\ DOMAIN mine'[Migrator].ahead = {}
      /\ DOMAIN mine'[Migrator].row = {} /\ Bare(mine'[Migrator])
  BY NothingIs DEF Field
<1>2. \A j \in (DOMAIN Migration)' : ~(j < 0)
  <2>1. (DOMAIN Migration)' \subseteq Nat
    BY DEF Migration, OnePartyOneRecord, TheTwoStayInStep, ConstraintsFollow, OneIdentityRemains
  <2> QED BY <2>1
<1>3. ~Stepped' /\ ~Dropped'
  BY DEF Stepped, Dropped
<1>4. stage' < 2 => Current' \notin {2, 3}
  BY DEF Current
<1>5. Taken'
  BY <1>1, <1>2, <1>3, <1>4 DEF Taken
<1>6. Checked'
  BY <1>3 DEF Checked
<1> QED BY <1>5, <1>6 DEF MigratorInv

\* FailMigration: nothing it wrote is kept, of whichever migrations.
LEMMA FailMigrationKeeps ==
  ASSUME MigrationInv, FailMigration PROVE MigrationInv'
<1> USE DEF MigrationInv
<1>1. /\ Goes(Migrator, 0) /\ Shapes /\ LocksApart /\ PartiesApart /\ Migrator \in Tx
      /\ mine' = [mine EXCEPT ![Migrator] = Nothing] /\ held' = [held EXCEPT ![Migrator] = {}]
      /\ db' = db /\ stage' = stage /\ ran' = 0 /\ doing' = doing
  BY DEF FailMigration, WholeRollback, RollbackOf, Apart, Tx
<1>2. /\ DOMAIN mine' = Tx /\ mine'[Migrator] = Nothing
      /\ \A u \in Tx \ {Migrator} : mine'[u] = mine[u]
      /\ held' \in [Tx -> SUBSET (Table \X Mode)]
      /\ held'[Migrator] = {} /\ \A u \in Tx \ {Migrator} : held'[u] = held[u]
      /\ LocksApart' /\ PartiesApart'
  BY <1>1, OverIs
<1>3. DOMAIN step' = Tx /\ step'[Migrator] = 0 /\ \A u \in Tx \ {Migrator} : step'[u] = step[u]
  BY <1>1, GoesIs
<1>4. Alone(Migrator)
  BY <1>1, <1>2, <1>3 DEF Alone, Beside
<1>5. stage \in 0 .. 4 /\ ran' \in 0 .. 3 /\ stage + ran' <= 4
  BY <1>1 DEF Shapes
<1>6. MigratorInv'
  BY <1>1, <1>2, <1>3, <1>5, RestKeeps
<1>7. Draft(mine'[Migrator])
  BY <1>2, NothingIs
<1> QED BY <1>2, <1>3, <1>4, <1>5, <1>6, <1>7, MigratorStepKeeps

\* Where a transaction of migrations commits.
LEMMA EndIs ==
  ASSUME Shapes, FinishMigration
  PROVE  /\ Current \in 0 .. 3 /\ stage \in 0 .. 3 /\ stage <= Current /\ stage' = Current + 1
         /\ (Current = 0 /\ step[Migrator] = 11) \/ Stepped
         /\ Stepped <=> Current # 0
         /\ Dropped <=> Current = 3
<1>1. Current \in 0 .. 3 /\ stage \in 0 .. 3 /\ stage <= Current /\ stage' = Current + 1
  BY CurrentIs DEF FinishMigration
<1>2. PICK n : n = Len(Migration)
  OBVIOUS
<1>3. step[Migrator] = n + 1
  BY <1>2 DEF FinishMigration
<1>4. (Current = 0 => n = 10) /\ (Current = 1 => n = 10) /\ (Current = 2 => n = 3) /\ (Current = 3 => n = 7)
  BY <1>2, ZeroIs, OneIs, TwoIs, ThreeIs
<1> QED BY <1>1, <1>3, <1>4 DEF Stepped, Dropped

\* What a migration commits: no party and no row is lost, and the guard is on. Once 0021
\* has run, the two are in step.
LEMMA MigratedIs ==
  ASSUME MigrationInv, FinishMigration
  PROVE  /\ Database(db')
         /\ \A p \in Party :
              /\ p \notin DOMAIN mine[Migrator].organization =>
                   db'.organization[p] = db.organization[p]
              /\ db.organization[p] # Absent => db'.organization[p] # Absent
         /\ Known(db) \subseteq Known(db)'
         /\ \A r \in Row : /\ db'.row[r] # Absent <=> db.row[r] # Absent
                           /\ db'.row[r] # Absent =>
                                Good(db'.row[r]) /\ db'.row[r].party = db.row[r].party
         /\ \A g \in Guard : db'.guard[g]
         /\ Current \in {1, 2} =>
              /\ \A p \in Party : db'.issuer[p] # Absent =>
                   /\ db'.organization[p] # Absent
                   /\ db'.organization[p] # db'.issuer[p] => db'.ahead[p] = TRUE
              /\ \A r \in Row : db'.row[r] # Absent => Moved(db'.row[r])
<1> USE DEF MigrationInv
<1>1. PICK m : m = mine[Migrator]
  OBVIOUS
<1>2. db' = Here /\ Draft(m) /\ Migrator \in Tx
  BY <1>1 DEF FinishMigration, CommitOf, Here, Shapes, Tx
<1>3. /\ \A p \in Party :
           /\ db'.issuer[p] = IF p \in DOMAIN m.issuer THEN m.issuer[p] ELSE db.issuer[p]
           /\ db'.organization[p] = IF p \in DOMAIN m.organization THEN m.organization[p]
                                    ELSE db.organization[p]
           /\ db'.ahead[p] = IF p \in DOMAIN m.ahead THEN m.ahead[p] ELSE db.ahead[p]
      /\ \A r \in Row : db'.row[r] = IF r \in DOMAIN m.row THEN m.row[r] ELSE db.row[r]
      /\ Database(db')
  BY <1>1, <1>2, ViewIs DEF Here
<1>4. \A p \in DOMAIN m.organization : m.organization[p] # Absent
  BY <1>2, MigrationAssumption DEF Draft
<1>5. \A p \in Party : /\ p \notin DOMAIN m.organization => db'.organization[p] = db.organization[p]
                       /\ db.organization[p] # Absent => db'.organization[p] # Absent
  BY <1>3, <1>4
<1>6. \A r \in Row : db'.row[r] # Absent =>
        db.row[r] # Absent /\ Good(db'.row[r]) /\ db'.row[r].party = db.row[r].party
  BY <1>2, HereIs
<1>7. \A r \in Row : db.row[r] # Absent => db'.row[r] # Absent
  <2>1. \A r \in DOMAIN m.row : m.row[r] # Absent
    BY <1>2, MigrationAssumption DEF Draft
  <2> QED BY <1>3, <2>1
<1>8. \A g \in Guard : db'.guard[g]
  <2>1. Guarded(Here)
    BY EndIs DEF MigratorInv, Checked
  <2> QED BY <1>2, <2>1 DEF Guarded
<1>9. Known(db) \subseteq Known(db)'
  <2>1. CASE Dropped
    <3>1. Stepped
      BY <2>1, EndIs
    <3>2. \A p \in Party : db.issuer[p] # Absent => db'.organization[p] # Absent
      BY <1>2, <3>1 DEF MigratorInv, Checked
    <3> QED BY <1>5, <3>2 DEF Known
  <2>2. CASE ~Dropped
    <3>1. DOMAIN m.issuer = {}
      BY <1>1, <2>2 DEF MigratorInv, Taken
    <3>2. \A p \in Party : db'.issuer[p] = db.issuer[p]
      BY <1>3, <3>1
    <3> QED BY <1>5, <3>2 DEF Known
  <2> QED BY <2>1, <2>2
<1>10. ASSUME Current \in {1, 2}
       PROVE  /\ \A p \in Party : db'.issuer[p] # Absent =>
                   /\ db'.organization[p] # Absent
                   /\ db'.organization[p] # db'.issuer[p] => db'.ahead[p] = TRUE
              /\ \A r \in Row : db'.row[r] # Absent => Moved(db'.row[r])
  <2>1. Stepped /\ ~Dropped
    BY <1>10, EndIs
  <2>2. DOMAIN m.issuer = {}
    BY <1>1, <2>1 DEF MigratorInv, Taken
  <2>3. \A p \in Party : db'.issuer[p] = db.issuer[p]
    BY <1>3, <2>2
  <2> QED BY <1>2, <2>1, <2>3 DEF MigratorInv, Checked
<1> QED BY <1>1, <1>3, <1>5, <1>6, <1>7, <1>8, <1>9, <1>10

\* What a writer has in flight when a migration commits is what it would have written after.
LEMMA MigratedWriter ==
  ASSUME MigrationInv, FinishMigration, NEW v \in Writer, mine'[v] = mine[v], held'[v] = held[v],
         step'[v] = step[v], doing'[v] = doing[v]
  PROVE  WriterInv(v)'
<1> USE DEF MigrationInv
<1>1. /\ v \in Tx /\ Migrator \in Tx /\ v # Migrator
      /\ Current \in 0 .. 3 /\ stage \in 0 .. 3 /\ stage <= Current /\ stage' = Current + 1
      /\ Known(db) \subseteq Known(db)'
  BY MigratedIs, EndIs, MigrationAssumption DEF Tx
<1>2. (InStep' <=> Current \in {1, 2}) /\ (InStep <=> stage \in {2, 3}) /\ (IssuerHere' <=> Current # 3)
  BY <1>1 DEF InStep, IssuerHere
<1>3. PICK m : m = mine[v]
  OBVIOUS
<1>4. PICK o : o = doing[v]
  OBVIOUS
<1>5. mine'[v] = m /\ doing'[v] = o
  BY <1>3, <1>4
<1>6. (stage = 0 /\ Current = 0) \/ (stage = 2 /\ Current = 2) \/
        (/\ <<"issuer", "row_exclusive">> \notin held[v]
         /\ <<"product", "row_exclusive">> \notin held[v])
  <2>1. CASE stage < 2 /\ Current # 0
    <3>1. stage < 2 /\ Stepped
      BY <2>1, EndIs
    <3> QED BY <3>1, TakenSoFar
  <2>2. CASE Current = 3
    <3>1. Current = 3 /\ step[Migrator] > 5
      <4>1. Dropped /\ step[Migrator] \in 0 .. 11
        BY <2>2, EndIs DEF Shapes
      <4> QED BY <4>1 DEF Dropped
    <3> QED BY <3>1, TakenSoFar
  <2>3. CASE (Current = 0) \/ (stage >= 2 /\ Current # 3)
    BY <1>1, <2>3
  <2>4. (stage < 2 /\ Current # 0) \/ Current = 3 \/ Current = 0 \/ (stage >= 2 /\ Current # 3)
    BY <1>1
  <2> QED BY <2>1, <2>2, <2>3, <2>4
<1>7. Statements(v)'
  BY DEF WriterInv, Statements
<1>8. Records(v)'
  <2> SUFFICES ASSUME o.op = "record" PROVE Records(v)'
    BY <1>4 DEF Records
  <2>1. /\ db.row[o.product] = Absent /\ db.row[o.event] = Absent
        /\ DOMAIN m.issuer = {} /\ DOMAIN m.organization = {} /\ DOMAIN m.ahead = {}
        /\ DOMAIN m.row \subseteq {o.product, o.event}
        /\ step[v] \in {"second", "commit"} => <<"product", "row_exclusive">> \in held[v]
        /\ \A r \in DOMAIN m.row :
             /\ Good(m.row[r]) /\ (InStep => Moved(m.row[r]))
             /\ m.row[r].party # NoParty => m.row[r].party \in Known(db)
    BY <1>3, <1>4 DEF WriterInv, Records
  <2>2. o.product \in Row /\ o.event \in Row
    BY <1>4, OpIs
  <2>3. db'.row[o.product] = Absent /\ db'.row[o.event] = Absent
    BY <2>1, <2>2, MigratedIs
  <2>4. \A r \in DOMAIN m.row : InStep' => Moved(m.row[r])
    <3>1. CASE InStep \/ ~InStep'
      BY <2>1, <3>1
    <3>2. CASE ~InStep /\ InStep'
      <4>1. <<"product", "row_exclusive">> \notin held[v]
        BY <1>1, <1>2, <1>6, <3>2
      <4>2. step[v] \in {"idle", "first"}
        BY <2>1, <4>1 DEF Shapes
      <4>3. m = Nothing
        BY <1>3, <4>2 DEF WriterInv, Statements
      <4> QED BY <4>3, NothingIs DEF Field
    <3> QED BY <3>1, <3>2
  <2>5. \A r \in DOMAIN m.row :
          /\ Good(m.row[r]) /\ (InStep' => Moved(m.row[r]))
          /\ m.row[r].party # NoParty => m.row[r].party \in Known(db)'
    BY <1>1, <2>1, <2>4
  <2> QED BY <1>5, <2>1, <2>3, <2>5 DEF Records
<1>9. Issuers(v)'
  <2> SUFFICES ASSUME step[v] = "commit", o.op \in {"insert_issuer", "update_issuer"}
               PROVE  Issuers(v)'
    BY <1>4 DEF Issuers
  <2>1. PICK p, s : p = o.party /\ s = o.standing
    OBVIOUS
  <2>2. /\ IssuerHere /\ <<"issuer", "row_exclusive">> \in held[v]
        /\ DOMAIN m.issuer = {p} /\ m.issuer[p] = s /\ DOMAIN m.row = {}
        /\ DOMAIN m.organization \subseteq {p} /\ DOMAIN m.ahead \subseteq {p}
        /\ ~InStep => DOMAIN m.organization = {}
        /\ (InStep /\ p \in DOMAIN m.organization) => m.organization[p] = s
        /\ (InStep /\ p \notin DOMAIN m.organization) =>
             db.organization[p] # Absent /\ p \in DOMAIN m.ahead /\ m.ahead[p] = TRUE
    BY <1>3, <1>4, <2>1 DEF WriterInv, Issuers
  <2>3. (stage = 0 /\ Current = 0) \/ (stage = 2 /\ Current = 2)
    BY <1>6, <2>2
  <2>4. p \in Party
    BY <1>4, <2>1, OpIs
  <2>5. db.organization[p] # Absent => db'.organization[p] # Absent
    BY <2>4, MigratedIs
  <2>6. IssuerHere' /\ (InStep' <=> InStep)
    BY <1>2, <2>3
  <2> QED BY <1>5, <2>1, <2>2, <2>5, <2>6 DEF Issuers
<1>10. Organizations(v)'
  <2> SUFFICES ASSUME step[v] = "commit", o.op = "insert_organization"
               PROVE  Organizations(v)'
    BY <1>4 DEF Organizations
  <2>1. PICK p : p = o.party
    OBVIOUS
  <2>2. /\ DOMAIN m.issuer = {} /\ DOMAIN m.ahead = {} /\ DOMAIN m.row = {}
        /\ DOMAIN m.organization = {p} /\ db.organization[p] = Absent
    BY <1>3, <1>4, <2>1 DEF WriterInv, Organizations
  <2>3. p \in Party
    BY <1>4, <2>1, OpIs
  <2>4. p \notin DOMAIN mine[Migrator].organization
    BY <1>1, <1>3, <2>2, Theirs
  <2>5. db'.organization[p] = Absent
    BY <2>2, <2>3, <2>4, MigratedIs
  <2>6. InStep' => db'.issuer[p] = Absent
    BY <1>2, <2>3, <2>5, MigratedIs
  <2> QED BY <1>5, <2>1, <2>2, <2>5, <2>6 DEF Organizations
<1>11. Changes(v)'
  <2>1. \A p : db.organization[p] # Absent
          /\ doing[v].op = "update_organization" /\ p = doing[v].party => db'.organization[p] # Absent
    <3>1. doing[v].op = "update_organization" => doing[v].party \in Party
      BY OpIs
    <3> QED BY <3>1, MigratedIs
  <2> QED BY <2>1, ChangesStay DEF WriterInv
<1> QED BY <1>7, <1>8, <1>9, <1>10, <1>11 DEF WriterInv

\* FinishMigration: the schema and the rows change together.
LEMMA FinishMigrationKeeps ==
  ASSUME MigrationInv, FinishMigration PROVE MigrationInv'
<1> USE DEF MigrationInv
<1>1. /\ Goes(Migrator, 0) /\ Shapes /\ LocksApart /\ PartiesApart /\ Migrator \in Tx
      /\ mine' = [mine EXCEPT ![Migrator] = Nothing] /\ held' = [held EXCEPT ![Migrator] = {}]
      /\ doing' = doing
  BY DEF FinishMigration, CommitOf, Apart, Tx
<1>2. /\ DOMAIN mine' = Tx /\ mine'[Migrator] = Nothing
      /\ \A u \in Tx \ {Migrator} : mine'[u] = mine[u]
      /\ held' \in [Tx -> SUBSET (Table \X Mode)]
      /\ held'[Migrator] = {} /\ \A u \in Tx \ {Migrator} : held'[u] = held[u]
      /\ LocksApart' /\ PartiesApart'
  BY <1>1, OverIs
<1>3. DOMAIN step' = Tx /\ step'[Migrator] = 0 /\ \A u \in Tx \ {Migrator} : step'[u] = step[u]
  BY <1>1, GoesIs
<1>4. \A v \in Writer : v \in Tx \ {Migrator}
  BY MigrationAssumption DEF Tx
<1>5. Current \in 0 .. 3 /\ stage' = Current + 1 /\ ran' = 0
  BY EndIs DEF FinishMigration
<1>6. Shapes'
  <2>1. \A t \in Tx : Draft(mine'[t])
    BY <1>2, NothingIs DEF Shapes
  <2>2. \A t \in Tx : AtRest(t)' => mine'[t] = Nothing /\ held'[t] = {}
    BY <1>2, <1>3, <1>4 DEF Shapes, AtRest
  <2>3. Database(db') /\ stage' \in 0 .. 4 /\ ran' \in 0 .. 3 /\ stage' + ran' <= 4
    <3>1. Database(db')
      BY MigratedIs
    <3> QED BY <1>5, <3>1
  <2>4. /\ \A v \in Writer : step'[v] \in {"idle", "first", "second", "commit"}
        /\ step'[Migrator] \in 0 .. 11
    BY <1>3, <1>4 DEF Shapes
  <2> QED BY <1>1, <1>2, <1>3, <2>1, <2>2, <2>3, <2>4 DEF Shapes
<1>7. Sound'
  <2>1. \A r \in Row : db'.row[r] # Absent =>
          /\ Good(db'.row[r])
          /\ db'.row[r].party # NoParty => db'.row[r].party \in Known(db)'
    BY MigratedIs DEF Sound
  <2>2. \A g \in Guard : db'.guard[g]
    BY MigratedIs
  <2>3. ASSUME InStep' PROVE TheRecordsAgree'
    <3>1. Current \in {1, 2}
      BY <1>5, <2>3 DEF InStep
    <3>2. /\ \A p \in Party : db'.issuer[p] # Absent =>
               /\ db'.organization[p] # Absent
               /\ db'.organization[p] # db'.issuer[p] => db'.ahead[p] = TRUE
          /\ \A r \in Row : db'.row[r] # Absent => Moved(db'.row[r])
      BY <3>1, MigratedIs
    <3>3. Unmatched(db)' = {} /\ \A p \in Disagreeing(db)' : db'.ahead[p]
      BY <3>2 DEF Unmatched, Disagreeing
    <3>4. Unmoved(db)' = {}
      BY <3>2 DEF Unmoved, Moved
    <3> QED BY <3>2, <3>3, <3>4 DEF TheRecordsAgree, Moved
  <2>4. TheRecordsAgree'
    BY <2>3 DEF TheRecordsAgree
  <2> QED BY <2>1, <2>2, <2>4 DEF Sound
<1>8. MigratorInv'
  BY <1>2, <1>3, <1>5, RestKeeps
<1>9. \A v \in Writer : WriterInv(v)'
  BY <1>1, <1>2, <1>3, <1>4, MigratedWriter
<1>10. RecordsApart'
  BY <1>1 DEF Apart, RecordsApart
<1> QED BY <1>2, <1>6, <1>7, <1>8, <1>9, <1>10 DEF Apart

-----------------------------------------------------------------------------
(***************************************************************************)
(* The invariant.                                                          *)
(***************************************************************************)

\* A step that changes nothing.
LEMMA StutterKeeps ==
  ASSUME MigrationInv, UNCHANGED vars PROVE MigrationInv'
<1> USE DEF MigrationInv
<1>1. /\ db' = db /\ stage' = stage /\ ran' = ran /\ mine' = mine /\ held' = held
      /\ doing' = doing /\ step' = step
  BY DEF vars
<1>2. Alone(Migrator) /\ Migrator \in Tx
  BY <1>1 DEF Alone, Beside, Tx
<1>3. MigratorInv'
  <2>1. Migration' = Migration /\ Current' = Current
    BY <1>1, CurrentIs
  <2>2. Here' = Here
    BY <1>1 DEF Here, View
  <2>3. (Stepped' <=> Stepped) /\ (Dropped' <=> Dropped)
    BY <1>1, <2>1 DEF Stepped, Dropped
  <2>4. Taken'
    BY <1>1, <2>1, <2>3 DEF MigratorInv, Taken
  <2>5. Checked'
    BY <1>1, <2>1, <2>2, <2>3 DEF MigratorInv, Checked, Guarded
  <2> QED BY <2>4, <2>5 DEF MigratorInv
<1>4. LocksApart' /\ PartiesApart' /\ held' \in [Tx -> SUBSET (Table \X Mode)]
  BY <1>1, HeldStays DEF Apart, PartiesApart
<1>5. /\ DOMAIN mine' = Tx /\ DOMAIN step' = Tx /\ Draft(mine'[Migrator])
      /\ step'[Migrator] \in 0 .. 11 /\ ran' \in 0 .. 3 /\ stage + ran' <= 4
      /\ step'[Migrator] = 0 => mine'[Migrator] = Nothing /\ held'[Migrator] = {}
  BY <1>1, <1>2 DEF Shapes, AtRest
<1> QED BY <1>2, <1>3, <1>4, <1>5, MigratorStepKeeps

\* A writer's step keeps the invariant.
LEMMA WriteKeeps ==
  ASSUME MigrationInv, NEW w \in Writer, Write(w) PROVE MigrationInv'
<1>1. ASSUME NEW o \in Ops, Begin(w, o) PROVE MigrationInv'
  BY <1>1, BeginKeeps
<1>2. CASE InsertIssuer(w)
  BY <1>2, InsertIssuerKeeps
<1>3. CASE InsertOrganization(w)
  BY <1>3, InsertOrganizationKeeps
<1>4. CASE UpdateIssuer(w)
  BY <1>4, UpdateIssuerKeeps
<1>5. CASE RecordProduct(w)
  <2>1. PICK r : r = doing[w].product
    OBVIOUS
  <2>2. RecordRow(w, "first", "second", r, "product")
    BY <1>5, <2>1 DEF RecordProduct
  <2> QED BY <2>1, <2>2, RecordRowKeeps
<1>6. CASE RecordEvent(w)
  <2>1. PICK r : r = doing[w].event
    OBVIOUS
  <2>2. RecordRow(w, "second", "commit", r, "lifecycle_event")
    BY <1>6, <2>1 DEF RecordEvent
  <2> QED BY <2>1, <2>2, RecordRowKeeps
<1>7. CASE Finish(w)
  BY <1>7, FinishKeeps
<1>8. CASE Fail(w)
  BY <1>8, FailKeeps
<1>9. CASE UpdateOrganization(w)
  BY <1>9, UpdateOrganizationKeeps
<1> QED BY <1>1, <1>2, <1>3, <1>4, <1>5, <1>6, <1>7, <1>8, <1>9 DEF Write

\* A migration's step keeps the invariant.
LEMMA MigrateKeeps ==
  ASSUME MigrationInv, Migrate PROVE MigrationInv'
<1>1. CASE StartMigration
  BY <1>1, StartKeeps
<1>2. CASE LockTables
  BY <1>2, LockTablesKeeps
<1>3. CASE InsertOrganizations
  BY <1>3, InsertOrganizationsKeeps
<1>4. CASE Reconcile
  BY <1>4, ReconcileKeeps
<1>5. CASE Move
  BY <1>5, MoveKeeps
<1>6. CASE SetGuard("guard_off", FALSE)
  BY <1>6, SetGuardKeeps
<1>7. CASE SetGuard("guard_on", TRUE)
  BY <1>7, SetGuardKeeps
<1>8. CASE Verify \/ Constrain
  BY <1>8, AskingKeeps
<1>9. CASE Drop
  BY <1>9, DropKeeps
<1>10. CASE FinishMigration
  BY <1>10, FinishMigrationKeeps
<1>11. CASE FailMigration
  BY <1>11, FailMigrationKeeps
<1>12. CASE GoOn
  BY <1>12, GoOnKeeps
<1> QED BY <1>1, <1>2, <1>3, <1>4, <1>5, <1>6, <1>7, <1>8, <1>9, <1>10, <1>11, <1>12 DEF Migrate

\* Nothing is in flight, no row is written and no migration has run.
LEMMA InitHolds ==
  ASSUME MigrationInit PROVE MigrationInv
<1>1. PICK standings \in [Party -> Standing \cup {Absent}],
           organizations \in [Party -> {Default, Absent}] :
        db = [issuer |-> standings, organization |-> organizations,
              row |-> [r \in Row |-> Absent],
              ahead |-> [p \in Party |-> FALSE], guard |-> [g \in Guard |-> TRUE]]
  BY DEF MigrationInit
<1>2. /\ stage = 0 /\ ran = 0 /\ mine = [t \in Tx |-> Nothing] /\ held = [t \in Tx |-> {}]
      /\ doing = [w \in Writer |-> Idle]
      /\ step = [t \in Tx |-> IF t = Migrator THEN 0 ELSE "idle"]
  BY DEF MigrationInit
<1>3. \A w \in Writer : w \in Tx /\ w # Migrator
  BY MigrationAssumption DEF Tx
<1>4. Migrator \in Tx
  BY DEF Tx
<1>5. step[Migrator] = 0 /\ \A w \in Writer : step[w] = "idle"
  BY <1>2, <1>3, <1>4
<1>6. \A t \in Tx : mine[t] = Nothing /\ held[t] = {}
  BY <1>2
<1>7. /\ DOMAIN Nothing.issuer = {} /\ DOMAIN Nothing.organization = {} /\ DOMAIN Nothing.row = {}
      /\ DOMAIN Nothing.ahead = {} /\ DOMAIN Nothing.guard = {}
  BY NothingIs DEF Field
<1>8. organizations \in [Party -> Standing \cup {Absent}]
  BY MigrationAssumption
<1>9. /\ db.issuer = standings /\ db.organization = organizations
      /\ \A r \in Row : db.row[r] = Absent
      /\ \A g \in Guard : db.guard[g]
  BY <1>1
<1>10. Shapes
  <2>1. Database(db)
    BY <1>1, <1>8 DEF Database, Field
  <2>2. \A t \in Tx : Draft(mine[t])
    BY <1>6, NothingIs
  <2>3. \A t \in Tx : AtRest(t) => mine[t] = Nothing /\ held[t] = {}
    BY <1>6
  <2>4. DOMAIN mine = Tx /\ held \in [Tx -> SUBSET (Table \X Mode)] /\ DOMAIN step = Tx
        /\ doing \in [Writer -> Ops \cup {Idle}]
    BY <1>2
  <2> QED BY <1>2, <1>5, <2>1, <2>2, <2>3, <2>4 DEF Shapes
<1>11. Sound
  BY <1>2, <1>9 DEF Sound, TheRecordsAgree, InStep
<1>12. MigratorInv
  <2>1. Current = 0
    BY <1>2 DEF Current
  <2>2. \A j \in DOMAIN Migration : ~(j < 0)
    BY <2>1, ZeroIs
  <2>3. mine[Migrator] = Nothing
    BY <1>4, <1>6
  <2>4. ~Stepped /\ ~Dropped
    BY <2>1 DEF Stepped, Dropped
  <2>5. Taken
    BY <1>2, <1>5, <1>7, <2>1, <2>2, <2>3, <2>4 DEF Taken
  <2>6. Checked
    BY <1>5, <2>4 DEF Checked
  <2> QED BY <2>5, <2>6 DEF MigratorInv
<1>13. Apart
  <2>1. LocksApart
    BY <1>6 DEF LocksApart
  <2>2. PartiesApart
    BY <1>6, <1>7 DEF PartiesApart
  <2>3. \A w \in Writer : doing[w].op = "nothing"
    BY <1>2 DEF Idle
  <2>4. RecordsApart
    BY <2>3 DEF RecordsApart
  <2> QED BY <2>1, <2>2, <2>4 DEF Apart
<1>14. \A w \in Writer : WriterInv(w)
  <2> SUFFICES ASSUME NEW w \in Writer PROVE WriterInv(w)
    OBVIOUS
  <2>1. mine[w] = Nothing /\ step[w] = "idle" /\ doing[w].op = "nothing"
    BY <1>2, <1>3, <1>5, <1>6 DEF Idle
  <2>2. Statements(w)
    BY <1>7, <2>1 DEF Statements
  <2>3. Records(w) /\ Issuers(w) /\ Organizations(w) /\ Changes(w)
    BY <2>1 DEF Records, Issuers, Organizations, Changes
  <2> QED BY <2>2, <2>3 DEF WriterInv
<1> QED BY <1>10, <1>11, <1>12, <1>13, <1>14 DEF MigrationInv

\* Every step keeps the invariant.
LEMMA NextKeeps ==
  ASSUME MigrationInv, [MigrationNext]_vars PROVE MigrationInv'
<1>1. ASSUME NEW w \in Writer, Write(w) PROVE MigrationInv'
  BY <1>1, WriteKeeps
<1>2. CASE Migrate
  BY <1>2, MigrateKeeps
<1>3. CASE UNCHANGED vars
  BY <1>3, StutterKeeps
<1> QED BY <1>1, <1>2, <1>3 DEF MigrationNext

\* The invariant, of every behaviour of writers and migrations.
THEOREM MigrationIsInvariant == MigrationSpec => []MigrationInv
<1>1. MigrationInit => MigrationInv
  BY InitHolds
<1>2. MigrationInv /\ [MigrationNext]_vars => MigrationInv'
  BY NextKeeps
<1> QED BY <1>1, <1>2, PTL DEF MigrationSpec

-----------------------------------------------------------------------------
(***************************************************************************)
(* What follows.                                                           *)
(***************************************************************************)

\* A good row names the party it was written for.
LEMMA GoodIsNamed ==
  ASSUME NEW row, Good(row) PROVE Named(row) = row.party
BY DEF Good, Named

\* Only a commit changes what is committed.
LEMMA CommitsAre ==
  ASSUME [MigrationNext]_vars
  PROVE  db' = db \/ (\E w \in Writer : Finish(w)) \/ FinishMigration
<1>1. CASE UNCHANGED vars
  BY <1>1 DEF vars
<1>2. ASSUME NEW w \in Writer, Write(w) PROVE db' = db \/ Finish(w)
  BY <1>2 DEF Write, Begin, InsertIssuer, InsertOrganization, UpdateIssuer, UpdateOrganization,
    RecordProduct, RecordEvent, RecordRow, Fail, RollbackOf
<1>3. CASE Migrate
  BY <1>3 DEF Migrate, StartMigration, LockTables, InsertOrganizations, Reconcile, Move, SetGuard,
    Verify, Constrain, Drop, GoOn, NextStatement, FailMigration, WholeRollback, RollbackOf
<1> QED BY <1>1, <1>2, <1>3 DEF MigrationNext

\* The types, and that a transaction that is over leaves no lock and no write.
THEOREM MigrationTypes == MigrationSpec => []MigrationTypeOK
<1>1. MigrationInv => MigrationTypeOK
  <2> SUFFICES ASSUME MigrationInv PROVE MigrationTypeOK
    OBVIOUS
  <2>1. Shapes /\ Database(db)
    BY DEF MigrationInv, Shapes
  <2>2. \A r \in Row : db.row[r] = Absent \/ db.row[r] \in RowType
    BY <2>1 DEF Database
  <2>3. AtRest(Migrator) => ran = 0
    BY DEF MigrationInv, MigratorInv, Taken, AtRest
  <2> QED BY <2>1, <2>2, <2>3 DEF Shapes, Database, MigrationTypeOK
<1> QED BY <1>1, MigrationIsInvariant, PTL

\* Whoever wrote a row, and whichever migration ran in between, it names the party it was
\* written for, and that party has a record: an organization, once the issuer is dropped.
THEOREM NobodyLoses == MigrationSpec => []NobodyLosesTheirParty
<1>1. MigrationInv => NobodyLosesTheirParty
  BY GoodIsNamed DEF MigrationInv, Sound, NobodyLosesTheirParty
<1> QED BY <1>1, MigrationIsInvariant, PTL

\* While both tables exist, every issuer has its organization, every row both references,
\* and the two records of a party agree unless the organization was there first, or was
\* changed by itself since.
THEOREM InStepTheyAgree == MigrationSpec => []TheRecordsAgree
<1>1. MigrationInv => TheRecordsAgree
  BY DEF MigrationInv, Sound
<1> QED BY <1>1, MigrationIsInvariant, PTL

\* No commit leaves the append-only guard off, forgets a party, or gives a row to another.
THEOREM HistoryStays == MigrationSpec => HistoryIsKept
<1>1. ASSUME MigrationInv, [MigrationNext]_vars
      PROVE  /\ \A g \in Guard : db'.guard[g]
             /\ \A p \in Known(db) : p \in Known(db)'
             /\ \A r \in Row : db.row[r] # Absent =>
                  db'.row[r] # Absent /\ Named(db'.row[r]) = Named(db.row[r])
  <2>1. /\ \A r \in Row : db.row[r] # Absent => Good(db.row[r])
        /\ \A g \in Guard : db.guard[g]
    BY <1>1 DEF MigrationInv, Sound
  <2>2. CASE db' = db
    <3>1. Known(db)' = Known(db)
      BY <2>2 DEF Known
    <3> QED BY <2>1, <2>2, <3>1
  <2>3. ASSUME NEW w \in Writer, Finish(w)
        PROVE  /\ \A g \in Guard : db'.guard[g]
               /\ \A p \in Known(db) : p \in Known(db)'
               /\ \A r \in Row : db.row[r] # Absent => db'.row[r] = db.row[r]
    <3>1. db' = View(w)
      BY <2>3 DEF Finish, CommitOf
    <3>2. /\ Known(db) \subseteq Known(db)'
          /\ \A r \in Row : db.row[r] # Absent => db'.row[r] = db.row[r]
          /\ \A g \in Guard : db'.guard[g] = db.guard[g]
      BY <1>1, <3>1, FinishIs
    <3> QED BY <2>1, <3>2
  <2>4. CASE FinishMigration
    <3>1. /\ Known(db) \subseteq Known(db)'
          /\ \A r \in Row : /\ db'.row[r] # Absent <=> db.row[r] # Absent
                            /\ db'.row[r] # Absent =>
                                 Good(db'.row[r]) /\ db'.row[r].party = db.row[r].party
          /\ \A g \in Guard : db'.guard[g]
      BY <1>1, <2>4, MigratedIs
    <3> QED BY <2>1, <3>1, GoodIsNamed
  <2> QED BY <1>1, <2>2, <2>3, <2>4, CommitsAre
<1> QED BY <1>1, MigrationIsInvariant, PTL DEF MigrationSpec, HistoryIsKept

=============================================================================
