------------------------------ MODULE Registry ------------------------------
(***************************************************************************)
(* The database under TrustPass: the product and lifecycle_event tables,   *)
(* their row locks, their partial unique indexes and their triggers, and   *)
(* transactions that run statements against them at READ COMMITTED.        *)
(*                                                                         *)
(* Any transaction may run any statement in any order. That is the reader  *)
(* the triggers were written for: "a bulk import, a migration, a fixture   *)
(* or a console session" (drizzle/0010). ProductWrites restricts the same  *)
(* statements to the programs the repositories run.                        *)
(*                                                                         *)
(* A transaction is used once, so its name is its xid8. A product is a     *)
(* row's primary key together with the columns no statement ever changes:  *)
(* KeyOf gives the key the live-serial index of that row's scope sees,     *)
(* which is <<organization, lower(serial)>> for a registered product and   *)
(* lower(serial) among holder enrolments for an enrolled one.              *)
(***************************************************************************)
EXTENDS Naturals, StatusRules

CONSTANTS
  Product,    \* primary keys a product row can have
  Tx,         \* transactions, each run at most once
  Key,        \* live-serial index keys
  KeyOf,      \* the key a product's immutable columns give it
  Targets,    \* bound: the statuses the writers of this instance write
  Claims,     \* bound: what the writers of this instance say in an event
  MaxEvents   \* bound: how many rows the event sequence hands out

NoState == "none"     \* previous_state or resulting_state IS NULL
Absent  == "absent"   \* no such row
Unset   == "unset"    \* this transaction has written no version of the row

\* What an event says, beside the columns the database fills in.
Claim == [type : EventType, actor : ActorKind,
          from : Status \cup {NoState}, to : Status \cup {NoState}]

ASSUME RegistryAssumption ==
  /\ KeyOf \in [Product -> Key]
  /\ Targets \subseteq Status
  /\ Claims \subseteq Claim
  /\ MaxEvents \in Nat

VARIABLES
  status,     \* the committed version of each product row
  history,    \* the committed rows of lifecycle_event
  nextEvent,  \* lifecycle_event's identity sequence, which no rollback rewinds
  phase,      \* active until the transaction commits or rolls back
  written,    \* the row versions a transaction has written and not committed
  pending,    \* the events a transaction has written and not committed
  fired,      \* the firings of product's deferred triggers a transaction queued
  lock        \* the row lock a transaction holds on each product

registryVars ==
  <<status, history, nextEvent, phase, written, pending, fired, lock>>

Event == [id : Nat, product : Product, type : EventType, actor : ActorKind,
          from : Status \cup {NoState}, to : Status \cup {NoState}, xact : Tx]

Firing == [op : {"insert", "update"}, product : Product,
           old : Status \cup {Absent}, new : Status]

LockMode == {"none", "key_share", "no_key_update", "update"}

RegistryTypeOK ==
  /\ status \in [Product -> Status \cup {Absent}]
  /\ history \subseteq Event
  /\ nextEvent \in Nat
  /\ phase \in [Tx -> {"active", "committed", "aborted"}]
  /\ written \in [Tx -> [Product -> Status \cup {Unset}]]
  /\ pending \in [Tx -> SUBSET Event]
  /\ fired \in [Tx -> SUBSET Firing]
  /\ lock \in [Tx -> [Product -> LockMode]]

RegistryInit ==
  /\ status = [p \in Product |-> Absent]
  /\ history = {}
  /\ nextEvent = 1
  /\ phase = [t \in Tx |-> "active"]
  /\ written = [t \in Tx |-> [p \in Product |-> Unset]]
  /\ pending = [t \in Tx |-> {}]
  /\ fired = [t \in Tx |-> {}]
  /\ lock = [t \in Tx |-> [p \in Product |-> "none"]]

-----------------------------------------------------------------------------
(***************************************************************************)
(* Visibility and waiting.                                                 *)
(***************************************************************************)

\* A mutant: a row the transaction has not written is not looked for.
OwnVersion(t, p) == written[t][p]

\* What a statement of t sees of a row: its own version, else the committed.
View(t, p) == IF written[t][p] = Unset THEN status[p] ELSE written[t][p]

Live(s) == s \in LiveStatus

\* A mutant: row locks that make nobody wait.
RowLocksIgnored(m, n) == FALSE

\* Postgres's row lock conflicts, for the modes these statements take.
RowLocksConflict(m, n) ==
  \/ m = "update" /\ n # "none"
  \/ n = "update" /\ m # "none"
  \/ m = "no_key_update" /\ n = "no_key_update"

Unlocked(t, p, mode) ==
  \A u \in Tx \ {t} : ~RowLocksConflict(mode, lock[u][p])

\* The other rows whose entry would collide with p's in its live-serial index.
Rivals(p) == {q \in Product \ {p} : KeyOf[q] = KeyOf[p]}

\* The index reports a violation: t can see a live rival.
LiveRival(t, p) == \E q \in Rivals(p) : Live(View(t, q))

\* A mutant: a lookup before the write, in place of an index that waits.
NobodyInDoubt(t, p) == FALSE

\* The index makes t wait: another open transaction has a version of a rival
\* that is live before or after it, so whether it collides is not yet known.
RivalInDoubt(t, p) ==
  \E q \in Rivals(p), u \in Tx \ {t} :
    /\ written[u][q] # Unset
    /\ Live(status[q]) \/ Live(written[u][q])

-----------------------------------------------------------------------------
(***************************************************************************)
(* The statements. A statement the database refuses (a trigger's TP001 or  *)
(* TP003, a unique violation) ends its transaction, which is Rollback; a   *)
(* statement that must wait is not enabled.                                *)
(***************************************************************************)

\* INSERT INTO product. The key is drawn from an identity sequence, so no
\* other transaction has a row under it.
InsertProduct(t, p, s) ==
  /\ phase[t] = "active"
  /\ \A u \in Tx : View(u, p) = Absent
  /\ GuardAllowsBirth(s)
  /\ ~LiveRival(t, p)
  /\ ~RivalInDoubt(t, p)
  /\ written' = [written EXCEPT ![t][p] = s]
  /\ lock' = [lock EXCEPT ![t][p] = "no_key_update"]
  /\ fired' = [fired EXCEPT ![t] = @ \cup
       {[op |-> "insert", product |-> p, old |-> Absent, new |-> s]}]
  /\ UNCHANGED <<status, history, nextEvent, phase, pending>>

\* SELECT ... FOR UPDATE of a row the transaction can see.
LockProduct(t, p) ==
  /\ phase[t] = "active"
  /\ View(t, p) # Absent
  /\ Unlocked(t, p, "update")
  /\ lock' = [lock EXCEPT ![t][p] = "update"]
  /\ UNCHANGED <<status, history, nextEvent, phase, written, pending, fired>>

\* AFTER UPDATE OF status queues a deferred firing with this statement's OLD
\* and NEW. One whose status did not change returns at once and is left out.
UpdateQueues(p, old, new) ==
  IF old = new THEN {}
  ELSE {[op |-> "update", product |-> p, old |-> old, new |-> new]}

\* UPDATE product SET status. READ COMMITTED re-reads the row after waiting
\* for its lock, so OLD is the newest committed version or the writer's own.
UpdateStatus(t, p, new) ==
  /\ phase[t] = "active"
  /\ View(t, p) # Absent
  /\ Unlocked(t, p, "no_key_update")
  /\ GuardAllowsMove(View(t, p), new)
  /\ written' = [written EXCEPT ![t][p] = new]
  /\ lock' = [lock EXCEPT ![t][p] = IF @ = "update" THEN @ ELSE "no_key_update"]
  /\ fired' = [fired EXCEPT ![t] = @ \cup UpdateQueues(p, View(t, p), new)]
  /\ UNCHANGED <<status, history, nextEvent, phase, pending>>

\* INSERT INTO lifecycle_event: the foreign key takes a share of the product
\* row, and the database fills in id and recorded_in_xact.
RecordEvent(t, p, c) ==
  /\ phase[t] = "active"
  /\ nextEvent <= MaxEvents
  /\ View(t, p) # Absent
  /\ Unlocked(t, p, "key_share")
  /\ GuardAllowsRecording(c.actor, c.type, c.from)
  /\ (c.from = NoState) = (c.to = NoState)
  /\ pending' = [pending EXCEPT ![t] = @ \cup
       {[id |-> nextEvent, product |-> p, type |-> c.type, actor |-> c.actor,
         from |-> c.from, to |-> c.to, xact |-> t]}]
  /\ nextEvent' = nextEvent + 1
  /\ lock' = [lock EXCEPT ![t][p] = IF @ = "none" THEN "key_share" ELSE @]
  /\ UNCHANGED <<status, history, phase, written, fired>>

-----------------------------------------------------------------------------
(***************************************************************************)
(* COMMIT, where the deferred triggers fire.                               *)
(***************************************************************************)

\* A mutant: 0014's time window, which lets in what others committed meanwhile.
StepsOfAnyWriter(t, p) ==
  {e \in history \cup pending[t] : e.product = p /\ e.from # NoState}

\* The transition events this transaction wrote for a product, by xid8.
OwnSteps(t, p) ==
  {e \in pending[t] : e.product = p /\ e.from # NoState /\ e.xact = t}

\* lag(resulting_state) OVER (ORDER BY id) = previous_state, past the first.
Unbroken(steps) ==
  \A e, f \in steps :
    (e.id < f.id /\ ~\E g \in steps : e.id < g.id /\ g.id < f.id)
      => f.from = e.to

EndsAt(steps, s) ==
  \E e \in steps : e.to = s /\ \A f \in steps : f.id <= e.id

\* A mutant: the check returns for an inserted row without looking.
OriginAssumed(t, p) == TRUE

\* product_requires_provenance on INSERT: some event of this product is visible.
OriginRecorded(t, p) == \E e \in history \cup pending[t] : e.product = p

\* A mutant: the chain is checked and this firing's own move is not looked for.
MoveSettled(t, f) ==
  LET steps == OwnSteps(t, f.product)
  IN Unbroken(steps) /\ EndsAt(steps, View(t, f.product))

\* product_requires_provenance on UPDATE.
MoveExplained(t, f) ==
  LET steps == OwnSteps(t, f.product)
  IN /\ Unbroken(steps)
     /\ EndsAt(steps, View(t, f.product))
     /\ \E e \in steps : e.from = f.old /\ e.to = f.new

FiringPasses(t, f) ==
  IF f.op = "insert" THEN OriginRecorded(t, f.product)
  ELSE MoveExplained(t, f)

ChecksPass(t) == \A f \in fired[t] : FiringPasses(t, f)

\* What ends with a transaction, however it ends. A committed transaction's
\* firings are kept: nothing reads them, and they say which moves it made.
Close(t, outcome) ==
  /\ phase' = [phase EXCEPT ![t] = outcome]
  /\ written' = [written EXCEPT ![t] = [p \in Product |-> Unset]]
  /\ pending' = [pending EXCEPT ![t] = {}]
  /\ lock' = [lock EXCEPT ![t] = [p \in Product |-> "none"]]
  /\ fired' = IF outcome = "committed" THEN fired ELSE [fired EXCEPT ![t] = {}]
  /\ UNCHANGED nextEvent

Commit(t) ==
  /\ phase[t] = "active"
  /\ ChecksPass(t)
  /\ status' = [p \in Product |-> View(t, p)]
  /\ history' = history \cup pending[t]
  /\ Close(t, "committed")

\* ROLLBACK: the writer's choice, a lost connection, a refused statement, or a
\* deferred check that fails at COMMIT with TP004.
Rollback(t) ==
  /\ phase[t] = "active"
  /\ Close(t, "aborted")
  /\ UNCHANGED <<status, history>>

RegistryNext ==
  \E t \in Tx :
    \/ \E p \in Product, s \in Targets : InsertProduct(t, p, s)
    \/ \E p \in Product : LockProduct(t, p)
    \/ \E p \in Product, s \in Targets : UpdateStatus(t, p, s)
    \/ \E p \in Product, c \in Claims : RecordEvent(t, p, c)
    \/ Commit(t)
    \/ Rollback(t)

RegistrySpec == RegistryInit /\ [][RegistryNext]_registryVars

-----------------------------------------------------------------------------
(***************************************************************************)
(* The inductive invariant: what every open transaction's uncommitted work *)
(* owes to what is committed. ProductWritesProofs shows that it is         *)
(* inductive and that the promises below follow from it.                   *)
(***************************************************************************)

\* A closed transaction holds nothing.
ClosedHoldsNothing ==
  \A t \in Tx, p \in Product :
    phase[t] # "active" => written[t][p] = Unset /\ lock[t][p] = "none"

\* Whoever wrote a row has it locked, nobody else has, and no lock is held on a
\* row its holder cannot see.
WritesAreLocked ==
  /\ \A t \in Tx, p \in Product : lock[t][p] # "none" => View(t, p) # Absent
  /\ \A t \in Tx, p \in Product :
       written[t][p] # Unset => lock[t][p] \in {"no_key_update", "update"}
  /\ \A t, u \in Tx, p \in Product :
       t # u => ~RowLocksConflict(lock[t][p], lock[u][p])

\* A key is live at most once, in what is committed, in what one transaction
\* sees, and in what two transactions have written and not committed.
KeyLiveOnce ==
  \A p, q \in Product : (p # q /\ KeyOf[p] = KeyOf[q]) =>
    /\ ~(Live(status[p]) /\ Live(status[q]))
    /\ \A t \in Tx : Live(written[t][p]) => ~Live(View(t, q))
    /\ \A t, u \in Tx :
         t # u => ~(Live(written[t][p]) /\ Live(written[u][q]))

\* No open transaction is about to bring a retired product back.
NoRevivalUnderway ==
  \A t \in Tx, p \in Product :
    (status[p] = "retired" /\ written[t][p] # Unset) => written[t][p] = "retired"

\* A committed product has an event, and a transaction that has inserted one
\* has queued the check that it will.
OriginsOwed ==
  \A p \in Product :
    /\ status[p] # Absent => \E e \in history : e.product = p
    /\ \A t \in Tx : (written[t][p] # Unset /\ status[p] = Absent) =>
         \E f \in fired[t] : f.op = "insert" /\ f.product = p

\* A transaction about to change a committed status has queued the check of
\* the step that left that status.
ExplanationsOwed ==
  \A t \in Tx, p \in Product :
    (written[t][p] # Unset /\ status[p] # Absent /\ written[t][p] # status[p]) =>
      \E f \in fired[t] : f.op = "update" /\ f.product = p /\ f.old = status[p]

RegistryInv ==
  /\ RegistryTypeOK
  /\ ClosedHoldsNothing
  /\ WritesAreLocked
  /\ KeyLiveOnce
  /\ NoRevivalUnderway
  /\ OriginsOwed
  /\ ExplanationsOwed

-----------------------------------------------------------------------------
(***************************************************************************)
(* What the database promises whoever writes to it.                        *)
(***************************************************************************)

\* One live identity per serial (drizzle/0003, 0007, 0022): no two committed
\* products that are not retired share a key, whatever inserts and retirements
\* overlapped to get there.
OneLiveIdentityPerSerial ==
  \A p, q \in Product :
    (p # q /\ KeyOf[p] = KeyOf[q]) => ~(Live(status[p]) /\ Live(status[q]))

\* A product cannot exist without a recorded origin (drizzle/0010, 0016): every
\* committed product has a committed event.
NothingWithoutAnOrigin ==
  \A p \in Product : status[p] # Absent => \E e \in history : e.product = p

\* Retired is terminal (drizzle/0002): no commit moves a product out of
\* retirement, even one that began its move before the retirement committed.
RetiredIsTerminal ==
  [][\A p \in Product : status[p] = "retired" => status'[p] = "retired"]_registryVars

\* A committed change of status is explained by the transaction that made it
\* (drizzle/0014, 0016): that transaction wrote an event that leaves the status
\* the product had, and one that arrives at the status it now has. An event of
\* another transaction explains nothing.
ExplainedByItsWriter ==
  [][\A p \in Product :
       (status[p] # Absent /\ status'[p] # status[p]) =>
         \E t \in Tx :
           /\ phase[t] = "active" /\ phase'[t] = "committed"
           /\ \E e \in history' :
                e.xact = t /\ e.product = p /\ e.from = status[p]
           /\ \E e \in history' :
                e.xact = t /\ e.product = p /\ e.to = status'[p]]_registryVars

\* Every move a transaction made, the intermediate ones included, has an event
\* of its own transaction with both of its ends (drizzle/0014).
EveryMoveIsRecorded ==
  \A t \in Tx : phase[t] = "committed" =>
    \A f \in fired[t] : f.op = "update" =>
      \E e \in history :
        e.xact = t /\ e.product = f.product /\ e.from = f.old /\ e.to = f.new

\* docs/adr/0009:10: "A holder cannot reinstate a product. An issuer cannot clear
\* a suspension." A commit that ends a suspension carries an event of an
\* authority that says so. It holds of the repositories' writers (ProductWrites);
\* of every writer it does not, since the trigger weighs an event's type, and
\* nothing ties the type to the states the event names.
SuspensionEndsByAuthority ==
  [][\A p \in Product :
       (status[p] = "suspended" /\ status'[p] # "suspended") =>
         \E e \in history' \ history :
           /\ e.product = p /\ e.from = "suspended"
           /\ e.actor = "authority"]_registryVars

=============================================================================
