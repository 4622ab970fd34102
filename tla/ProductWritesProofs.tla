------------------------- MODULE ProductWritesProofs -------------------------
(***************************************************************************)
(* The product's writers, for any products, transactions, keys, statuses   *)
(* and calls, in three parts.                                              *)
(*                                                                         *)
(*   - The registry: whoever writes the tables, its triggers and indexes keep *)
(*     Registry's promises. RegistryInv is inductive. One lemma per conjunct *)
(*     takes RegistryInv and one step to that conjunct afterwards; a theorem *)
(*     gathers them, and the promises of Registry follow from the invariant, *)
(*     the action properties from the invariant and the step that commits. *)
(*   - The repositories' functions are writers of the registry: every step of *)
(*     ProductWrites is a step of Registry, or leaves it alone, when       *)
(*     Registry's writers may write any status and say anything. So what is *)
(*     proved of every writer holds of these, whatever they are asked.     *)
(*   - The repositories implement ProductLedger, for any overlap of calls. On *)
(*     the way: no trigger refuses what a function has decided, the answers *)
(*     are true, and a history is the path of its status.                  *)
(***************************************************************************)
EXTENDS ProductWrites, FiniteSetTheorems, Sequences, TLAPS

-----------------------------------------------------------------------------
(***************************************************************************)
(* The registry.                                                           *)
(***************************************************************************)

\* A live status is one a row can have, and none of the three marks is live.
LEMMA LiveIsStatus ==
  /\ \A s : Live(s) => s \in Status /\ s # Absent /\ s # Unset /\ s # "retired"
  /\ \A s \in Status : s # Absent /\ s # Unset
BY DEF Live, LiveStatus, Status, Absent, Unset

\* What a transaction sees of a row is a status or its absence.
LEMMA ViewType ==
  ASSUME RegistryTypeOK, NEW t \in Tx, NEW p \in Product
  PROVE  /\ View(t, p) \in Status \cup {Absent}
         /\ View(t, p) # Unset
BY DEF RegistryTypeOK, View, Status, Absent, Unset

\* The guard never brings a product to life that was not: it leaves retired
\* alone, and a live status is only reached from a live one.
LEMMA GuardKeepsDead ==
  ASSUME NEW old \in Status, NEW new \in Status, GuardAllowsMove(old, new)
  PROVE  /\ Live(new) => Live(old)
         /\ old = "retired" => new = "retired"
BY DEF GuardAllowsMove, Live, LiveStatus, Status

\* The rules TypeScript keeps and the rules the triggers keep are the same: every move, every
\* event of every capacity, and every way out of a suspension (product-status.ts,
\* recording-authority.ts; 0002 and 0012).
THEOREM TheCopiesAgree ==
  /\ \A from, to \in Status : canTransition(from, to) <=> GuardAllowsMove(from, to)
  /\ \A actor \in ActorKind, type \in EventType, from \in Status :
       GuardAllowsRecording(actor, type, from) <=>
         mayRecord(actor, type) /\ (type = "product_retired" => mayRetireFrom(actor, from))
<1>1. ASSUME NEW from \in Status, NEW to \in Status
      PROVE  canTransition(from, to) <=> GuardAllowsMove(from, to)
  BY DEF canTransition, PRODUCT_STATUS_TRANSITIONS, GuardAllowsMove, Status
<1>2. ASSUME NEW actor \in ActorKind, NEW type \in EventType, NEW from \in Status
      PROVE  GuardAllowsRecording(actor, type, from) <=>
               mayRecord(actor, type) /\ (type = "product_retired" => mayRetireFrom(actor, from))
  BY DEF GuardAllowsRecording, mayRecord, mayRetireFrom, RecordingAuthority, ActorKind
<1> QED BY <1>1, <1>2

-----------------------------------------------------------------------------
(***************************************************************************)
(* Types.                                                                  *)
(***************************************************************************)

LEMMA TypeStep ==
  ASSUME RegistryTypeOK, [RegistryNext]_registryVars
  PROVE  RegistryTypeOK'
<1>1. CASE UNCHANGED registryVars
  BY <1>1 DEF registryVars, RegistryTypeOK
<1>2. ASSUME NEW t \in Tx, NEW p \in Product, NEW s \in Targets, InsertProduct(t, p, s)
      PROVE  RegistryTypeOK'
  <2>1. s \in Status
    BY RegistryAssumption
  <2>2. [op |-> "insert", product |-> p, old |-> Absent, new |-> s] \in Firing
    BY <2>1 DEF Firing
  <2>3. fired' \in [Tx -> SUBSET Firing]
    BY <1>2, <2>2 DEF InsertProduct, RegistryTypeOK
  <2>4. written' \in [Tx -> [Product -> Status \cup {Unset}]]
    BY <1>2, <2>1 DEF InsertProduct, RegistryTypeOK
  <2>5. lock' \in [Tx -> [Product -> LockMode]]
    BY <1>2 DEF InsertProduct, RegistryTypeOK, LockMode
  <2> QED BY <1>2, <2>3, <2>4, <2>5 DEF InsertProduct, RegistryTypeOK
<1>3. ASSUME NEW t \in Tx, NEW p \in Product, LockProduct(t, p)
      PROVE  RegistryTypeOK'
  BY <1>3 DEF LockProduct, RegistryTypeOK, LockMode
<1>4. ASSUME NEW t \in Tx, NEW p \in Product, NEW s \in Targets, UpdateStatus(t, p, s)
      PROVE  RegistryTypeOK'
  <2>1. s \in Status
    BY RegistryAssumption
  <2>2. UpdateQueues(p, View(t, p), s) \subseteq Firing
    BY <1>4, <2>1, ViewType DEF UpdateQueues, Firing
  <2>3. fired' \in [Tx -> SUBSET Firing]
    BY <1>4, <2>2 DEF UpdateStatus, RegistryTypeOK
  <2>4. written' \in [Tx -> [Product -> Status \cup {Unset}]]
    BY <1>4, <2>1 DEF UpdateStatus, RegistryTypeOK
  <2>5. lock' \in [Tx -> [Product -> LockMode]]
    BY <1>4 DEF UpdateStatus, RegistryTypeOK, LockMode
  <2> QED BY <1>4, <2>3, <2>4, <2>5 DEF UpdateStatus, RegistryTypeOK
<1>5. ASSUME NEW t \in Tx, NEW p \in Product, NEW c \in Claims, RecordEvent(t, p, c)
      PROVE  RegistryTypeOK'
  <2> DEFINE e == [id |-> nextEvent, product |-> p, type |-> c.type, actor |-> c.actor,
                   from |-> c.from, to |-> c.to, xact |-> t]
  <2>1. c \in Claim
    BY RegistryAssumption
  <2>2. e \in Event
    BY <2>1 DEF RegistryTypeOK, Claim, Event
  <2>3. pending' \in [Tx -> SUBSET Event]
    BY <1>5, <2>2 DEF RecordEvent, RegistryTypeOK
  <2>4. lock' \in [Tx -> [Product -> LockMode]]
    BY <1>5 DEF RecordEvent, RegistryTypeOK, LockMode
  <2> QED BY <1>5, <2>3, <2>4 DEF RecordEvent, RegistryTypeOK
<1>6. ASSUME NEW t \in Tx, Commit(t)
      PROVE  RegistryTypeOK'
  <2>1. status' \in [Product -> Status \cup {Absent}]
    BY <1>6, ViewType DEF Commit
  <2>2. history' \subseteq Event
    BY <1>6 DEF Commit, RegistryTypeOK
  <2> QED BY <1>6, <2>1, <2>2 DEF Commit, Close, RegistryTypeOK, LockMode
<1>7. ASSUME NEW t \in Tx, Rollback(t)
      PROVE  RegistryTypeOK'
  BY <1>7 DEF Rollback, Close, RegistryTypeOK, LockMode
<1> QED BY <1>1, <1>2, <1>3, <1>4, <1>5, <1>6, <1>7 DEF RegistryNext

\* Every variable of the registry keeps its type, whatever is written.
THEOREM RegistryTypeCorrect == RegistrySpec => []RegistryTypeOK
<1>1. RegistryInit => RegistryTypeOK
  BY DEF RegistryInit, RegistryTypeOK, LockMode
<1> QED BY <1>1, TypeStep, PTL DEF RegistrySpec

-----------------------------------------------------------------------------
(***************************************************************************)
(* Locks.                                                                  *)
(***************************************************************************)

LEMMA ClosedHoldsNothingStep ==
  ASSUME RegistryInv, [RegistryNext]_registryVars
  PROVE  ClosedHoldsNothing'
<1> USE DEF RegistryInv, ClosedHoldsNothing
<1>1. CASE UNCHANGED registryVars
  BY <1>1 DEF registryVars
<1>2. ASSUME NEW t \in Tx, NEW p \in Product, NEW s \in Targets, InsertProduct(t, p, s)
      PROVE  ClosedHoldsNothing'
  BY <1>2 DEF InsertProduct, RegistryTypeOK
<1>3. ASSUME NEW t \in Tx, NEW p \in Product, LockProduct(t, p)
      PROVE  ClosedHoldsNothing'
  BY <1>3 DEF LockProduct, RegistryTypeOK
<1>4. ASSUME NEW t \in Tx, NEW p \in Product, NEW s \in Targets, UpdateStatus(t, p, s)
      PROVE  ClosedHoldsNothing'
  BY <1>4 DEF UpdateStatus, RegistryTypeOK
<1>5. ASSUME NEW t \in Tx, NEW p \in Product, NEW c \in Claims, RecordEvent(t, p, c)
      PROVE  ClosedHoldsNothing'
  BY <1>5 DEF RecordEvent, RegistryTypeOK
<1>6. ASSUME NEW t \in Tx, NEW o \in {"committed", "aborted"}, Close(t, o)
      PROVE  ClosedHoldsNothing'
  BY <1>6 DEF Close, RegistryTypeOK
<1> QED BY <1>1, <1>2, <1>3, <1>4, <1>5, <1>6 DEF RegistryNext, Commit, Rollback

\* No transaction has written a row that another has locked for writing.
LEMMA OneWriter ==
  ASSUME WritesAreLocked, NEW t \in Tx, NEW u \in Tx, t # u, NEW p \in Product,
         lock[u][p] \in {"no_key_update", "update"}
  PROVE  written[t][p] = Unset
BY DEF WritesAreLocked, RowLocksConflict

\* A row nobody can see is a row nobody has written or locked.
LEMMA UnseenIsUnlocked ==
  ASSUME RegistryTypeOK, NEW p \in Product, \A u \in Tx : View(u, p) = Absent
  PROVE  \A u \in Tx : written[u][p] = Unset /\ status[p] = Absent
BY ViewType, LiveIsStatus DEF View, RegistryTypeOK, Absent, Unset

\* Rows are inserted under a lock, written under a lock, and locked when seen.
LEMMA WritesAreLockedStep ==
  ASSUME RegistryInv, [RegistryNext]_registryVars
  PROVE  WritesAreLocked'
<1> USE DEF RegistryInv, WritesAreLocked
<1>1. CASE UNCHANGED registryVars
  BY <1>1 DEF registryVars, RowLocksConflict, View
<1>2. ASSUME NEW t \in Tx, NEW p \in Product, NEW s \in Targets, InsertProduct(t, p, s)
      PROVE  WritesAreLocked'
  <2>1. s # Unset /\ s # Absent
    BY RegistryAssumption, LiveIsStatus
  <2>2. \A u \in Tx : lock[u][p] = "none"
    BY <1>2 DEF InsertProduct
  <2> QED BY <1>2, <2>1, <2>2 DEF InsertProduct, RegistryTypeOK, RowLocksConflict, View
<1>3. ASSUME NEW t \in Tx, NEW p \in Product, LockProduct(t, p)
      PROVE  WritesAreLocked'
  BY <1>3 DEF LockProduct, RegistryTypeOK, RowLocksConflict, Unlocked, View
<1>4. ASSUME NEW t \in Tx, NEW p \in Product, NEW s \in Targets, UpdateStatus(t, p, s)
      PROVE  WritesAreLocked'
  <2>1. s # Unset /\ s # Absent
    BY RegistryAssumption, LiveIsStatus
  <2>2. \A u \in Tx, q \in Product : lock'[u][q] # "none" => View(u, q)' # Absent
    BY <1>4, <2>1 DEF UpdateStatus, RegistryTypeOK, View
  <2> QED BY <1>4, <2>2 DEF UpdateStatus, RegistryTypeOK, RowLocksConflict, Unlocked
<1>5. ASSUME NEW t \in Tx, NEW p \in Product, NEW c \in Claims, RecordEvent(t, p, c)
      PROVE  WritesAreLocked'
  BY <1>5 DEF RecordEvent, RegistryTypeOK, RowLocksConflict, Unlocked, View
<1>6. ASSUME NEW t \in Tx, Commit(t)
      PROVE  WritesAreLocked'
  <2>1. \A u \in Tx, q \in Product : lock'[u][q] # "none" => View(u, q)' # Absent
    <3> SUFFICES ASSUME NEW u \in Tx, NEW q \in Product, lock'[u][q] # "none"
                 PROVE  View(u, q)' # Absent
      OBVIOUS
    <3>1. u # t /\ lock[u][q] # "none" /\ written'[u][q] = written[u][q]
      BY <1>6 DEF Commit, Close, RegistryTypeOK
    <3>2. View(u, q) # Absent
      BY <3>1
    <3>3. status[q] # Absent => View(t, q) # Absent
      BY LiveIsStatus DEF View, RegistryTypeOK
    <3> QED BY <1>6, <3>1, <3>2, <3>3 DEF Commit, View, RegistryTypeOK
  <2> QED BY <1>6, <2>1 DEF Commit, Close, RegistryTypeOK, RowLocksConflict
<1>7. ASSUME NEW t \in Tx, Rollback(t)
      PROVE  WritesAreLocked'
  BY <1>7 DEF Rollback, Close, RegistryTypeOK, RowLocksConflict, View
<1> QED BY <1>1, <1>2, <1>3, <1>4, <1>5, <1>6, <1>7 DEF RegistryNext

-----------------------------------------------------------------------------
(***************************************************************************)
(* Live serials.                                                           *)
(***************************************************************************)

LEMMA KeyLiveOnceStep ==
  ASSUME RegistryInv, [RegistryNext]_registryVars
  PROVE  KeyLiveOnce'
<1> USE DEF RegistryInv
<1>1. CASE UNCHANGED registryVars
  BY <1>1 DEF registryVars, KeyLiveOnce, View, Live
<1>2. ASSUME NEW t \in Tx, NEW p \in Product, NEW s \in Targets, InsertProduct(t, p, s)
      PROVE  KeyLiveOnce'
  <2> SUFFICES ASSUME NEW x \in Product, NEW y \in Product, x # y, KeyOf[x] = KeyOf[y]
               PROVE  /\ ~(Live(status[x]) /\ Live(status[y]))'
                      /\ \A u \in Tx : Live(written'[u][x]) => ~Live(View(u, y)')
                      /\ \A u, v \in Tx : u # v =>
                           ~(Live(written'[u][x]) /\ Live(written'[v][y]))
    BY DEF KeyLiveOnce, Live
  <2>1. ~Live(status[x]) \/ ~Live(status[y])
    BY DEF KeyLiveOnce
  <2>2. \A q \in Product : (q # p /\ KeyOf[q] = KeyOf[p]) =>
          /\ ~Live(View(t, q))
          /\ \A u \in Tx \ {t} : ~Live(written[u][q])
    BY <1>2, LiveIsStatus DEF InsertProduct, LiveRival, RivalInDoubt, Rivals
  <2>3. \A u \in Tx : ~Live(View(u, p)) /\ ~Live(written[u][p])
    BY <1>2, UnseenIsUnlocked, LiveIsStatus DEF InsertProduct
  <2>4. \A u \in Tx, q \in Product : <<u, q>> # <<t, p>> =>
          written'[u][q] = written[u][q] /\ View(u, q)' = View(u, q)
    BY <1>2 DEF InsertProduct, RegistryTypeOK, View
  <2>5. ASSUME NEW u \in Tx, Live(written'[u][x])
        PROVE  ~Live(View(u, y)')
    <3>1. CASE u = t /\ x = p
      BY <3>1, <2>2, <2>4
    <3>2. CASE u = t /\ y = p
      <4>1. Live(View(t, x))
        BY <2>4, <2>5, <3>2, LiveIsStatus DEF View
      <4> QED BY <4>1, <3>2, <2>2
    <3>3. CASE u # t \/ (x # p /\ y # p)
      BY <3>3, <2>4, <2>5 DEF KeyLiveOnce
    <3> QED BY <3>1, <3>2, <3>3
  <2>6. ASSUME NEW u \in Tx, NEW v \in Tx, u # v, Live(written'[u][x])
        PROVE  ~Live(written'[v][y])
    <3>1. CASE x = p
      BY <3>1, <2>2, <2>3, <2>4, <2>6
    <3>2. CASE y = p
      BY <3>2, <2>2, <2>3, <2>4, <2>6
    <3>3. CASE x # p /\ y # p
      BY <3>3, <2>4, <2>6 DEF KeyLiveOnce
    <3> QED BY <3>1, <3>2, <3>3
  <2> QED BY <1>2, <2>1, <2>5, <2>6 DEF InsertProduct, Live
<1>3. ASSUME NEW t \in Tx, NEW p \in Product, LockProduct(t, p)
      PROVE  KeyLiveOnce'
  BY <1>3 DEF LockProduct, KeyLiveOnce, View, Live
<1>4. ASSUME NEW t \in Tx, NEW p \in Product, NEW s \in Targets, UpdateStatus(t, p, s)
      PROVE  KeyLiveOnce'
  <2> SUFFICES ASSUME NEW x \in Product, NEW y \in Product, x # y, KeyOf[x] = KeyOf[y]
               PROVE  /\ ~(Live(status[x]) /\ Live(status[y]))'
                      /\ \A u \in Tx : Live(written'[u][x]) => ~Live(View(u, y)')
                      /\ \A u, v \in Tx : u # v =>
                           ~(Live(written'[u][x]) /\ Live(written'[v][y]))
    BY DEF KeyLiveOnce, Live
  <2>1. ~Live(status[x]) \/ ~Live(status[y])
    BY DEF KeyLiveOnce
  <2>2. Live(s) => Live(View(t, p))
    BY <1>4, RegistryAssumption, ViewType, GuardKeepsDead DEF UpdateStatus
  <2>3. written'[t][p] = s /\ View(t, p)' = s
    BY <1>4, RegistryAssumption, LiveIsStatus DEF UpdateStatus, RegistryTypeOK, View
  <2>4. \A u \in Tx, q \in Product : <<u, q>> # <<t, p>> =>
          written'[u][q] = written[u][q] /\ View(u, q)' = View(u, q)
    BY <1>4 DEF UpdateStatus, RegistryTypeOK, View
  <2>5. \A u \in Tx : u # t => written[u][p] = Unset
    <3> SUFFICES ASSUME NEW u \in Tx, u # t PROVE written[u][p] = Unset
      OBVIOUS
    <3>1. ~RowLocksConflict("no_key_update", lock[u][p])
      BY <1>4 DEF UpdateStatus, Unlocked
    <3> QED BY <3>1 DEF WritesAreLocked, RowLocksConflict
  \* What a product shows t is live on a key nobody else makes live.
  <2>6. ASSUME Live(View(t, p)), NEW q \in Product, q # p, KeyOf[q] = KeyOf[p]
        PROVE  /\ ~Live(View(t, q))
               /\ \A u \in Tx : ~Live(written[u][q])
    <3>1. CASE written[t][p] # Unset
      BY <2>6, <3>1, LiveIsStatus DEF View, KeyLiveOnce
    <3>2. CASE written[t][p] = Unset
      <4>1. \A u \in Tx : View(u, p) = View(t, p)
        BY <3>2, <2>5 DEF View
      <4>2. \A u \in Tx : ~Live(written[u][q])
        BY <4>1, <2>6 DEF KeyLiveOnce
      <4>3. ~Live(status[q])
        BY <2>6, <3>2 DEF View, KeyLiveOnce
      <4> QED BY <4>2, <4>3 DEF View
    <3> QED BY <3>1, <3>2
  <2>7. ASSUME NEW u \in Tx, Live(written'[u][x])
        PROVE  ~Live(View(u, y)')
    <3>1. CASE u = t /\ x = p
      BY <3>1, <2>2, <2>3, <2>4, <2>6, <2>7
    <3>2. CASE u = t /\ y = p
      BY <3>2, <2>2, <2>3, <2>4, <2>6, <2>7
    <3>3. CASE u # t \/ (x # p /\ y # p)
      BY <3>3, <2>4, <2>7 DEF KeyLiveOnce
    <3> QED BY <3>1, <3>2, <3>3
  <2>8. ASSUME NEW u \in Tx, NEW v \in Tx, u # v, Live(written'[u][x])
        PROVE  ~Live(written'[v][y])
    <3>1. CASE u = t /\ x = p
      BY <3>1, <2>2, <2>3, <2>4, <2>6, <2>8
    <3>2. CASE v = t /\ y = p
      BY <3>2, <2>2, <2>3, <2>4, <2>6, <2>8
    <3>3. CASE (u # t \/ x # p) /\ (v # t \/ y # p)
      BY <3>3, <2>4, <2>8 DEF KeyLiveOnce
    <3> QED BY <3>1, <3>2, <3>3
  <2> QED BY <1>4, <2>1, <2>7, <2>8 DEF UpdateStatus, Live
<1>5. ASSUME NEW t \in Tx, NEW p \in Product, NEW c \in Claims, RecordEvent(t, p, c)
      PROVE  KeyLiveOnce'
  BY <1>5 DEF RecordEvent, KeyLiveOnce, View, Live
<1>6. ASSUME NEW t \in Tx, Commit(t)
      PROVE  KeyLiveOnce'
  <2> SUFFICES ASSUME NEW x \in Product, NEW y \in Product, x # y, KeyOf[x] = KeyOf[y]
               PROVE  /\ ~(Live(status'[x]) /\ Live(status'[y]))
                      /\ \A u \in Tx : Live(written'[u][x]) => ~Live(View(u, y)')
                      /\ \A u, v \in Tx : u # v =>
                           ~(Live(written'[u][x]) /\ Live(written'[v][y]))
    BY DEF KeyLiveOnce, Live
  <2>1. status'[x] = View(t, x) /\ status'[y] = View(t, y)
    BY <1>6 DEF Commit
  <2>2. \A u \in Tx, q \in Product :
          written'[u][q] = IF u = t THEN Unset ELSE written[u][q]
    BY <1>6 DEF Commit, Close, RegistryTypeOK
  <2>3. ~(Live(View(t, x)) /\ Live(View(t, y)))
    BY LiveIsStatus DEF KeyLiveOnce, View
  <2>4. ASSUME NEW u \in Tx, Live(written'[u][x])
        PROVE  ~Live(View(u, y)')
    <3>1. u # t /\ Live(written[u][x])
      BY <2>2, <2>4, LiveIsStatus
    <3>2. ~Live(View(u, y)) /\ ~Live(written[t][y])
      BY <3>1 DEF KeyLiveOnce
    <3> QED BY <2>1, <2>2, <3>1, <3>2 DEF View
  <2> QED BY <2>1, <2>2, <2>3, <2>4, LiveIsStatus DEF KeyLiveOnce
<1>7. ASSUME NEW t \in Tx, Rollback(t)
      PROVE  KeyLiveOnce'
  <2>1. \A u \in Tx, q \in Product :
          /\ written'[u][q] = IF u = t THEN Unset ELSE written[u][q]
          /\ status'[q] = status[q]
    BY <1>7 DEF Rollback, Close, RegistryTypeOK
  <2> QED BY <2>1, LiveIsStatus DEF KeyLiveOnce, View, Live
<1> QED BY <1>1, <1>2, <1>3, <1>4, <1>5, <1>6, <1>7 DEF RegistryNext


-----------------------------------------------------------------------------
(***************************************************************************)
(* What is owed for uncommitted writes.                                    *)
(***************************************************************************)

\* What a step does to the status, the writes and the firings of a row, which
\* is all the last three conjuncts and the action properties look at.
LEMMA UpdateTouchesOneRow ==
  ASSUME RegistryInv, NEW t \in Tx, NEW p \in Product, NEW s \in Targets,
         UpdateStatus(t, p, s)
  PROVE  /\ s \in Status /\ View(t, p) \in Status
         /\ status' = status /\ history' = history
         /\ written'[t][p] = s
         /\ \A u \in Tx, q \in Product :
              (u # t \/ q # p) => written'[u][q] = written[u][q]
         /\ fired'[t] = fired[t] \cup UpdateQueues(p, View(t, p), s)
         /\ \A u \in Tx : fired[u] \subseteq fired'[u]
BY RegistryAssumption, ViewType DEF UpdateStatus, RegistryInv, RegistryTypeOK

LEMMA InsertTouchesOneRow ==
  ASSUME RegistryInv, NEW t \in Tx, NEW p \in Product, NEW s \in Targets,
         InsertProduct(t, p, s)
  PROVE  /\ status' = status /\ history' = history /\ status[p] = Absent
         /\ \A u \in Tx, q \in Product :
              (u # t \/ q # p) => written'[u][q] = written[u][q]
         /\ [op |-> "insert", product |-> p, old |-> Absent, new |-> s] \in fired'[t]
         /\ \A u \in Tx : fired[u] \subseteq fired'[u]
BY UnseenIsUnlocked DEF InsertProduct, RegistryInv, RegistryTypeOK

\* A commit installs what its transaction sees, and takes nothing from the
\* others: a row they have written is a row it has not.
LEMMA CommitInstallsOneWriter ==
  ASSUME RegistryInv, NEW t \in Tx, Commit(t)
  PROVE  /\ \A q \in Product : status'[q] = View(t, q)
         /\ written'[t] = [q \in Product |-> Unset]
         /\ \A u \in Tx \ {t}, q \in Product :
              /\ written'[u][q] = written[u][q]
              /\ fired'[u] = fired[u]
              /\ written[u][q] # Unset => status'[q] = status[q]
<1>1. /\ \A q \in Product : status'[q] = View(t, q)
      /\ written'[t] = [q \in Product |-> Unset]
      /\ \A u \in Tx \ {t} : written'[u] = written[u] /\ fired'[u] = fired[u]
  BY DEF Commit, Close, RegistryInv, RegistryTypeOK
<1>2. ASSUME NEW u \in Tx \ {t}, NEW q \in Product, written[u][q] # Unset
      PROVE  written[t][q] = Unset
  BY <1>2, OneWriter DEF RegistryInv, WritesAreLocked
<1> QED BY <1>1, <1>2 DEF View

LEMMA RollbackTouchesNoRow ==
  ASSUME RegistryInv, NEW t \in Tx, Rollback(t)
  PROVE  /\ status' = status /\ history' = history
         /\ written'[t] = [q \in Product |-> Unset]
         /\ \A u \in Tx \ {t} : written'[u] = written[u] /\ fired'[u] = fired[u]
BY DEF Rollback, Close, RegistryInv, RegistryTypeOK

LEMMA NoRevivalUnderwayStep ==
  ASSUME RegistryInv, [RegistryNext]_registryVars
  PROVE  NoRevivalUnderway'
<1> USE DEF RegistryInv, NoRevivalUnderway
<1>1. CASE UNCHANGED registryVars
  BY <1>1 DEF registryVars
<1>2. ASSUME NEW t \in Tx, NEW p \in Product, NEW s \in Targets, InsertProduct(t, p, s)
      PROVE  NoRevivalUnderway'
  <2>1. status[p] = Absent /\ status' = status
    BY <1>2, InsertTouchesOneRow
  <2>2. \A u \in Tx, q \in Product : (u # t \/ q # p) => written'[u][q] = written[u][q]
    BY <1>2, InsertTouchesOneRow
  <2> QED BY <2>1, <2>2 DEF Absent
<1>3. ASSUME NEW t \in Tx, NEW p \in Product, LockProduct(t, p)
      PROVE  NoRevivalUnderway'
  BY <1>3 DEF LockProduct
<1>4. ASSUME NEW t \in Tx, NEW p \in Product, NEW s \in Targets, UpdateStatus(t, p, s)
      PROVE  NoRevivalUnderway'
  <2>1. status[p] = "retired" => s = "retired"
    <3>1. GuardAllowsMove(View(t, p), s)
      BY <1>4 DEF UpdateStatus
    <3>2. View(t, p) = "retired" => s = "retired"
      BY <1>4, <3>1, UpdateTouchesOneRow, GuardKeepsDead
    <3> QED BY <3>2 DEF View
  <2> QED BY <1>4, <2>1, UpdateTouchesOneRow
<1>5. ASSUME NEW t \in Tx, NEW p \in Product, NEW c \in Claims, RecordEvent(t, p, c)
      PROVE  NoRevivalUnderway'
  BY <1>5 DEF RecordEvent
<1>6. ASSUME NEW t \in Tx, Commit(t)
      PROVE  NoRevivalUnderway'
  BY <1>6, CommitInstallsOneWriter
<1>7. ASSUME NEW t \in Tx, Rollback(t)
      PROVE  NoRevivalUnderway'
  BY <1>7, RollbackTouchesNoRow
<1> QED BY <1>1, <1>2, <1>3, <1>4, <1>5, <1>6, <1>7 DEF RegistryNext

LEMMA OriginsOwedStep ==
  ASSUME RegistryInv, [RegistryNext]_registryVars
  PROVE  OriginsOwed'
<1> USE DEF RegistryInv, OriginsOwed
<1>1. CASE UNCHANGED registryVars
  BY <1>1 DEF registryVars
<1>2. ASSUME NEW t \in Tx, NEW p \in Product, NEW s \in Targets, InsertProduct(t, p, s)
      PROVE  OriginsOwed'
  <2>1. status[p] = Absent /\ status' = status
    BY <1>2, InsertTouchesOneRow
  <2>2. \A u \in Tx, q \in Product : (u # t \/ q # p) => written'[u][q] = written[u][q]
    BY <1>2, InsertTouchesOneRow
  <2>3. [op |-> "insert", product |-> p, old |-> Absent, new |-> s] \in fired'[t]
    BY <1>2, InsertTouchesOneRow
  <2>4. \E f \in fired'[t] : f.op = "insert" /\ f.product = p
    BY <2>3
  <2>5. history' = history /\ \A u \in Tx : fired[u] \subseteq fired'[u]
    BY <1>2, InsertTouchesOneRow
  <2> QED BY <2>1, <2>2, <2>4, <2>5
<1>3. ASSUME NEW t \in Tx, NEW p \in Product, LockProduct(t, p)
      PROVE  OriginsOwed'
  BY <1>3 DEF LockProduct
<1>4. ASSUME NEW t \in Tx, NEW p \in Product, NEW s \in Targets, UpdateStatus(t, p, s)
      PROVE  OriginsOwed'
  <2>1. status[p] = Absent => written[t][p] # Unset
    BY <1>4 DEF UpdateStatus, View
  <2> QED BY <1>4, <2>1, UpdateTouchesOneRow
<1>5. ASSUME NEW t \in Tx, NEW p \in Product, NEW c \in Claims, RecordEvent(t, p, c)
      PROVE  OriginsOwed'
  BY <1>5 DEF RecordEvent
<1>6. ASSUME NEW t \in Tx, Commit(t)
      PROVE  OriginsOwed'
  <2>1. ASSUME NEW q \in Product, status'[q] # Absent
        PROVE  \E e \in history' : e.product = q
    <3>1. CASE status[q] # Absent
      BY <1>6, <3>1 DEF Commit
    <3>2. CASE status[q] = Absent
      <4>1. written[t][q] # Unset
        BY <1>6, <2>1, <3>2, CommitInstallsOneWriter DEF View
      <4>2. PICK f \in fired[t] : f.op = "insert" /\ f.product = q
        BY <3>2, <4>1
      <4>3. OriginRecorded(t, q)
        BY <1>6, <4>2 DEF Commit, ChecksPass, FiringPasses
      <4> QED BY <1>6, <4>3 DEF Commit, OriginRecorded
    <3> QED BY <3>1, <3>2
  <2>2. ASSUME NEW u \in Tx, NEW q \in Product, written'[u][q] # Unset, status'[q] = Absent
        PROVE  \E f \in fired'[u] : f.op = "insert" /\ f.product = q
    <3>1. u # t
      BY <1>6, <2>2, CommitInstallsOneWriter
    <3>2. written[u][q] # Unset /\ status[q] = Absent /\ fired'[u] = fired[u]
      BY <1>6, <2>2, <3>1, CommitInstallsOneWriter
    <3> QED BY <3>2
  <2> QED BY <2>1, <2>2
<1>7. ASSUME NEW t \in Tx, Rollback(t)
      PROVE  OriginsOwed'
  BY <1>7, RollbackTouchesNoRow
<1> QED BY <1>1, <1>2, <1>3, <1>4, <1>5, <1>6, <1>7 DEF RegistryNext

LEMMA ExplanationsOwedStep ==
  ASSUME RegistryInv, [RegistryNext]_registryVars
  PROVE  ExplanationsOwed'
<1> USE DEF RegistryInv, ExplanationsOwed
<1>1. CASE UNCHANGED registryVars
  BY <1>1 DEF registryVars
<1>2. ASSUME NEW t \in Tx, NEW p \in Product, NEW s \in Targets, InsertProduct(t, p, s)
      PROVE  ExplanationsOwed'
  <2>1. status[p] = Absent /\ status' = status
    BY <1>2, InsertTouchesOneRow
  <2>2. \A u \in Tx, q \in Product : (u # t \/ q # p) => written'[u][q] = written[u][q]
    BY <1>2, InsertTouchesOneRow
  <2>3. \A u \in Tx : fired[u] \subseteq fired'[u]
    BY <1>2, InsertTouchesOneRow
  <2> QED BY <2>1, <2>2, <2>3
<1>3. ASSUME NEW t \in Tx, NEW p \in Product, LockProduct(t, p)
      PROVE  ExplanationsOwed'
  BY <1>3 DEF LockProduct
<1>4. ASSUME NEW t \in Tx, NEW p \in Product, NEW s \in Targets, UpdateStatus(t, p, s)
      PROVE  ExplanationsOwed'
  <2>1. ASSUME status[p] # Absent, s # status[p]
        PROVE  \E f \in fired'[t] : f.op = "update" /\ f.product = p /\ f.old = status[p]
    <3>1. CASE View(t, p) = status[p]
      <4>1. fired'[t] = fired[t] \cup UpdateQueues(p, View(t, p), s)
        BY <1>4, UpdateTouchesOneRow
      <4>2. [op |-> "update", product |-> p, old |-> status[p], new |-> s] \in fired'[t]
        BY <2>1, <3>1, <4>1 DEF UpdateQueues
      <4> QED BY <4>2
    <3>2. CASE View(t, p) # status[p]
      BY <1>4, <2>1, <3>2, UpdateTouchesOneRow DEF View
    <3> QED BY <3>1, <3>2
  <2> QED BY <1>4, <2>1, UpdateTouchesOneRow
<1>5. ASSUME NEW t \in Tx, NEW p \in Product, NEW c \in Claims, RecordEvent(t, p, c)
      PROVE  ExplanationsOwed'
  BY <1>5 DEF RecordEvent
<1>6. ASSUME NEW t \in Tx, Commit(t)
      PROVE  ExplanationsOwed'
  BY <1>6, CommitInstallsOneWriter
<1>7. ASSUME NEW t \in Tx, Rollback(t)
      PROVE  ExplanationsOwed'
  BY <1>7, RollbackTouchesNoRow
<1> QED BY <1>1, <1>2, <1>3, <1>4, <1>5, <1>6, <1>7 DEF RegistryNext

-----------------------------------------------------------------------------
(***************************************************************************)
(* The invariant and the promises.                                         *)
(***************************************************************************)

\* The inductive invariant holds in every state of the registry.
THEOREM RegistryInvariance == RegistrySpec => []RegistryInv
<1>1. RegistryInit => RegistryInv
  BY LiveIsStatus
     DEF RegistryInit, RegistryInv, RegistryTypeOK, LockMode, ClosedHoldsNothing,
         WritesAreLocked, RowLocksConflict, KeyLiveOnce, NoRevivalUnderway,
         OriginsOwed, ExplanationsOwed
<1>2. RegistryInv /\ [RegistryNext]_registryVars => RegistryInv'
  BY TypeStep, ClosedHoldsNothingStep, WritesAreLockedStep, KeyLiveOnceStep,
     NoRevivalUnderwayStep, OriginsOwedStep, ExplanationsOwedStep
     DEF RegistryInv
<1> QED BY <1>1, <1>2, PTL DEF RegistrySpec

\* No two live products share a serial's key, however inserts, retirements,
\* waits and rollbacks of any number of transactions interleave.
THEOREM SerialsAreUnique == RegistrySpec => []OneLiveIdentityPerSerial
<1>1. RegistryInv => OneLiveIdentityPerSerial
  BY DEF RegistryInv, KeyLiveOnce, OneLiveIdentityPerSerial
<1> QED BY <1>1, RegistryInvariance, PTL

\* Every committed product has a committed event.
THEOREM ProductsHaveOrigins == RegistrySpec => []NothingWithoutAnOrigin
<1>1. RegistryInv => NothingWithoutAnOrigin
  BY DEF RegistryInv, OriginsOwed, NothingWithoutAnOrigin
<1> QED BY <1>1, RegistryInvariance, PTL

\* No step takes a product out of retirement.
THEOREM RetirementIsFinal == RegistrySpec => RetiredIsTerminal
<1>1. ASSUME RegistryInv, [RegistryNext]_registryVars
      PROVE  [\A p \in Product :
                status[p] = "retired" => status'[p] = "retired"]_registryVars
  <2>1. CASE status' = status
    BY <2>1
  <2>2. ASSUME NEW t \in Tx, Commit(t)
        PROVE  \A p \in Product : status[p] = "retired" => status'[p] = "retired"
    BY <1>1, <2>2, CommitInstallsOneWriter DEF View, RegistryInv, NoRevivalUnderway
  <2> QED BY <1>1, <2>1, <2>2
          DEF RegistryNext, registryVars, InsertProduct, LockProduct, UpdateStatus,
              RecordEvent, Rollback
<1> QED BY <1>1, RegistryInvariance, PTL DEF RegistrySpec, RetiredIsTerminal

\* A commit that changes a status carries the events that leave the old status
\* and arrive at the new one, written by the transaction that commits.
THEOREM ChangesAreExplained == RegistrySpec => ExplainedByItsWriter
<1> DEFINE Explained(p) ==
      (status[p] # Absent /\ status'[p] # status[p]) =>
        \E t \in Tx :
          /\ phase[t] = "active" /\ phase'[t] = "committed"
          /\ \E e \in history' : e.xact = t /\ e.product = p /\ e.from = status[p]
          /\ \E e \in history' : e.xact = t /\ e.product = p /\ e.to = status'[p]
<1>1. ASSUME RegistryInv, NEW t \in Tx, Commit(t), NEW p \in Product
      PROVE  Explained(p)
  <2> SUFFICES ASSUME status[p] # Absent, status'[p] # status[p]
               PROVE  /\ \E e \in history' : e.xact = t /\ e.product = p /\ e.from = status[p]
                      /\ \E e \in history' : e.xact = t /\ e.product = p /\ e.to = status'[p]
    BY <1>1 DEF Commit, Close, RegistryInv, RegistryTypeOK
  <2>1. status'[p] = View(t, p)
    BY <1>1, CommitInstallsOneWriter
  <2>2. PICK f \in fired[t] : f.op = "update" /\ f.product = p /\ f.old = status[p]
    BY <1>1, <2>1 DEF View, RegistryInv, ExplanationsOwed
  <2>3. MoveExplained(t, f)
    BY <1>1, <2>2 DEF Commit, ChecksPass, FiringPasses
  <2>4. history' = history \cup pending[t]
    BY <1>1 DEF Commit
  <2>5. \E e \in OwnSteps(t, p) : e.from = status[p]
    BY <2>2, <2>3 DEF MoveExplained
  <2>6. \E e \in OwnSteps(t, p) : e.to = status'[p]
    BY <2>1, <2>2, <2>3 DEF MoveExplained, EndsAt
  <2> QED BY <2>4, <2>5, <2>6 DEF OwnSteps
<1>2. ASSUME RegistryInv, [RegistryNext]_registryVars
      PROVE  [\A p \in Product : Explained(p)]_registryVars
  <2>1. CASE status' = status
    BY <2>1
  <2>2. ASSUME NEW t \in Tx, Commit(t)
        PROVE  \A p \in Product : Explained(p)
    BY <1>1, <1>2, <2>2
  <2> QED BY <1>2, <2>1, <2>2
          DEF RegistryNext, registryVars, InsertProduct, LockProduct, UpdateStatus,
              RecordEvent, Rollback
<1> QED BY <1>2, RegistryInvariance, PTL DEF RegistrySpec, ExplainedByItsWriter

\* Every move of a committed transaction has an event of that transaction with
\* both of its ends. Inductive as it stands: an open transaction alone queues
\* firings, and a commit is where they are checked.
THEOREM MovesAreRecorded == RegistrySpec => []EveryMoveIsRecorded
<1>1. RegistryInit => EveryMoveIsRecorded
  BY DEF RegistryInit, EveryMoveIsRecorded
<1>2. ASSUME RegistryInv, EveryMoveIsRecorded, [RegistryNext]_registryVars
      PROVE  EveryMoveIsRecorded'
  <2>1. ASSUME NEW t \in Tx, phase[t] = "active", phase' = phase,
               \A u \in Tx \ {t} : fired'[u] = fired[u], history' = history
        PROVE  EveryMoveIsRecorded'
    BY <1>2, <2>1 DEF EveryMoveIsRecorded
  <2>2. ASSUME NEW t \in Tx, Commit(t)
        PROVE  EveryMoveIsRecorded'
    <3>1. /\ history' = history \cup pending[t]
          /\ fired' = fired
          /\ \A u \in Tx : phase'[u] = IF u = t THEN "committed" ELSE phase[u]
      BY <1>2, <2>2 DEF Commit, Close, RegistryInv, RegistryTypeOK
    <3>2. ASSUME NEW f \in fired[t], f.op = "update"
          PROVE  \E e \in history' :
                   e.xact = t /\ e.product = f.product /\ e.from = f.old /\ e.to = f.new
      <4>1. MoveExplained(t, f)
        BY <2>2, <3>2 DEF Commit, ChecksPass, FiringPasses
      <4>2. PICK e \in OwnSteps(t, f.product) : e.from = f.old /\ e.to = f.new
        BY <4>1 DEF MoveExplained
      <4> QED BY <3>1, <4>2 DEF OwnSteps
    <3> QED BY <1>2, <3>1, <3>2 DEF EveryMoveIsRecorded
  <2>3. ASSUME NEW t \in Tx, Rollback(t)
        PROVE  EveryMoveIsRecorded'
    <3>1. /\ history' = history
          /\ \A u \in Tx : phase'[u] = IF u = t THEN "aborted" ELSE phase[u]
          /\ \A u \in Tx \ {t} : fired'[u] = fired[u]
      BY <1>2, <2>3 DEF Rollback, Close, RegistryInv, RegistryTypeOK
    <3> QED BY <1>2, <3>1 DEF EveryMoveIsRecorded
  <2>4. ASSUME NEW t \in Tx, NEW p \in Product, NEW s \in Targets,
               InsertProduct(t, p, s) \/ UpdateStatus(t, p, s)
        PROVE  EveryMoveIsRecorded'
    <3>1. /\ phase[t] = "active" /\ phase' = phase /\ history' = history
          /\ \A u \in Tx \ {t} : fired'[u] = fired[u]
      BY <1>2, <2>4 DEF InsertProduct, UpdateStatus, RegistryInv, RegistryTypeOK
    <3> QED BY <2>1, <3>1
  <2>5. ASSUME NEW t \in Tx, NEW p \in Product, LockProduct(t, p)
        PROVE  EveryMoveIsRecorded'
    BY <2>1, <2>5 DEF LockProduct
  <2>6. ASSUME NEW t \in Tx, NEW p \in Product, NEW c \in Claims, RecordEvent(t, p, c)
        PROVE  EveryMoveIsRecorded'
    BY <2>1, <2>6 DEF RecordEvent
  <2>7. CASE UNCHANGED registryVars
    BY <1>2, <2>7 DEF registryVars, EveryMoveIsRecorded
  <2> QED BY <1>2, <2>2, <2>3, <2>4, <2>5, <2>6, <2>7 DEF RegistryNext
<1> QED BY <1>1, <1>2, RegistryInvariance, PTL DEF RegistrySpec

-----------------------------------------------------------------------------
(***************************************************************************)
(* The functions are writers of the registry.                              *)
(***************************************************************************)

\* The event a function writes is one a writer of the registry may write.
LEMMA ClaimOfType ==
  ASSUME WritesTypeOK, NEW t \in Tx, call[t] \in Calls
  PROVE  ClaimOf(t) \in Claim
<1> DEFINE c == call[t]
<1>1. c \in Call
  BY CallsAssumption
<1>2. c.to \in Status /\ c.actor \in ActorKind
  BY <1>1 DEF Call
<1>3. seen[t] \in Status \cup {NoState}
  BY DEF WritesTypeOK
<1>4. \A from, to : eventFor(from, to) \in EventType
  BY DEF eventFor, EventType
<1>5. CASE Inserts(c)
  BY <1>2, <1>5 DEF ClaimOf, Decided, Claim, EventType
<1>6. CASE ~Inserts(c)
  BY <1>2, <1>3, <1>4, <1>6 DEF ClaimOf, Decided, Claim
<1> QED BY <1>5, <1>6

\* A transaction past "idle" has been asked something.
AskedBeforeRunning == \A t \in Tx : step[t] # "idle" => call[t] \in Calls

LEMMA StepIsRegistryStep ==
  ASSUME WritesTypeOK, AskedBeforeRunning, [WritesNext]_vars,
         Targets = Status, Claims = Claim
  PROVE  [RegistryNext]_registryVars
<1>1. CASE UNCHANGED vars
  BY <1>1 DEF vars
<1>2. ASSUME NEW t \in Tx, step[t] # "idle", Proceed(t) \/ FinishUnheard(t) \/ Fail(t)
                                             \/ RereadFails(t)
      PROVE  [RegistryNext]_registryVars
  <2>1. call[t].product \in Product /\ call[t].to \in Status
    BY <1>2, CallsAssumption DEF AskedBeforeRunning, Call
  <2>2. CASE Insert(t)
    BY <2>1, <2>2 DEF Insert, RegistryNext
  <2>3. CASE Select(t)
    BY <2>1, <2>3 DEF Select, SelectRow, RegistryNext
  <2>4. CASE Update(t)
    BY <2>1, <2>4 DEF Update, RegistryNext
  <2>5. CASE Record(t)
    BY <1>2, <2>1, <2>5, ClaimOfType DEF Record, AskedBeforeRunning, RegistryNext
  <2>6. CASE Finish(t) \/ FinishUnheard(t)
    BY <2>6 DEF Finish, FinishUnheard, RegistryNext
  <2>7. CASE NotAuthorised(t) \/ DuplicateSerial(t) \/ UpdateRefused(t) \/ Fail(t)
    BY <2>7 DEF NotAuthorised, DuplicateSerial, UpdateRefused, CaughtOutside, Fail,
                RegistryNext
  <2>8. CASE Authorised(t) \/ SelectNothing(t) \/ Reread(t) \/ RereadFails(t)
    BY <2>8 DEF Authorised, SelectNothing, Reread, RereadFails
  <2> QED BY <1>2, <2>2, <2>3, <2>4, <2>5, <2>6, <2>7, <2>8 DEF Proceed
<1>3. ASSUME NEW t \in Tx, NEW c \in Calls, Begin(t, c)
      PROVE  [RegistryNext]_registryVars
  BY <1>3 DEF Begin
<1>4. ASSUME NEW t \in Tx, Proceed(t) \/ FinishUnheard(t) \/ Fail(t) \/ RereadFails(t)
      PROVE  step[t] # "idle"
  BY <1>4 DEF Proceed, Authorised, NotAuthorised, Insert, DuplicateSerial, Select,
              SelectNothing, Update, UpdateRefused, Reread, Record, Finish,
              FinishUnheard, Fail, RereadFails, At
<1> QED BY <1>1, <1>2, <1>3, <1>4 DEF WritesNext

\* What a step does to one entry of a variable of the program keeps its type.
LEMMA WritesTypeStep ==
  ASSUME WritesTypeOK, AskedBeforeRunning, [WritesNext]_vars,
         Targets = Status, Claims = Claim
  PROVE  WritesTypeOK' /\ AskedBeforeRunning'
<1>1. RegistryTypeOK'
  BY StepIsRegistryStep, TypeStep DEF WritesTypeOK
<1>2. CASE UNCHANGED vars
  BY <1>1, <1>2 DEF vars, programVars, WritesTypeOK, AskedBeforeRunning
<1>3. ASSUME NEW t \in Tx, NEW c \in Calls, Begin(t, c)
      PROVE  WritesTypeOK' /\ AskedBeforeRunning'
  <2>1. c.fn \in {"insertProduct", "enrolProduct", "changeProductStatus"}
    BY CallsAssumption DEF Call
  <2> QED BY <1>1, <1>3, <2>1 DEF Begin, Goes, WritesTypeOK, AskedBeforeRunning
<1>4. ASSUME NEW t \in Tx, Proceed(t) \/ FinishUnheard(t) \/ Fail(t) \/ RereadFails(t)
      PROVE  WritesTypeOK' /\ AskedBeforeRunning'
  <2>1. call' = call /\ step[t] # "idle"
    BY <1>4 DEF Proceed, Authorised, NotAuthorised, Insert, DuplicateSerial, Select,
                SelectNothing, Update, UpdateRefused, Reread, Record, Finish,
                FinishUnheard, Fail, RereadFails, At
  <2>2. call[t].product \in Product
    BY <2>1, CallsAssumption DEF AskedBeforeRunning, Call
  <2> DEFINE q == call[t].product
  <2>3. \E s \in {"idle", "authorise", "insert", "select", "update", "event",
                  "commit", "reread", "done"} : Goes(t, s)
    BY <1>4 DEF Proceed, Authorised, NotAuthorised, Insert, DuplicateSerial, Select,
                SelectNothing, Update, UpdateRefused, Reread, Record, Finish,
                FinishUnheard, Fail, RereadFails
  <2>4. step' \in [Tx -> {"idle", "authorise", "insert", "select", "update", "event",
                          "commit", "reread", "done"}]
        /\ \A u \in Tx \ {t} : step'[u] = step[u]
    BY <2>3 DEF WritesTypeOK, Goes
  <2>5. seen' = seen \/ \E s \in Status : seen' = [seen EXCEPT ![t] = s]
    <3>1. CASE Select(t)
      <4>1. View(t, q) \in Status
        BY <2>2, <3>1, ViewType DEF Select, SelectRow, LockProduct, WritesTypeOK
      <4> QED BY <3>1, <4>1 DEF Select
    <3>2. CASE ~Select(t)
      BY <1>4, <3>2 DEF Proceed, Authorised, NotAuthorised, Insert, DuplicateSerial,
                SelectNothing, Update, UpdateRefused, Reread, Record, Finish,
                FinishUnheard, Fail, RereadFails
    <3> QED BY <3>1, <3>2
  <2>6. answer' = answer \/ \E a \in Answer : Answers(t, a)
    <3>1. \A k \in Refusals \cup {"ok", "error"} : Says(k) \in Answer
      BY DEF Says, Answer, Refusals
    <3>2. StatusOrDraft(q) \in Status
      BY <2>2 DEF StatusOrDraft, WritesTypeOK, RegistryTypeOK, Status
    <3>3. [is |-> "illegal_transition", from |-> StatusOrDraft(q)] \in Answer
      BY <3>2 DEF Answer
    <3>4. CASE Reread(t)
      BY <3>3, <3>4 DEF Reread
    <3>5. CASE ~Reread(t)
      BY <1>4, <3>1, <3>5 DEF Refusals, FailureAnswer, Proceed, Authorised, NotAuthorised,
                Insert, DuplicateSerial, Select, SelectNothing, Update, UpdateRefused,
                Record, Finish, FinishUnheard, Fail, RereadFails
    <3> QED BY <3>4, <3>5
  <2>7. seen' \in [Tx -> Status \cup {NoState}] /\ answer' \in [Tx -> Answer]
    BY <2>5, <2>6 DEF WritesTypeOK, Answers
  <2> QED BY <1>1, <2>1, <2>4, <2>7 DEF WritesTypeOK, AskedBeforeRunning
<1> QED BY <1>2, <1>3, <1>4 DEF WritesNext

\* Every variable of the functions keeps its type, and the functions are writers
\* of the registry.
THEOREM WritesRunOnRegistry ==
  ASSUME Targets = Status, Claims = Claim
  PROVE  WritesSpec => []WritesTypeOK /\ RegistrySpec
<1>1. WritesInit => WritesTypeOK /\ AskedBeforeRunning
  BY DEF WritesInit, WritesTypeOK, AskedBeforeRunning, RegistryInit, RegistryTypeOK,
         LockMode, Says, Answer
<1>2. WritesTypeOK /\ AskedBeforeRunning /\ [WritesNext]_vars
        => WritesTypeOK' /\ AskedBeforeRunning' /\ [RegistryNext]_registryVars
  BY StepIsRegistryStep, WritesTypeStep
<1>3. WritesInit => RegistryInit
  BY DEF WritesInit
<1> QED BY <1>1, <1>2, <1>3, PTL DEF WritesSpec, RegistrySpec

\* However the repositories' calls overlap, fail and are retried, no two live
\* products share a serial's key.
THEOREM RepositoriesKeepSerialsUnique ==
  ASSUME Targets = Status, Claims = Claim
  PROVE  WritesSpec => []OneLiveIdentityPerSerial
BY WritesRunOnRegistry, SerialsAreUnique, PTL

-----------------------------------------------------------------------------
(***************************************************************************)
(* Who ends a suspension.                                                  *)
(***************************************************************************)

\* A function about to write has been allowed the move it is about to record.
DecidedToMove ==
  \A t \in Tx :
    /\ step[t] \in {"insert", "authorise"} => Inserts(call[t])
    /\ (step[t] \in {"update", "event"} /\ ~Inserts(call[t])) =>
         seen[t] # call[t].to /\ MayMove(call[t].actor, seen[t], call[t].to)

\* No event about to be committed leaves a suspension on another's word.
OnlyAuthoritiesLift ==
  \A t \in Tx : \A e \in pending[t] : e.from = "suspended" => e.actor = "authority"

\* Read early, the rules let only an authority move a suspended product.
LEMMA OnlyAuthorityMayMoveSuspended ==
  ASSUME NEW actor \in ActorKind, NEW to \in ChangeableStatus, to # "suspended",
         MayMove(actor, "suspended", to)
  PROVE  actor = "authority"
<1>1. CASE to = "retired"
  BY <1>1 DEF MayMove, Decided, mayRetireFrom
<1>2. CASE to # "retired"
  <2>1. mayRecord(actor, "product_reinstated")
    BY <1>2 DEF MayMove, Decided, eventFor
  <2> QED BY <2>1 DEF mayRecord, RecordingAuthority, ActorKind
<1> QED BY <1>1, <1>2

\* Nor does the event a function writes.
LEMMA ClaimLiftsByAuthority ==
  ASSUME DecidedToMove, NEW t \in Tx, step[t] = "event", call[t] \in Calls,
         ClaimOf(t).from = "suspended"
  PROVE  ClaimOf(t).actor = "authority"
<1>1. ~Inserts(call[t])
  BY DEF ClaimOf, NoState
<1>2. /\ ClaimOf(t).from = seen[t] /\ ClaimOf(t).actor = call[t].actor
  BY <1>1 DEF ClaimOf
<1>3. call[t].to \in ChangeableStatus /\ call[t].actor \in ActorKind
  BY <1>1, CallsAssumption DEF Call, Inserts
<1>4. seen[t] = "suspended" /\ seen[t] # call[t].to
      /\ MayMove(call[t].actor, seen[t], call[t].to)
  BY <1>1, <1>2 DEF DecidedToMove
<1> QED BY <1>2, <1>3, <1>4, OnlyAuthorityMayMoveSuspended

LEMMA DecidedToMoveStep ==
  ASSUME WritesTypeOK, AskedBeforeRunning, DecidedToMove, [WritesNext]_vars
  PROVE  DecidedToMove'
<1>1. CASE UNCHANGED vars
  BY <1>1 DEF vars, programVars, DecidedToMove, Inserts
<1>2. ASSUME NEW t \in Tx, NEW c \in Calls, Begin(t, c)
      PROVE  DecidedToMove'
  <2>1. /\ step'[t] \notin {"update", "event"} /\ call'[t] = c
        /\ step'[t] \in {"insert", "authorise"} => Inserts(c)
    <3>1. c.fn \in {"insertProduct", "enrolProduct", "changeProductStatus"}
      BY CallsAssumption DEF Call
    <3> QED BY <1>2, <3>1 DEF Begin, Goes, WritesTypeOK, Inserts
  <2>2. \A u \in Tx \ {t} : step'[u] = step[u] /\ call'[u] = call[u] /\ seen'[u] = seen[u]
    BY <1>2 DEF Begin, Goes, WritesTypeOK
  <2> QED BY <2>1, <2>2 DEF DecidedToMove, Inserts
<1>3. ASSUME NEW t \in Tx, Proceed(t) \/ FinishUnheard(t) \/ Fail(t) \/ RereadFails(t)
      PROVE  DecidedToMove'
  <2>1. CASE Select(t)
    <3>1. step'[t] = "update" =>
            seen'[t] # call[t].to /\ MayMove(call[t].actor, seen'[t], call[t].to)
      BY <2>1 DEF Select, Goes, Unmoved, WritesTypeOK
    <3>2. step'[t] \notin {"event", "insert", "authorise"} /\ call' = call
      BY <2>1 DEF Select, Goes, WritesTypeOK
    <3>3. \A u \in Tx \ {t} : step'[u] = step[u] /\ seen'[u] = seen[u]
      BY <2>1 DEF Select, Goes, WritesTypeOK
    <3> QED BY <3>1, <3>2, <3>3 DEF DecidedToMove, Inserts
  <2>2. CASE Update(t)
    <3>1. step[t] = "update" /\ call' = call /\ seen' = seen
      BY <2>2 DEF Update, At
    <3>2. step'[t] = "event" /\ \A u \in Tx \ {t} : step'[u] = step[u]
      BY <2>2 DEF Update, Goes, WritesTypeOK
    <3> QED BY <3>1, <3>2 DEF DecidedToMove, Inserts
  <2>3. CASE Insert(t)
    <3>1. call' = call /\ seen' = seen
      BY <2>3 DEF Insert
    <3>2. \A u \in Tx \ {t} : step'[u] = step[u]
      BY <2>3 DEF Insert, Goes, WritesTypeOK
    <3>3. Inserts(call[t]) /\ step'[t] = "event"
      BY <2>3 DEF Insert, Goes, At, DecidedToMove, WritesTypeOK
    <3> QED BY <3>1, <3>2, <3>3 DEF DecidedToMove, Inserts
  <2>4. CASE ~Select(t) /\ ~Update(t) /\ ~Insert(t)
    <3>1. /\ call' = call /\ seen' = seen
          /\ \/ \E s \in {"commit", "reread", "done"} : Goes(t, s)
             \/ Goes(t, "insert") /\ step[t] = "authorise"
      BY <1>3, <2>4 DEF At, Proceed, Authorised, NotAuthorised, DuplicateSerial,
                SelectNothing, UpdateRefused, Reread, Record, Finish,
                FinishUnheard, Fail, RereadFails
    <3> QED BY <3>1 DEF DecidedToMove, Goes, WritesTypeOK, Inserts
  <2> QED BY <2>1, <2>2, <2>3, <2>4
<1> QED BY <1>1, <1>2, <1>3 DEF WritesNext

\* Only Record adds a pending event, and what it adds is the function's claim.
LEMMA OnlyAuthoritiesLiftStep ==
  ASSUME WritesTypeOK, AskedBeforeRunning, DecidedToMove, OnlyAuthoritiesLift,
         [WritesNext]_vars
  PROVE  OnlyAuthoritiesLift'
<1>1. CASE UNCHANGED pending
  BY <1>1 DEF OnlyAuthoritiesLift
<1>2. ASSUME NEW t \in Tx, Commit(t) \/ Rollback(t)
      PROVE  OnlyAuthoritiesLift'
  BY <1>2 DEF OnlyAuthoritiesLift, Commit, Rollback, Close, WritesTypeOK, RegistryTypeOK
<1>3. ASSUME NEW t \in Tx, Record(t)
      PROVE  OnlyAuthoritiesLift'
  <2>1. step[t] = "event" /\ call[t] \in Calls
    BY <1>3 DEF Record, At, AskedBeforeRunning
  <2>2. ClaimOf(t).from = "suspended" => ClaimOf(t).actor = "authority"
    BY <2>1, ClaimLiftsByAuthority
  <2>3. \A e \in pending'[t] : e \in pending[t] \/
          (e.from = ClaimOf(t).from /\ e.actor = ClaimOf(t).actor)
    BY <1>3 DEF Record, RecordEvent, WritesTypeOK, RegistryTypeOK
  <2>4. \A u \in Tx \ {t} : pending'[u] = pending[u]
    BY <1>3 DEF Record, RecordEvent, WritesTypeOK, RegistryTypeOK
  <2> QED BY <2>2, <2>3, <2>4 DEF OnlyAuthoritiesLift
<1>4. CASE \E t \in Tx : \/ \E c \in Calls : Begin(t, c)
                        \/ Proceed(t) \/ FinishUnheard(t) \/ Fail(t) \/ RereadFails(t)
  <2>1. UNCHANGED pending \/ \E t \in Tx : Commit(t) \/ Rollback(t) \/ Record(t)
    BY <1>4 DEF Begin, Proceed, Authorised, NotAuthorised, Insert, DuplicateSerial, Select,
              SelectRow, SelectNothing, Update, UpdateRefused, CaughtOutside, Reread, Finish,
              FinishUnheard, Fail, RereadFails, InsertProduct, LockProduct, UpdateStatus,
              registryVars
  <2> QED BY <1>1, <1>2, <1>3, <2>1
<1> QED BY <1>1, <1>4 DEF WritesNext, vars, registryVars

\* An event is its writer's, and is in the history once its writer has committed.
HistoryIsCommitted ==
  /\ \A t \in Tx : \A e \in pending[t] : e.xact = t
  /\ \A e \in history : phase[e.xact] = "committed"

LEMMA HistoryIsCommittedStep ==
  ASSUME RegistryTypeOK, HistoryIsCommitted, [RegistryNext]_registryVars
  PROVE  HistoryIsCommitted'
<1>1. CASE UNCHANGED <<pending, history, phase>>
  BY <1>1 DEF HistoryIsCommitted
<1>2. ASSUME NEW t \in Tx, NEW p \in Product, NEW c \in Claims, RecordEvent(t, p, c)
      PROVE  HistoryIsCommitted'
  BY <1>2 DEF HistoryIsCommitted, RecordEvent, RegistryTypeOK
<1>3. ASSUME NEW t \in Tx, Rollback(t)
      PROVE  HistoryIsCommitted'
  <2>1. phase[t] = "active" /\ history' = history
    BY <1>3 DEF Rollback
  <2>2. \A u \in Tx \ {t} : phase'[u] = phase[u] /\ pending'[u] = pending[u]
    BY <1>3 DEF Rollback, Close, RegistryTypeOK
  <2>3. pending'[t] = {}
    BY <1>3 DEF Rollback, Close, RegistryTypeOK
  <2>4. \A e \in history : e.xact \in Tx
    BY DEF RegistryTypeOK, Event
  <2> QED BY <2>1, <2>2, <2>3, <2>4 DEF HistoryIsCommitted
<1>4. ASSUME NEW t \in Tx, Commit(t)
      PROVE  HistoryIsCommitted'
  <2>1. history' = history \cup pending[t]
    BY <1>4 DEF Commit
  <2>2. \A u \in Tx \ {t} : phase'[u] = phase[u] /\ pending'[u] = pending[u]
    BY <1>4 DEF Commit, Close, RegistryTypeOK
  <2>3. pending'[t] = {} /\ phase'[t] = "committed"
    BY <1>4 DEF Commit, Close, RegistryTypeOK
  <2>4. \A e \in history : e.xact \in Tx
    BY DEF RegistryTypeOK, Event
  <2> QED BY <2>1, <2>2, <2>3, <2>4 DEF HistoryIsCommitted
<1> QED BY <1>1, <1>2, <1>3, <1>4
        DEF RegistryNext, registryVars, InsertProduct, LockProduct, UpdateStatus

\* Whatever the interleaving, a suspension that ends in the committed registry was
\* ended by the event of an authority: the repositories' early decision, taken
\* under the row lock, is the one thing that ties an event's type to its states.
THEOREM SuspensionsEndByAuthority ==
  ASSUME Targets = Status, Claims = Claim
  PROVE  WritesSpec => SuspensionEndsByAuthority
<1> DEFINE Explained ==
      \A p \in Product :
        (status[p] # Absent /\ status'[p] # status[p]) =>
          \E t \in Tx :
            /\ phase[t] = "active" /\ phase'[t] = "committed"
            /\ \E e \in history' : e.xact = t /\ e.product = p /\ e.from = status[p]
            /\ \E e \in history' : e.xact = t /\ e.product = p /\ e.to = status'[p]
    Lifted ==
      \A p \in Product :
        (status[p] = "suspended" /\ status'[p] # "suspended") =>
          \E e \in history' \ history :
            /\ e.product = p /\ e.from = "suspended"
            /\ e.actor = "authority"
    Inv == WritesTypeOK /\ AskedBeforeRunning /\ DecidedToMove
             /\ OnlyAuthoritiesLift /\ HistoryIsCommitted
<1>1. WritesInit => Inv
  BY DEF WritesInit, WritesTypeOK, AskedBeforeRunning, RegistryInit, RegistryTypeOK,
         LockMode, Says, Answer, DecidedToMove, OnlyAuthoritiesLift, HistoryIsCommitted
<1>2. Inv /\ [WritesNext]_vars => Inv' /\ [RegistryNext]_registryVars
  <2> SUFFICES ASSUME Inv, [WritesNext]_vars
               PROVE  Inv' /\ [RegistryNext]_registryVars
    OBVIOUS
  <2>1. [RegistryNext]_registryVars
    BY StepIsRegistryStep
  <2>2. WritesTypeOK' /\ AskedBeforeRunning'
    BY WritesTypeStep
  <2>3. DecidedToMove' /\ OnlyAuthoritiesLift'
    BY DecidedToMoveStep, OnlyAuthoritiesLiftStep
  <2>4. HistoryIsCommitted'
    BY <2>1, HistoryIsCommittedStep DEF WritesTypeOK
  <2> QED BY <2>1, <2>2, <2>3, <2>4
<1>3. Inv /\ [RegistryNext]_registryVars /\ [Explained]_registryVars
        => [Lifted]_registryVars
  <2> SUFFICES ASSUME Inv, [RegistryNext]_registryVars, [Explained]_registryVars,
                      NEW p \in Product, status[p] = "suspended", status'[p] # "suspended"
               PROVE  \E e \in history' \ history :
                        e.product = p /\ e.from = "suspended" /\ e.actor = "authority"
    OBVIOUS
  <2>1. Explained /\ RegistryNext
    BY DEF registryVars
  <2>2. PICK t \in Tx : /\ phase[t] = "active" /\ phase'[t] = "committed"
                        /\ \E e \in history' :
                             e.xact = t /\ e.product = p /\ e.from = status[p]
    BY <2>1 DEF Absent
  <2>3. Commit(t)
    BY <2>1, <2>2 DEF RegistryNext, InsertProduct, LockProduct, UpdateStatus, RecordEvent,
              Commit, Rollback, Close, WritesTypeOK, RegistryTypeOK
  <2>4. PICK e \in history' : e.xact = t /\ e.product = p /\ e.from = "suspended"
    BY <2>2
  <2>5. e \notin history
    BY <2>2, <2>4 DEF HistoryIsCommitted
  <2>6. e \in pending[t]
    BY <2>3, <2>5 DEF Commit
  <2> QED BY <2>4, <2>5, <2>6 DEF OnlyAuthoritiesLift
<1>4. WritesSpec => []Inv
  BY <1>1, <1>2, PTL DEF WritesSpec
<1>5. WritesSpec => [][Explained]_registryVars
  <2>1. WritesSpec => RegistrySpec
    BY WritesRunOnRegistry, PTL
  <2> QED BY <2>1, ChangesAreExplained, PTL DEF ExplainedByItsWriter
<1> QED BY <1>2, <1>3, <1>4, <1>5, PTL DEF WritesSpec, SuspensionEndsByAuthority

-----------------------------------------------------------------------------
(***************************************************************************)
(* The repositories implement ProductLedger.                               *)
(*                                                                         *)
(* Progress says what each call has written by each of its statements, and *)
(* that the row it decided on is held until it closes. EventsInOrder says  *)
(* that an event about to be committed is younger than every committed move *)
(* of its product, because its writer has had the row to itself since before *)
(* the id was drawn. So each commit puts one move at the end of the path   *)
(* (Explained) and of the trail (TrailGrows).                              *)
(***************************************************************************)

-----------------------------------------------------------------------------
(***************************************************************************)
(* What each call has done by each of its statements.                      *)
(***************************************************************************)

\* Nothing has been written.
Untouched(t) ==
  fired[t] = {} /\ pending[t] = {} /\ \A p \in Product : written[t][p] = Unset

\* The row is this call's to write: what it saw is what is committed.
Holds(t) ==
  LET c == call[t]
  IN IF Inserts(c)
     THEN status[c.product] = Absent /\ lock[t][c.product] \in {"no_key_update", "update"}
     ELSE /\ seen[t] \in Status /\ status[c.product] = seen[t]
          /\ lock[t][c.product] = "update"
          /\ seen[t] # c.to /\ MayMove(c.actor, seen[t], c.to)

\* The firing that writing the row queues.
Queued(t) ==
  LET c == call[t]
  IN IF Inserts(c)
     THEN [op |-> "insert", product |-> c.product, old |-> Absent, new |-> c.to]
     ELSE [op |-> "update", product |-> c.product, old |-> seen[t], new |-> c.to]

\* The row is written, and its check is queued.
RowWritten(t) ==
  LET c == call[t]
  IN /\ fired[t] = {Queued(t)}
     /\ written[t][c.product] = c.to
     /\ \A q \in Product \ {c.product} : written[t][q] = Unset
     /\ ~Inserts(c) => GuardAllowsMove(seen[t], c.to)

\* The event a call writes, under the id it draws.
EventOf(t, n) ==
  [id |-> n, product |-> call[t].product, type |-> ClaimOf(t).type,
   actor |-> ClaimOf(t).actor, from |-> ClaimOf(t).from, to |-> ClaimOf(t).to, xact |-> t]

\* The one event is written too.
EventWritten(t) == \E n \in Nat : pending[t] = {EventOf(t, n)}

\* The statements ahead of which a call has written nothing.
Before == {"idle", "authorise", "insert", "select", "reread", "update"}

ProgressOf(t) ==
  /\ step[t] \in Before => Untouched(t)
  /\ step[t] \in {"select", "update", "reread"} => ~Inserts(call[t])
  /\ step[t] \in {"authorise", "insert"} => Inserts(call[t])
  /\ step[t] = "reread" => phase[t] = "aborted"
  /\ step[t] = "done" => pending[t] = {}
  /\ step[t] = "update" => Holds(t)
  /\ step[t] = "event" => Holds(t) /\ RowWritten(t) /\ pending[t] = {}
  /\ step[t] = "commit" =>
       \/ Untouched(t) /\ answer[t].is \in Refusals
       \/ Holds(t) /\ RowWritten(t) /\ EventWritten(t) /\ answer[t].is = "ok"

Progress == \A t \in Tx : ProgressOf(t)

WritesInv ==
  /\ RegistryInv /\ WritesTypeOK /\ AskedBeforeRunning /\ DecidedToMove
  /\ OnlyAuthoritiesLift /\ HistoryIsCommitted /\ Progress /\ AnswersAreTrue

Steps(t) ==
  \/ \E c \in Calls : Begin(t, c)
  \/ Proceed(t) \/ FinishUnheard(t) \/ Fail(t) \/ RereadFails(t)

\* What a step of one call leaves alone of another's.
Apart(u) ==
  /\ call'[u] = call[u] /\ step'[u] = step[u] /\ seen'[u] = seen[u]
  /\ answer'[u] = answer[u] /\ written'[u] = written[u] /\ pending'[u] = pending[u]
  /\ fired'[u] = fired[u] /\ lock'[u] = lock[u] /\ phase'[u] = phase[u]
  /\ \A p \in Product :
       lock[u][p] \in {"no_key_update", "update"} => status'[p] = status[p]

\* A statement of one call leaves the others' work alone, and a row that another has
\* locked for writing keeps its committed version.
LEMMA OthersAreApart ==
  ASSUME RegistryInv, WritesTypeOK, NEW t \in Tx, Steps(t), NEW u \in Tx \ {t}
  PROVE  Apart(u)
<1> USE DEF WritesTypeOK, RegistryTypeOK
<1>1. /\ step'[u] = step[u] /\ call'[u] = call[u] /\ seen'[u] = seen[u]
      /\ answer'[u] = answer[u]
  BY DEF Steps, Begin, Proceed, Authorised, NotAuthorised, Insert, DuplicateSerial, Select,
         SelectNothing, Update, UpdateRefused, Reread, Record, Finish,
         FinishUnheard, Fail, RereadFails, Goes, Answers
<1>2. \/ UNCHANGED registryVars
      \/ \E p, s : InsertProduct(t, p, s) \/ UpdateStatus(t, p, s)
      \/ \E p : LockProduct(t, p)
      \/ \E p, c : RecordEvent(t, p, c)
      \/ Rollback(t) \/ Commit(t)
  BY DEF Steps, Begin, Proceed, Authorised, NotAuthorised, Insert, DuplicateSerial, Select,
         SelectRow, SelectNothing, Update, UpdateRefused, CaughtOutside, Reread, Record, Finish,
         FinishUnheard, Fail, RereadFails
<1>3. CASE UNCHANGED registryVars
  BY <1>1, <1>3 DEF registryVars, Apart
<1>4. ASSUME NEW p, NEW s, InsertProduct(t, p, s) \/ UpdateStatus(t, p, s)
      PROVE  Apart(u)
  BY <1>1, <1>4 DEF InsertProduct, UpdateStatus, Apart
<1>5. ASSUME NEW p, LockProduct(t, p) PROVE Apart(u)
  BY <1>1, <1>5 DEF LockProduct, Apart
<1>6. ASSUME NEW p, NEW c, RecordEvent(t, p, c) PROVE Apart(u)
  BY <1>1, <1>6 DEF RecordEvent, Apart
<1>7. CASE Rollback(t)
  BY <1>1, <1>7 DEF Rollback, Close, Apart
<1>8. CASE Commit(t)
  <2>1. /\ written'[u] = written[u] /\ pending'[u] = pending[u]
        /\ fired'[u] = fired[u] /\ lock'[u] = lock[u] /\ phase'[u] = phase[u]
    BY <1>8 DEF Commit, Close
  <2>2. ASSUME NEW p \in Product, lock[u][p] \in {"no_key_update", "update"}
        PROVE  status'[p] = status[p]
    <3>1. written[t][p] = Unset
      BY <2>2, OneWriter DEF RegistryInv
    <3> QED BY <1>8, <3>1 DEF Commit, View
  <2> QED BY <1>1, <2>1, <2>2 DEF Apart
<1> QED BY <1>2, <1>3, <1>4, <1>5, <1>6, <1>7, <1>8

\* So what the others have done so far, they still have.
LEMMA ApartKeepsProgress ==
  ASSUME AskedBeforeRunning, NEW u \in Tx, Apart(u), ProgressOf(u)
  PROVE  ProgressOf(u)'
<1>1. Untouched(u) => Untouched(u)'
  BY DEF Apart, Untouched
<1>2. step[u] # "idle" => call[u].product \in Product
  BY CallsAssumption DEF AskedBeforeRunning, Call
<1>3. step[u] # "idle" /\ Holds(u) => Holds(u)'
  BY <1>2 DEF Apart, Holds, Inserts
<1>4. RowWritten(u) => RowWritten(u)'
  BY DEF Apart, RowWritten, Queued, Inserts
<1>5. EventWritten(u) => EventWritten(u)'
  BY DEF Apart, EventWritten, EventOf, ClaimOf, Inserts
<1> QED BY <1>1, <1>3, <1>4, <1>5 DEF Apart, ProgressOf, Inserts

\* What the types of the calls promise.
LEMMA CallFacts ==
  ASSUME NEW c \in Calls
  PROVE  /\ c.product \in Product /\ c.to \in Status /\ c.actor \in ActorKind
         /\ c.fn \in {"insertProduct", "enrolProduct", "changeProductStatus"}
         /\ Inserts(c) => GuardAllowsBirth(c.to)
         /\ ~Inserts(c) => c.to \in ChangeableStatus
BY CallsAssumption DEF Call, Inserts, GuardAllowsBirth

\* INSERT: the row is written, its check queued, and nobody else could see its key.
LEMMA InsertProgress ==
  ASSUME WritesInv, NEW t \in Tx, Insert(t)
  PROVE  ProgressOf(t)'
<1> DEFINE c == call[t]
<1> USE DEF WritesInv, RegistryInv, WritesTypeOK, RegistryTypeOK
<1>1. /\ step[t] = "insert" /\ step'[t] = "event" /\ call' = call /\ seen' = seen
      /\ Untouched(t) /\ Inserts(c)
  BY DEF Insert, At, Goes, Progress, ProgressOf, Before
<1>2. c \in Calls /\ c.product \in Product /\ c.to \in Status
  BY <1>1, CallFacts DEF AskedBeforeRunning
<1>3. /\ InsertProduct(t, c.product, c.to) /\ status[c.product] = Absent
      /\ status' = status /\ pending' = pending
  BY <1>2, UnseenIsUnlocked DEF Insert, InsertProduct
<1>4. /\ written'[t][c.product] = c.to
      /\ \A q \in Product \ {c.product} : written'[t][q] = Unset
      /\ fired'[t] = {Queued(t)} /\ lock'[t][c.product] = "no_key_update"
  BY <1>1, <1>2, <1>3 DEF InsertProduct, Untouched, Queued
<1>5. RowWritten(t)' /\ Holds(t)' /\ pending'[t] = {}
  BY <1>1, <1>3, <1>4 DEF RowWritten, Holds, Queued, Untouched, Inserts
<1> QED BY <1>1, <1>5 DEF ProgressOf, Before

\* SELECT FOR UPDATE: a function that decides to write holds the row it decided on.
LEMMA SelectProgress ==
  ASSUME WritesInv, NEW t \in Tx, Select(t)
  PROVE  ProgressOf(t)'
<1> DEFINE c == call[t]
<1> USE DEF WritesInv, RegistryInv, WritesTypeOK, RegistryTypeOK
<1>1. /\ step[t] = "select" /\ call' = call /\ Untouched(t) /\ ~Inserts(c)
  BY DEF Select, At, Progress, ProgressOf, Before
<1>2. c \in Calls /\ c.product \in Product /\ c.to \in Status
  BY <1>1, CallFacts DEF AskedBeforeRunning
<1>3. /\ status' = status /\ written' = written /\ pending' = pending /\ fired' = fired
      /\ lock'[t][c.product] = "update" /\ View(t, c.product) # Absent
  BY <1>2 DEF Select, SelectRow, LockProduct
<1>4. View(t, c.product) = status[c.product] /\ status[c.product] \in Status
  BY <1>1, <1>2, <1>3 DEF View, Untouched
<1>5. seen'[t] = status[c.product]
  BY <1>4 DEF Select
<1>6. Untouched(t)'
  BY <1>1, <1>3 DEF Untouched
<1>7. CASE step'[t] = "update"
  <2>1. seen'[t] # c.to /\ MayMove(c.actor, seen'[t], c.to)
    BY <1>7 DEF Select, Goes, Unmoved
  <2>2. Holds(t)'
    BY <1>1, <1>3, <1>4, <1>5, <2>1 DEF Holds, Inserts
  <2> QED BY <1>1, <1>6, <1>7, <2>2 DEF ProgressOf, Inserts
<1>8. CASE step'[t] = "commit" /\ answer'[t].is \in Refusals
  BY <1>6, <1>8 DEF ProgressOf, Before
<1>9. step'[t] = "update" \/ (step'[t] = "commit" /\ answer'[t].is \in Refusals)
  BY DEF Select, Goes, Answers, Says, Refusals
<1> QED BY <1>7, <1>8, <1>9

\* UPDATE: what it writes over is what it saw.
LEMMA UpdateProgress ==
  ASSUME WritesInv, NEW t \in Tx, Update(t)
  PROVE  ProgressOf(t)'
<1> DEFINE c == call[t]
<1> USE DEF WritesInv, RegistryInv, WritesTypeOK, RegistryTypeOK
<1>1. /\ step[t] = "update" /\ step'[t] = "event" /\ call' = call /\ seen' = seen
      /\ Untouched(t) /\ Holds(t) /\ ~Inserts(c)
  BY DEF Update, At, Goes, Progress, ProgressOf, Before
<1>2. c \in Calls /\ c.product \in Product /\ c.to \in Status
  BY <1>1, CallFacts DEF AskedBeforeRunning
<1>3. View(t, c.product) = seen[t] /\ seen[t] # c.to /\ lock[t][c.product] = "update"
  BY <1>1, <1>2 DEF View, Untouched, Holds
<1>4. /\ UpdateStatus(t, c.product, c.to)
      /\ status' = status /\ pending' = pending
      /\ GuardAllowsMove(seen[t], c.to)
      /\ written'[t][c.product] = c.to
      /\ \A q \in Product \ {c.product} : written'[t][q] = Unset
      /\ lock'[t][c.product] = "update"
  BY <1>1, <1>2, <1>3 DEF Update, UpdateStatus, Untouched
<1>5. fired'[t] = {Queued(t)}
  BY <1>1, <1>3, <1>4 DEF UpdateStatus, UpdateQueues, Queued, Untouched
<1>6. RowWritten(t)' /\ Holds(t)' /\ pending'[t] = {}
  BY <1>1, <1>3, <1>4, <1>5 DEF RowWritten, Holds, Queued, Untouched, Inserts
<1> QED BY <1>1, <1>6 DEF ProgressOf, Before

\* INSERT of the event: the one event of this call, with the move it decided.
LEMMA RecordProgress ==
  ASSUME WritesInv, NEW t \in Tx, Record(t)
  PROVE  ProgressOf(t)'
<1> DEFINE c == call[t]
<1> USE DEF WritesInv, RegistryInv, WritesTypeOK, RegistryTypeOK
<1>1. /\ step[t] = "event" /\ step'[t] = "commit" /\ call' = call /\ seen' = seen
      /\ answer'[t].is = "ok" /\ RowWritten(t) /\ Holds(t) /\ pending[t] = {}
  BY DEF Record, At, Goes, Answers, Says, Progress, ProgressOf
<1>2. c \in Calls /\ c.product \in Product
  BY <1>1, CallFacts DEF AskedBeforeRunning
<1>3. /\ RecordEvent(t, c.product, ClaimOf(t))
      /\ status' = status /\ written' = written /\ fired' = fired
      /\ pending'[t] = {EventOf(t, nextEvent)}
  BY <1>1 DEF Record, RecordEvent, EventOf
<1>4. lock'[t][c.product] = lock[t][c.product]
  BY <1>1, <1>2, <1>3 DEF RecordEvent, Holds
<1>5. RowWritten(t)' /\ Holds(t)'
  BY <1>1, <1>3, <1>4 DEF RowWritten, Holds, Queued, Inserts
<1>6. EventWritten(t)'
  <2>1. pending'[t] = {[id |-> nextEvent, product |-> call'[t].product,
           type |-> ClaimOf(t)'.type, actor |-> ClaimOf(t)'.actor, from |-> ClaimOf(t)'.from,
           to |-> ClaimOf(t)'.to, xact |-> t]}
    BY <1>1, <1>3 DEF EventOf, ClaimOf, Inserts
  <2> QED BY <2>1 DEF EventWritten, EventOf
<1> QED BY <1>1, <1>5, <1>6 DEF ProgressOf, Before

\* Every other statement leaves its call with nothing written, or closes it.
LEMMA ProgressStep ==
  ASSUME WritesInv, [WritesNext]_vars
  PROVE  Progress'
<1> USE DEF WritesInv
<1>1. CASE UNCHANGED vars
  BY <1>1 DEF vars, registryVars, programVars, Progress, ProgressOf, Untouched, Holds,
     RowWritten, EventWritten, Queued, EventOf, ClaimOf, Inserts
<1>2. ASSUME NEW t \in Tx, Steps(t) PROVE Progress'
  <2>1. \A u \in Tx \ {t} : ProgressOf(u)'
    BY <1>2, OthersAreApart, ApartKeepsProgress DEF Progress
  <2> USE DEF WritesTypeOK, RegistryInv, RegistryTypeOK
  <2>2. CASE Insert(t)
    BY <2>1, <2>2, InsertProgress DEF Progress
  <2>3. CASE Select(t)
    BY <2>1, <2>3, SelectProgress DEF Progress
  <2>4. CASE Update(t)
    BY <2>1, <2>4, UpdateProgress DEF Progress
  <2>5. CASE Record(t)
    BY <2>1, <2>5, RecordProgress DEF Progress
  <2>6. CASE \E c \in Calls : Begin(t, c)
    <3>1. PICK c \in Calls : Begin(t, c)
      BY <2>6
    <3>2. step[t] = "idle" /\ call'[t] = c /\ UNCHANGED registryVars
      BY <3>1 DEF Begin, At
    <3>3. \/ step'[t] \in {"authorise", "insert"} /\ Inserts(c)
          \/ step'[t] = "select" /\ ~Inserts(c)
      BY <3>1, CallFacts DEF Begin, Goes, Inserts
    <3>4. Untouched(t)'
      BY <3>2 DEF registryVars, Progress, ProgressOf, Untouched, Before
    <3>5. ProgressOf(t)'
      BY <3>2, <3>3, <3>4 DEF ProgressOf, Before, Inserts
    <3> QED BY <2>1, <3>5 DEF Progress
  <2>7. CASE Authorised(t) \/ SelectNothing(t)
    <3>1. /\ UNCHANGED registryVars /\ call' = call
          /\ \/ step'[t] = "insert" /\ step[t] = "authorise"
             \/ step'[t] = "commit" /\ answer'[t].is \in Refusals /\ step[t] = "select"
      BY <2>7 DEF Authorised, SelectNothing, At, Goes, Answers, Says, Refusals
    <3>2. Untouched(t)' /\ (step'[t] = "insert" => Inserts(call'[t]))
      BY <3>1 DEF registryVars, Progress, ProgressOf, Untouched, Before
    <3>3. ProgressOf(t)'
      BY <3>1, <3>2 DEF ProgressOf, Before, Inserts
    <3> QED BY <2>1, <3>3 DEF Progress
  <2>8. CASE UpdateRefused(t)
    <3>1. step[t] = "update" /\ step'[t] = "reread" /\ call' = call /\ Rollback(t)
      BY <2>8 DEF UpdateRefused, At, Goes, CaughtOutside
    <3>2. Untouched(t)' /\ ~Inserts(call'[t]) /\ phase'[t] = "aborted"
      BY <3>1 DEF Rollback, Close, Untouched, Progress, ProgressOf
    <3>3. ProgressOf(t)'
      BY <3>1, <3>2 DEF ProgressOf, Before, Inserts
    <3> QED BY <2>1, <3>3 DEF Progress
  <2>9. CASE Finish(t) \/ FinishUnheard(t) \/ Fail(t) \/ RereadFails(t) \/ Reread(t)
             \/ NotAuthorised(t) \/ DuplicateSerial(t)
    <3>1. step'[t] = "done"
      BY <2>9 DEF Finish, FinishUnheard, Fail, RereadFails, Reread, NotAuthorised,
                  DuplicateSerial, Goes
    <3>2. \/ Commit(t) \/ Rollback(t)
          \/ step[t] = "reread" /\ UNCHANGED registryVars
      BY <2>9 DEF Finish, FinishUnheard, Fail, RereadFails, Reread, NotAuthorised,
                  DuplicateSerial, At
    <3>3. pending'[t] = {}
      <4>1. CASE Commit(t) \/ Rollback(t)
        BY <4>1 DEF Commit, Rollback, Close
      <4>2. CASE step[t] = "reread" /\ UNCHANGED registryVars
        BY <4>2 DEF registryVars, Progress, ProgressOf, Before, Untouched
      <4> QED BY <3>2, <4>1, <4>2
    <3>4. ProgressOf(t)'
      BY <3>1, <3>3 DEF ProgressOf, Before
    <3> QED BY <2>1, <3>4 DEF Progress
  <2> QED BY <1>2, <2>2, <2>3, <2>4, <2>5, <2>6, <2>7, <2>8, <2>9 DEF Steps, Proceed
<1> QED BY <1>1, <1>2 DEF WritesNext, Steps

\* The events a call has in the history.
EventsOf(t) == {e \in history : e.xact = t}

\* Each answer is true when it is given, and nobody else's commit makes it false.
LEMMA AnswersStay ==
  ASSUME WritesInv, [WritesNext]_vars
  PROVE  AnswersAreTrue'
<1> USE DEF WritesInv
<1> DEFINE True(t) ==
      step[t] = "done" =>
        /\ answer[t].is = "ok" =>
             /\ phase[t] = "committed" /\ Cardinality(EventsOf(t)) = 1 /\ fired[t] # {}
        /\ answer[t].is \in Refusals => EventsOf(t) = {} /\ fired[t] = {}
<1>0. \A t \in Tx : True(t)
  BY DEF AnswersAreTrue, EventsOf, At
<1>00. (\A t \in Tx : True(t)') => AnswersAreTrue'
  BY DEF AnswersAreTrue, EventsOf, At
<1>1. CASE UNCHANGED vars
  BY <1>0, <1>00, <1>1 DEF vars, registryVars, programVars, EventsOf
<1>2. ASSUME NEW t \in Tx, Steps(t) PROVE AnswersAreTrue'
  <2> USE DEF WritesTypeOK, RegistryInv, RegistryTypeOK
  <2>1. /\ history' = history \/ history' = history \cup pending[t]
        /\ phase[t] = "active" \/ history' = history
    BY <1>2 DEF Steps, Begin, Proceed, Authorised, NotAuthorised, Insert, DuplicateSerial, Select,
         SelectRow, SelectNothing, Update, UpdateRefused, CaughtOutside, Reread, Record, Finish,
         FinishUnheard, Fail, RereadFails, Commit, Rollback, InsertProduct, UpdateStatus,
         LockProduct, RecordEvent, registryVars
  <2>2. ASSUME NEW u \in Tx \ {t} PROVE True(u)'
    <3>1. EventsOf(u)' = EventsOf(u)
      BY <2>1 DEF HistoryIsCommitted, EventsOf
    <3>2. Apart(u)
      BY <1>2, OthersAreApart
    <3>3. True(u)
      BY <1>0
    <3> QED BY <3>1, <3>2, <3>3 DEF Apart
  <2>3. True(t)'
    <3> SUFFICES ASSUME step'[t] = "done" PROVE True(t)'
      OBVIOUS
    <3>1. phase[t] = "active" => EventsOf(t) = {}
      BY DEF HistoryIsCommitted, EventsOf
    <3>2. CASE Finish(t)
      <4>1. /\ step[t] = "commit" /\ answer' = answer /\ fired' = fired
            /\ phase[t] = "active" /\ phase'[t] = "committed"
            /\ history' = history \cup pending[t]
        BY <3>2 DEF Finish, At, Commit, Close
      <4>2. CASE Untouched(t) /\ answer[t].is \in Refusals
        <5>1. EventsOf(t)' = {} /\ fired'[t] = {} /\ answer'[t].is # "ok"
          BY <3>1, <4>1, <4>2 DEF Untouched, EventsOf, Refusals
        <5> QED BY <5>1
      <4>3. CASE RowWritten(t) /\ EventWritten(t) /\ answer[t].is = "ok"
        <5>1. PICK n \in Nat : pending[t] = {EventOf(t, n)}
          BY <4>3 DEF EventWritten
        <5>2. EventsOf(t)' = {EventOf(t, n)}
          <6>1. EventOf(t, n).xact = t
            BY DEF EventOf
          <6> HIDE DEF EventOf
          <6> QED BY <3>1, <4>1, <5>1, <6>1 DEF EventsOf
        <5>3. Cardinality(EventsOf(t)') = 1
          BY <5>2, FS_Singleton
        <5>4. fired'[t] # {} /\ answer'[t].is \notin Refusals
          BY <4>1, <4>3 DEF RowWritten, Refusals
        <5> QED BY <4>1, <5>3, <5>4
      <4> QED BY <4>1, <4>2, <4>3 DEF Progress, ProgressOf
    <3>3. CASE NotAuthorised(t) \/ DuplicateSerial(t)
      <4>1. Rollback(t) /\ answer'[t].is \in Refusals
        BY <3>3 DEF NotAuthorised, DuplicateSerial, Answers, Says, Refusals
      <4>2. history' = history /\ phase[t] = "active" /\ fired'[t] = {}
        BY <4>1 DEF Rollback, Close
      <4>3. EventsOf(t)' = {} /\ answer'[t].is # "ok"
        BY <3>1, <4>1, <4>2 DEF EventsOf, Refusals
      <4> QED BY <4>2, <4>3
    <3>4. CASE FinishUnheard(t) \/ Fail(t) \/ RereadFails(t)
      <4>1. answer'[t].is = "error"
        BY <3>4 DEF FinishUnheard, Fail, RereadFails, Answers, Says, FailureAnswer
      <4> QED BY <4>1 DEF Refusals
    <3>6. CASE Reread(t)
      <4>1. step[t] = "reread" /\ answer'[t].is = "illegal_transition"
            /\ UNCHANGED registryVars
        BY <3>6 DEF Reread, At, Answers
      <4>2. phase[t] = "aborted" /\ fired[t] = {}
        BY <4>1 DEF Progress, ProgressOf, Before, Untouched
      <4>3. EventsOf(t)' = {} /\ fired'[t] = {}
        BY <4>1, <4>2 DEF registryVars, HistoryIsCommitted, EventsOf
      <4> QED BY <4>1, <4>3
    <3>5. ASSUME NEW c \in Calls, Begin(t, c) PROVE FALSE
      BY <3>5, CallFacts DEF Begin, Goes
    <3> QED BY <1>2, <3>2, <3>3, <3>4, <3>5, <3>6 DEF Steps, Proceed, Authorised, Insert, Select,
                SelectNothing, Update, UpdateRefused, Record, Goes
  <2> QED BY <1>00, <2>2, <2>3
<1> QED BY <1>1, <1>2 DEF WritesNext, Steps

\* A rule read early is the rule enforced late.
LEMMA EarlyRulesAreLateRules ==
  ASSUME WritesInv PROVE NeverRefusedLate
<1> USE DEF WritesInv
<1>1. ASSUME NEW t \in Tx, step[t] = "event"
      PROVE  GuardAllowsRecording(ClaimOf(t).actor, ClaimOf(t).type, ClaimOf(t).from)
  <2> DEFINE c == call[t]
  <2>1. c \in Calls /\ Holds(t)
    BY <1>1 DEF AskedBeforeRunning, Progress, ProgressOf
  <2>2. CASE Inserts(c)
    BY <2>1, <2>2, CallsAssumption DEF ClaimOf, Inserts, GuardAllowsRecording, NoState
  <2>3. CASE ~Inserts(c)
    <3>1. c.actor \in ActorKind
      BY <2>1, CallFacts
    <3>2. /\ ClaimOf(t).type = eventFor(seen[t], c.to) /\ ClaimOf(t).actor = c.actor
          /\ ClaimOf(t).from = seen[t]
      BY <2>3 DEF ClaimOf, Decided
    <3>3. mayRecord(c.actor, eventFor(seen[t], c.to)) /\ mayRetireFrom(c.actor, seen[t])
      BY <2>1, <2>3 DEF Holds, MayMove, Decided
    <3> HIDE DEF c
    <3> QED BY <3>1, <3>2, <3>3
            DEF mayRecord, RecordingAuthority, mayRetireFrom, GuardAllowsRecording, ActorKind
  <2> QED BY <2>2, <2>3
<1>2. ASSUME NEW t \in Tx, step[t] = "commit" PROVE ChecksPass(t)
  <2> DEFINE c == call[t]
  <2>1. CASE Untouched(t)
    BY <2>1 DEF Untouched, ChecksPass
  <2>2. CASE Holds(t) /\ RowWritten(t) /\ EventWritten(t)
    <3>1. c \in Calls /\ c.product \in Product /\ c.to \in Status
      BY <1>2, CallFacts DEF AskedBeforeRunning
    <3>2. PICK n \in Nat : pending[t] = {EventOf(t, n)}
      BY <2>2 DEF EventWritten
    <3>3. View(t, c.product) = c.to
      BY <2>2, <3>1 DEF RowWritten, View, Status, Unset
    <3>4. fired[t] = {Queued(t)} /\ Queued(t).product = c.product
      BY <2>2 DEF RowWritten, Queued
    <3>5. EventOf(t, n).product = c.product /\ EventOf(t, n).xact = t /\ EventOf(t, n).id = n
      BY DEF EventOf
    <3>6. CASE Inserts(c)
      <4>1. Queued(t).op = "insert"
        BY <3>6 DEF Queued
      <4>2. OriginRecorded(t, c.product)
        BY <3>2, <3>5 DEF OriginRecorded
      <4> QED BY <3>4, <4>1, <4>2 DEF ChecksPass, FiringPasses
    <3>7. CASE ~Inserts(c)
      <4>1. /\ EventOf(t, n).from = seen[t] /\ EventOf(t, n).to = c.to
            /\ seen[t] # NoState
        BY <2>2, <3>7 DEF EventOf, ClaimOf, Holds, Status, NoState
      <4>2. Queued(t).op = "update" /\ Queued(t).old = seen[t] /\ Queued(t).new = c.to
        BY <3>7 DEF Queued
      <4>3. OwnSteps(t, c.product) = {EventOf(t, n)}
        BY <3>2, <3>5, <4>1 DEF OwnSteps
      <4>4. Unbroken({EventOf(t, n)}) /\ EndsAt({EventOf(t, n)}, View(t, c.product))
        BY <3>3, <3>5, <4>1 DEF Unbroken, EndsAt
      <4>5. MoveExplained(t, Queued(t))
        BY <3>4, <4>1, <4>2, <4>3, <4>4 DEF MoveExplained
      <4> QED BY <3>4, <4>2, <4>5 DEF ChecksPass, FiringPasses
    <3> QED BY <3>6, <3>7
  <2> QED BY <1>2, <2>1, <2>2 DEF Progress, ProgressOf
<1> QED BY <1>1, <1>2 DEF NeverRefusedLate, At

\* At first nothing is written and nobody has asked.
LEMMA WritesInvInit == WritesInit => WritesInv
<1> SUFFICES ASSUME WritesInit PROVE WritesInv
  OBVIOUS
<1>1. RegistryInv
  BY LiveIsStatus
     DEF WritesInit, RegistryInit, RegistryInv, RegistryTypeOK, LockMode, ClosedHoldsNothing,
         WritesAreLocked, RowLocksConflict, KeyLiveOnce, NoRevivalUnderway,
         OriginsOwed, ExplanationsOwed
<1>2. WritesTypeOK /\ AskedBeforeRunning /\ DecidedToMove /\ OnlyAuthoritiesLift
        /\ HistoryIsCommitted
  BY <1>1 DEF WritesInit, WritesTypeOK, AskedBeforeRunning, RegistryInit, RegistryInv,
         Says, Answer, DecidedToMove, OnlyAuthoritiesLift, HistoryIsCommitted
<1>3. Progress /\ AnswersAreTrue
  BY DEF WritesInit, RegistryInit, Progress, ProgressOf, Untouched, AnswersAreTrue, At
<1> QED BY <1>1, <1>2, <1>3 DEF WritesInv

\* The step of the invariant, over that of the registry.
LEMMA WritesInvStep ==
  ASSUME Targets = Status, Claims = Claim, WritesInv, [WritesNext]_vars
  PROVE  WritesInv' /\ [RegistryNext]_registryVars
<1> USE DEF WritesInv
<1>1. [RegistryNext]_registryVars
  BY StepIsRegistryStep
<1>2. RegistryInv'
  BY <1>1, TypeStep, ClosedHoldsNothingStep, WritesAreLockedStep, KeyLiveOnceStep,
     NoRevivalUnderwayStep, OriginsOwedStep, ExplanationsOwedStep
     DEF RegistryInv
<1>3. WritesTypeOK' /\ AskedBeforeRunning' /\ DecidedToMove' /\ OnlyAuthoritiesLift'
  BY WritesTypeStep, DecidedToMoveStep, OnlyAuthoritiesLiftStep
<1>4. HistoryIsCommitted'
  BY <1>1, HistoryIsCommittedStep DEF WritesTypeOK
<1> QED BY <1>1, <1>2, <1>3, <1>4, ProgressStep, AnswersStay

\* The inductive invariant of the functions: the registry's, what each call has done by
\* each of its statements, and that answers are true.
THEOREM WritesInvariance ==
  ASSUME Targets = Status, Claims = Claim
  PROVE  WritesSpec => []WritesInv
<1>1. WritesInv /\ [WritesNext]_vars => WritesInv'
  BY WritesInvStep
<1> QED BY <1>1, WritesInvInit, PTL DEF WritesSpec

\* Once a function has decided to write, no trigger refuses the event or the commit
\* (product-status-repository.ts:115-118, 139-144).
THEOREM DecisionsHold ==
  ASSUME Targets = Status, Claims = Claim
  PROVE  WritesSpec => []NeverRefusedLate
<1>1. WritesInv => NeverRefusedLate
  BY EarlyRulesAreLateRules
<1> QED BY <1>1, WritesInvariance, PTL

\* `ok` means one committed event of this call's own, a refusal that nothing of it is left
\* (ChangeProductStatusResult, product-status-repository.ts:53-66).
THEOREM AnswersHold ==
  ASSUME Targets = Status, Claims = Claim
  PROVE  WritesSpec => []AnswersAreTrue
<1>1. WritesInv => AnswersAreTrue
  BY DEF WritesInv
<1> QED BY <1>1, WritesInvariance, PTL

-----------------------------------------------------------------------------
(***************************************************************************)
(* The order of a history.                                                 *)
(***************************************************************************)

Recorded == history \cup {e \in Event : \E t \in Tx : e \in pending[t]}

\* Ids are handed out in order, once each; no event about to be committed is older than
\* a move of its product that is; a product that is not there has not moved.
EventsInOrder ==
  /\ IsFiniteSet(history)
  /\ \A e \in Recorded : e.id < nextEvent
  /\ \A e, f \in Recorded : e.id = f.id => e = f
  /\ \A t \in Tx : \A e \in pending[t] :
       e.from # NoState => \A f \in Moves(e.product) : f.id < e.id
  /\ \A p \in Product : status[p] = Absent => Moves(p) = {}

\* What a commit installs: nothing, a product with its origin, or a move with its event.
Entered(t, n) ==
  LET c == call[t]
  IN /\ Inserts(c) /\ status[c.product] = Absent
     /\ status' = [status EXCEPT ![c.product] = c.to]
     /\ history' = history \cup {EventOf(t, n)} /\ pending[t] = {EventOf(t, n)}
     /\ EventOf(t, n).from = NoState
     /\ call' = call /\ BornAs(c.product, c.to)'

MoveMade(t, n) ==
  LET c == call[t]
      e == EventOf(t, n)
  IN /\ ~Inserts(c) /\ status[c.product] = seen[t] /\ seen[t] \in Status /\ seen[t] # c.to
     /\ GuardAllowsMove(seen[t], c.to) /\ MayMove(c.actor, seen[t], c.to)
     /\ status' = [status EXCEPT ![c.product] = c.to]
     /\ history' = history \cup {e} /\ pending[t] = {e}
     /\ e.product = c.product /\ e.from = seen[t] /\ e.to = c.to /\ e.actor = c.actor

\* COMMIT installs what its call set out to do, whole, or nothing.
LEMMA WhatACommitInstalls ==
  ASSUME WritesInv, NEW t \in Tx, Finish(t) \/ FinishUnheard(t)
  PROVE  /\ call[t] \in Calls /\ Commit(t)
         /\ \/ status' = status /\ history' = history /\ pending[t] = {}
            \/ \E n \in Nat : Entered(t, n) \/ MoveMade(t, n)
<1> DEFINE c == call[t]
<1> USE DEF WritesInv, RegistryInv, WritesTypeOK, RegistryTypeOK
<1>1. step[t] = "commit" /\ Commit(t)
  BY DEF Finish, FinishUnheard, At
<1>2. /\ c \in Calls /\ c.product \in Product /\ c.to \in Status
  BY <1>1, CallFacts DEF AskedBeforeRunning
<1>3. /\ history' = history \cup pending[t] /\ fired' = fired /\ phase'[t] = "committed"
      /\ status' = [p \in Product |-> View(t, p)]
  BY <1>1 DEF Commit, Close
<1>4. CASE Untouched(t)
  <2>1. status' = status
    BY <1>3, <1>4 DEF Untouched, View
  <2> QED BY <1>1, <1>2, <1>3, <1>4, <2>1 DEF Untouched
<1>5. CASE Holds(t) /\ RowWritten(t) /\ EventWritten(t)
  <2>1. PICK n \in Nat : pending[t] = {EventOf(t, n)}
    BY <1>5 DEF EventWritten
  <2>2. status' = [status EXCEPT ![c.product] = c.to]
    <3>1. \A p \in Product : View(t, p) = IF p = c.product THEN c.to ELSE status[p]
      BY <1>2, <1>5 DEF RowWritten, View, Status, Unset
    <3> QED BY <1>3, <3>1
  <2>3. history' = history \cup {EventOf(t, n)}
    BY <1>3, <2>1
  <2>4. CASE Inserts(c)
    <3>1. Queued(t) \in fired'[t] /\ Queued(t).op = "insert"
          /\ Queued(t).product = c.product /\ Queued(t).new = c.to
      BY <1>3, <1>5, <2>4 DEF RowWritten, Queued
    <3>2. BornAs(c.product, c.to)'
      <4>1. call' = call
        BY DEF Finish, FinishUnheard
      <4> QED BY <1>3, <3>1, <4>1 DEF BornAs
    <3>3. EventOf(t, n).from = NoState /\ status[c.product] = Absent
      BY <1>5, <2>4 DEF EventOf, ClaimOf, Holds
    <3>4. Entered(t, n)
      BY <2>1, <2>2, <2>3, <2>4, <3>2, <3>3 DEF Entered, Finish, FinishUnheard
    <3> QED BY <1>1, <1>2, <3>4
  <2>5. CASE ~Inserts(c)
    <3>1. /\ EventOf(t, n).product = c.product /\ EventOf(t, n).from = seen[t]
          /\ EventOf(t, n).to = c.to /\ EventOf(t, n).actor = c.actor
      BY <2>5 DEF EventOf, ClaimOf
    <3>2. MoveMade(t, n)
      BY <1>5, <2>1, <2>2, <2>3, <2>5, <3>1 DEF MoveMade, Holds, RowWritten
    <3> QED BY <1>1, <1>2, <3>2
  <2> QED BY <2>4, <2>5
<1> QED BY <1>1, <1>4, <1>5 DEF Progress, ProgressOf

\* No other step of a function changes what is committed.
LEMMA OnlyCommitsShow ==
  ASSUME [WritesNext]_vars
  PROVE  \/ status' = status /\ history' = history
         \/ \E t \in Tx : Finish(t) \/ FinishUnheard(t)
<1>1. CASE UNCHANGED vars
  BY <1>1 DEF vars, registryVars
<1>2. ASSUME NEW t \in Tx, Steps(t), ~Finish(t), ~FinishUnheard(t)
      PROVE  status' = status /\ history' = history
  <2>1. \/ UNCHANGED registryVars
        \/ \E p, s : InsertProduct(t, p, s) \/ UpdateStatus(t, p, s)
        \/ \E p : LockProduct(t, p)
        \/ \E p, c : RecordEvent(t, p, c)
        \/ Rollback(t)
    BY <1>2 DEF Steps, Begin, Proceed, Authorised, NotAuthorised, Insert, DuplicateSerial,
       Select, SelectRow, SelectNothing, Update, UpdateRefused, CaughtOutside, Reread, Record,
       Fail, RereadFails
  <2> QED BY <2>1 DEF InsertProduct, UpdateStatus, LockProduct, RecordEvent, Rollback,
                      registryVars
<1> QED BY <1>1, <1>2 DEF WritesNext, Steps

\* What a product was born as is settled.
LEMMA BirthsAreSettled ==
  ASSUME RegistryTypeOK, [RegistryNext]_registryVars, NEW p, NEW s, BornAs(p, s)
  PROVE  BornAs(p, s)'
<1>1. PICK t \in Tx : /\ phase[t] = "committed"
                     /\ \E f \in fired[t] : f.op = "insert" /\ f.product = p /\ f.new = s
  BY DEF BornAs
<1>2. phase'[t] = phase[t] /\ fired'[t] = fired[t]
  BY <1>1 DEF RegistryNext, registryVars, RegistryTypeOK, InsertProduct, UpdateStatus,
     LockProduct, RecordEvent, Rollback, Commit, Close
<1> QED BY <1>1, <1>2 DEF BornAs

\* Of the events that are not committed, each one's writer has its product's row.
LEMMA PendingIsHeld ==
  ASSUME WritesInv, NEW t \in Tx, NEW e \in pending[t]
  PROVE  /\ step[t] = "commit" /\ Holds(t) /\ e.product = call[t].product
         /\ e.product \in Product
         /\ e.from # NoState => ~Inserts(call[t])
<1> USE DEF WritesInv, WritesTypeOK
<1>1. step[t] = "commit"
  <2>1. step[t] \in Before \cup {"event", "commit", "done"}
    BY DEF Before
  <2> QED BY <2>1 DEF Progress, ProgressOf, Untouched
<1>2. Holds(t) /\ EventWritten(t)
  BY <1>1 DEF Progress, ProgressOf, Untouched
<1>3. e.product = call[t].product /\ e.from = ClaimOf(t).from
  BY <1>2 DEF EventWritten, EventOf
<1>4. call[t].product \in Product
  BY <1>1, CallFacts DEF AskedBeforeRunning
<1> QED BY <1>1, <1>2, <1>3, <1>4 DEF ClaimOf

\* Events that are recorded are, with those that are pending, numbered in order.
LEMMA OrderStep ==
  ASSUME WritesInv, WritesInv', EventsInOrder, [WritesNext]_vars, [RegistryNext]_registryVars
  PROVE  EventsInOrder'
<1>0. RegistryTypeOK /\ RegistryTypeOK'
  BY DEF WritesInv, RegistryInv
<1> USE DEF RegistryTypeOK
<1>1. CASE UNCHANGED <<status, history, pending, nextEvent>>
  BY <1>1 DEF EventsInOrder, Recorded, Moves
<1>2. ASSUME NEW t \in Tx, Rollback(t) PROVE EventsInOrder'
  <2>1. status' = status /\ history' = history /\ nextEvent' = nextEvent
    BY <1>2 DEF Rollback, Close
  <2>2. \A u \in Tx : pending'[u] \subseteq pending[u]
    BY <1>0, <1>2 DEF Rollback, Close
  <2>3. Recorded' \subseteq Recorded
    BY <2>1, <2>2 DEF Recorded
  <2>4. \A p : Moves(p)' = Moves(p)
    BY <2>1 DEF Moves
  <2> QED BY <2>1, <2>2, <2>3, <2>4 DEF EventsInOrder
<1>3. ASSUME NEW t \in Tx, Record(t) PROVE EventsInOrder'
  <2>1. step[t] = "event" /\ pending[t] = {} /\ Holds(t) /\ call[t] \in Calls
    BY <1>3 DEF WritesInv, Record, At, Progress, ProgressOf, AskedBeforeRunning
  <2>2. /\ status' = status /\ history' = history /\ nextEvent' = nextEvent + 1
        /\ pending'[t] = {EventOf(t, nextEvent)}
        /\ \A u \in Tx \ {t} : pending'[u] = pending[u]
    BY <1>0, <1>3, <2>1 DEF Record, RecordEvent, EventOf
  <2>3. EventOf(t, nextEvent).id = nextEvent
    BY DEF EventOf
  <2>4. Recorded' = Recorded \cup {EventOf(t, nextEvent)}
    <3>1. EventOf(t, nextEvent) \in Event
      BY <1>0, <2>2
    <3> QED BY <2>1, <2>2, <3>1 DEF Recorded
  <2>5. \A e \in Recorded : e.id \in Nat /\ e.id < nextEvent
    BY <1>0 DEF EventsInOrder, Recorded, Event
  <2>6. \A p : Moves(p)' = Moves(p) /\ Moves(p) \subseteq Recorded
    BY <2>2 DEF Moves, Recorded
  <2> HIDE DEF EventOf
  <2>7. (\A e \in Recorded : e.id < nextEvent)'
    <3>1. nextEvent \in Nat
      BY <1>0
    <3> QED BY <2>2, <2>3, <2>4, <2>5, <3>1
  <2>8. (\A e, f \in Recorded : e.id = f.id => e = f)'
    BY <2>3, <2>4, <2>5 DEF EventsInOrder
  <2>9. \A u \in Tx : \A e \in pending'[u] :
          e.from # NoState => \A f \in Moves(e.product)' : f.id < e.id
    <3> SUFFICES ASSUME NEW u \in Tx, NEW e \in pending'[u], e.from # NoState,
                        NEW f \in Moves(e.product)'
                 PROVE  f.id < e.id
      OBVIOUS
    <3>1. f \in Moves(e.product) /\ f \in Recorded
      BY <2>6
    <3>2. CASE u = t
      BY <2>2, <2>3, <2>5, <3>1, <3>2
    <3>3. CASE u # t
      BY <2>2, <3>1, <3>3 DEF EventsInOrder
    <3> QED BY <3>2, <3>3
  <2> QED BY <2>2, <2>6, <2>7, <2>8, <2>9 DEF EventsInOrder
<1>4. ASSUME NEW t \in Tx, Finish(t) \/ FinishUnheard(t) PROVE EventsInOrder'
  <2>1. Commit(t)
    BY <1>4 DEF Finish, FinishUnheard
  <2>2. /\ history' = history \cup pending[t] /\ nextEvent' = nextEvent
        /\ pending'[t] = {} /\ \A u \in Tx \ {t} : pending'[u] = pending[u]
    BY <1>0, <2>1 DEF Commit, Close
  <2>3. Recorded' = Recorded
    BY <1>0, <2>2 DEF Recorded
  <2>4. IsFiniteSet(history')
    <3>1. pending[t] = {} \/ \E n \in Nat : pending[t] = {EventOf(t, n)}
      BY <1>4, WhatACommitInstalls DEF Entered, MoveMade
    <3>2. IsFiniteSet(history)
      BY DEF EventsInOrder
    <3>3. \A x : IsFiniteSet(history \cup {x})
      BY <3>2, FS_AddElement
    <3>4. CASE pending[t] = {}
      BY <2>2, <3>2, <3>4
    <3> QED BY <2>2, <3>1, <3>3, <3>4
  <2>5. ASSUME NEW u \in Tx, NEW e \in pending'[u], e.from # NoState,
               NEW f \in Moves(e.product)'
        PROVE  f.id < e.id
    <3>1. u # t /\ e \in pending[u]
      BY <2>2, <2>5
    <3>2. CASE f \in history
      BY <2>5, <3>1, <3>2 DEF EventsInOrder, Moves
    <3>3. CASE f \in pending[t]
      <4>1. /\ lock[u][e.product] = "update" /\ e.product \in Product
        BY <2>5, <3>1, PendingIsHeld DEF Holds
      <4>2. lock[t][f.product] # "none" /\ f.product = e.product
        BY <2>5, <3>3, PendingIsHeld DEF Holds, Moves
      <4> QED BY <3>1, <4>1, <4>2
              DEF WritesInv, RegistryInv, WritesAreLocked, RowLocksConflict
    <3> QED BY <2>2, <3>2, <3>3 DEF Moves
  <2>6. ASSUME NEW p \in Product, status'[p] = Absent PROVE Moves(p)' = {}
    <3>1. status[p] = Absent /\ written[t][p] = Unset
      BY <1>0, <2>1, <2>6, LiveIsStatus DEF Commit, View
    <3>2. \A e \in pending[t] : e.from # NoState => e.product # p
      BY <3>1, PendingIsHeld DEF Holds, Status, Absent
    <3>3. Moves(p) = {}
      BY <3>1 DEF EventsInOrder
    <3> QED BY <2>2, <3>2, <3>3 DEF Moves
  <2> QED BY <2>2, <2>3, <2>4, <2>5, <2>6 DEF EventsInOrder
<1>5. ASSUME NEW t \in Tx, Steps(t), ~Record(t), ~Finish(t), ~FinishUnheard(t)
      PROVE  UNCHANGED <<status, history, pending, nextEvent>> \/ Rollback(t)
  <2>1. \/ UNCHANGED registryVars
        \/ \E p, s : InsertProduct(t, p, s) \/ UpdateStatus(t, p, s)
        \/ \E p : LockProduct(t, p)
        \/ Rollback(t)
    BY <1>5 DEF Steps, Begin, Proceed, Authorised, NotAuthorised, Insert, DuplicateSerial,
       Select, SelectRow, SelectNothing, Update, UpdateRefused, CaughtOutside, Reread,
       Fail, RereadFails
  <2> QED BY <2>1 DEF InsertProduct, UpdateStatus, LockProduct, registryVars
<1> QED BY <1>1, <1>2, <1>3, <1>4, <1>5 DEF WritesNext, Steps, vars, registryVars

\* A move put at the end of an unbroken path leaves it unbroken.
LEMMA ChainExtends ==
  ASSUME NEW S, NEW e, \A f \in S \cup {e} : f.id \in Nat,
         \A f \in S : f.id < e.id, \A f, g \in S : f.id = g.id => f = g,
         Unbroken(S), S = {} \/ EndsAt(S, e.from)
  PROVE  Unbroken(S \cup {e}) /\ EndsAt(S \cup {e}, e.to)
<1>1. EndsAt(S \cup {e}, e.to)
  BY DEF EndsAt
<1>2. ASSUME NEW f \in S \cup {e}, NEW g \in S \cup {e}, f.id < g.id,
             ~\E h \in S \cup {e} : f.id < h.id /\ h.id < g.id
      PROVE  g.from = f.to
  <2>1. CASE g \in S
    <3>1. f \in S
      BY <1>2, <2>1
    <3> QED BY <1>2, <2>1, <3>1 DEF Unbroken
  <2>2. CASE g = e
    <3>1. f \in S
      BY <1>2, <2>2
    <3>2. PICK h \in S : h.to = e.from /\ \A x \in S : x.id <= h.id
      BY <3>1 DEF EndsAt
    <3>3. ~(f.id < h.id)
      BY <1>2, <2>2, <3>2
    <3>4. f.id = h.id
      BY <3>1, <3>2, <3>3
    <3> QED BY <2>2, <3>1, <3>2, <3>4
  <2> QED BY <2>1, <2>2
<1> QED BY <1>1, <1>2 DEF Unbroken

\* What is known of the moves of one product.
LEMMA MovesAreOrdered ==
  ASSUME WritesInv, EventsInOrder, NEW p
  PROVE  /\ \A e \in Moves(p) : e \in Event /\ e.id \in Nat
         /\ \A e, f \in Moves(p) : e.id = f.id => e = f
         /\ IsFiniteSet(Moves(p))
<1>1. history \subseteq Event
  BY DEF WritesInv, RegistryInv, RegistryTypeOK
<1>2. Moves(p) \subseteq history /\ IsFiniteSet(history)
  BY DEF Moves, EventsInOrder
<1>3. IsFiniteSet(Moves(p))
  BY <1>2, FS_Subset
<1> QED BY <1>1, <1>2, <1>3 DEF Event, EventsInOrder, Recorded

\* The moves of each product after a move was made, or a product entered.
LEMMA MovesAfter ==
  ASSUME WritesInv, EventsInOrder, NEW t \in Tx, NEW n \in Nat, NEW q, q = call[t].product,
         NEW e, e = EventOf(t, n)
  PROVE  /\ Entered(t, n) => \A p : Moves(p)' = Moves(p)
         /\ MoveMade(t, n) =>
              /\ Moves(q)' = Moves(q) \cup {e}
              /\ \A p : p # q => Moves(p)' = Moves(p)
              /\ \A f \in Moves(q) : f.id < e.id
         /\ e.id = n
<1>1. Entered(t, n) => \A p : Moves(p)' = Moves(p)
  BY DEF Entered, Moves
<1>2. ASSUME MoveMade(t, n)
      PROVE  /\ Moves(q)' = Moves(q) \cup {e}
             /\ \A p : p # q => Moves(p)' = Moves(p)
             /\ \A f \in Moves(q) : f.id < e.id
  <2>1. e.from # NoState /\ e.product = q /\ e \in pending[t] /\ history' = history \cup {e}
    BY <1>2 DEF MoveMade, Status, NoState
  <2>2. \A f \in Moves(q) : f.id < e.id
    BY <2>1 DEF EventsInOrder
  <2>3. Moves(q)' = Moves(q) \cup {e}
    BY <2>1 DEF Moves
  <2>4. \A p : p # q => Moves(p)' = Moves(p)
    BY <2>1 DEF Moves
  <2> QED BY <2>2, <2>3, <2>4
<1> QED BY <1>1, <1>2 DEF EventOf

\* The history of a product leads to status s.
LeadsTo(p, s) ==
  /\ Unbroken(Moves(p))
  /\ IF Moves(p) = {} THEN BornAs(p, s) ELSE EndsAt(Moves(p), s)
  /\ \A e \in Moves(p) : (\A f \in Moves(p) : e.id <= f.id) => BornAs(p, e.from)

Explained ==
  \A p \in Product, s \in Status : status[p] = s => LeadsTo(p, s)

\* HistoryExplainsStatus, said of each product and status.
LEMMA ExplainedIsExplained ==
  ASSUME RegistryTypeOK PROVE HistoryExplainsStatus <=> Explained
BY DEF RegistryTypeOK, HistoryExplainsStatus, Explained, LeadsTo, Status, Absent

\* Each commit takes the history one step along the path of the status.
LEMMA ExplanationStep ==
  ASSUME WritesInv, EventsInOrder, Explained, [WritesNext]_vars, [RegistryNext]_registryVars
  PROVE  Explained'
<1>1. RegistryTypeOK
  BY DEF WritesInv, RegistryInv
<1>2. \A p, s : BornAs(p, s) => BornAs(p, s)'
  BY <1>1, BirthsAreSettled
<1>3. ASSUME NEW p, NEW s, Moves(p)' = Moves(p), LeadsTo(p, s)
      PROVE  LeadsTo(p, s)'
  BY <1>2, <1>3 DEF LeadsTo
<1>4. CASE status' = status /\ history' = history
  BY <1>3, <1>4 DEF Explained, Moves
<1>5. ASSUME NEW t \in Tx, NEW n \in Nat, Entered(t, n), call[t] \in Calls
      PROVE  Explained'
  <2> SUFFICES ASSUME NEW p \in Product, NEW s \in Status, status'[p] = s
               PROVE  LeadsTo(p, s)'
    BY DEF Explained
  <2>1. Moves(p)' = Moves(p)
    BY <1>5, MovesAfter
  <2>2. CASE p # call[t].product
    BY <1>1, <1>3, <1>5, <2>1, <2>2 DEF Explained, Entered, RegistryTypeOK
  <2>3. CASE p = call[t].product
    <3>1. s = call[t].to /\ status[p] = Absent
      BY <1>1, <1>5, <2>3 DEF Entered, RegistryTypeOK
    <3>2. BornAs(p, s)'
      BY <1>5, <2>3, <3>1 DEF Entered
    <3>3. Moves(p)' = {}
      BY <2>1, <3>1 DEF EventsInOrder
    <3> QED BY <3>2, <3>3 DEF LeadsTo, Unbroken
  <2> QED BY <2>2, <2>3
<1>6. ASSUME NEW t \in Tx, NEW n \in Nat, MoveMade(t, n), call[t] \in Calls
      PROVE  Explained'
  <2> SUFFICES ASSUME NEW p \in Product, NEW s \in Status, status'[p] = s
               PROVE  LeadsTo(p, s)'
    BY DEF Explained
  <2>1. CASE p # call[t].product
    <3>1. Moves(p)' = Moves(p)
      BY <1>6, <2>1, MovesAfter
    <3> QED BY <1>1, <1>3, <1>6, <2>1, <3>1 DEF Explained, MoveMade, RegistryTypeOK
  <2>2. CASE p = call[t].product
    <3>1. PICK e : e = EventOf(t, n)
      OBVIOUS
    <3>2. /\ Moves(p)' = Moves(p) \cup {e} /\ \A f \in Moves(p) : f.id < e.id
          /\ e.id \in Nat
      BY <1>6, <2>2, <3>1, MovesAfter
    <3>3. /\ e.from = status[p] /\ e.to = s /\ status[p] \in Status
      BY <1>1, <1>6, <2>2, <3>1 DEF MoveMade, RegistryTypeOK
    <3>4. LeadsTo(p, e.from)
      BY <3>3 DEF Explained
    <3>5. /\ \A f \in Moves(p) : f.id \in Nat
          /\ \A f, g \in Moves(p) : f.id = g.id => f = g
      BY MovesAreOrdered
    <3>6. Unbroken(Moves(p) \cup {e}) /\ EndsAt(Moves(p) \cup {e}, s)
      BY <3>2, <3>3, <3>4, <3>5, ChainExtends DEF LeadsTo
    <3>7. ASSUME NEW x \in Moves(p) \cup {e}, \A f \in Moves(p) \cup {e} : x.id <= f.id
          PROVE  BornAs(p, x.from)'
      <4>1. CASE x = e
        <5>1. Moves(p) = {}
          BY <3>2, <3>5, <3>7, <4>1
        <5> QED BY <1>2, <3>4, <4>1, <5>1 DEF LeadsTo
      <4>2. CASE x \in Moves(p)
        BY <1>2, <3>4, <3>7, <4>2 DEF LeadsTo
      <4> QED BY <4>1, <4>2
    <3> QED BY <3>2, <3>6, <3>7 DEF LeadsTo
  <2> QED BY <2>1, <2>2
<1> QED BY <1>4, <1>5, <1>6, OnlyCommitsShow, WhatACommitInstalls

LedgerInv == WritesInv /\ EventsInOrder /\ Explained

\* The order of events and the paths of products, over the invariant of the functions.
LEMMA LedgerInvHolds ==
  ASSUME Targets = Status, Claims = Claim
  PROVE  WritesSpec => []LedgerInv
<1>1. WritesInit => LedgerInv
  <2> SUFFICES ASSUME WritesInit PROVE LedgerInv
    OBVIOUS
  <2>1. WritesInv
    BY WritesInvInit
  <2>2. EventsInOrder
    BY FS_EmptySet DEF WritesInit, RegistryInit, EventsInOrder, Recorded, Moves
  <2>3. Explained
    BY DEF WritesInit, RegistryInit, Explained, Status, Absent
  <2> QED BY <2>1, <2>2, <2>3 DEF LedgerInv
<1>2. LedgerInv /\ [WritesNext]_vars => LedgerInv'
  BY WritesInvStep, OrderStep, ExplanationStep DEF LedgerInv
<1> QED BY <1>1, <1>2, PTL DEF WritesSpec

\* The history of each product is the path from the status it was born with to the status
\* it has, in the order of its ids.
THEOREM HistoriesExplain ==
  ASSUME Targets = Status, Claims = Claim
  PROVE  WritesSpec => []HistoryExplainsStatus
<1>1. LedgerInv => HistoryExplainsStatus
  BY ExplainedIsExplained DEF LedgerInv, WritesInv, RegistryInv
<1> QED BY <1>1, LedgerInvHolds, PTL

-----------------------------------------------------------------------------
\* A sequence that agrees with a shorter one and ends in x is that one with x appended.
LEMMA LastIsAppended ==
  ASSUME NEW n \in Nat, NEW R, NEW old \in [1 .. n -> R], NEW new \in [1 .. n + 1 -> R],
         \A i \in 1 .. n : new[i] = old[i]
  PROVE  new = Append(old, new[n + 1])
<1>1. old \in Seq(R) /\ Len(old) = n
  OBVIOUS
<1>2. Append(old, new[n + 1])
        = [i \in 1 .. n + 1 |-> IF i = n + 1 THEN new[n + 1] ELSE old[i]]
  BY <1>1
<1> QED BY <1>2

\* A move with a number above all others is the last of the trail.
LEMMA TrailGrows ==
  ASSUME NEW S, IsFiniteSet(S), \A f \in S : f.id \in Nat,
         NEW e, e.id \in Nat, \A f \in S : f.id < e.id
  PROVE  TrailOf(S \cup {e}) =
           Append(TrailOf(S), [from |-> e.from, to |-> e.to, actor |-> e.actor])
<1> DEFINE n == Cardinality(S)
           T == S \cup {e}
           UpTo(U, x) == {f \in U : f.id <= x.id}
<1>1. e \notin S
  OBVIOUS
<1>2. n \in Nat /\ IsFiniteSet(T) /\ Cardinality(T) = n + 1
  BY <1>1, FS_CardinalityType, FS_AddElement
<1>3. \A x \in S : UpTo(T, x) = UpTo(S, x)
  OBVIOUS
<1>4. UpTo(T, e) = T
  OBVIOUS
<1>5. ASSUME NEW x \in S PROVE Cardinality(UpTo(S, x)) \in Nat /\ Cardinality(UpTo(S, x)) <= n
  <2>1. UpTo(S, x) \in SUBSET S
    OBVIOUS
  <2> QED BY <2>1, FS_Subset, FS_CardinalityType
<1> HIDE DEF n, UpTo
<1>6. ASSUME NEW i \in 1 .. n PROVE Numbered(T, i) = Numbered(S, i)
  <2>1. Cardinality(UpTo(T, e)) = n + 1
    BY <1>2, <1>4
  <2>2. n + 1 # i
    BY <1>2, <1>6
  <2>3. Cardinality(UpTo(T, e)) # i
    BY <2>1, <2>2
  <2> QED BY <1>3, <2>3 DEF Numbered, UpTo
<1>7. Numbered(T, n + 1) = {e}
  <2>1. \A x \in S : Cardinality(UpTo(T, x)) # n + 1
    BY <1>2, <1>3, <1>5
  <2>2. Cardinality(UpTo(T, e)) = n + 1
    BY <1>2, <1>4
  <2> QED BY <2>1, <2>2 DEF Numbered, UpTo
<1> DEFINE Row(x) == [from |-> x.from, to |-> x.to, actor |-> x.actor]
<1>8. PICK old : old = TrailOf(S)
  OBVIOUS
<1>9. PICK new : new = TrailOf(T)
  OBVIOUS
<1>10. /\ old = [i \in 1 .. n |-> old[i]]
       /\ \A i \in 1 .. n : old[i] = Row(CHOOSE x \in Numbered(S, i) : TRUE)
  BY <1>8 DEF TrailOf, n
<1>11. /\ new = [i \in 1 .. n + 1 |-> new[i]]
       /\ \A i \in 1 .. n + 1 : new[i] = Row(CHOOSE x \in Numbered(T, i) : TRUE)
  BY <1>2, <1>9 DEF TrailOf
<1>12. new[n + 1] = Row(e)
  <2>1. (CHOOSE x \in Numbered(T, n + 1) : TRUE) = e
    BY <1>7
  <2>2. n + 1 \in 1 .. n + 1
    BY <1>2
  <2>3. new[n + 1] = Row(CHOOSE x \in Numbered(T, n + 1) : TRUE)
    BY <1>11, <2>2
  <2> HIDE DEF T
  <2> QED BY <2>1, <2>3
<1>13. \A i \in 1 .. n : new[i] = old[i]
  <2> SUFFICES ASSUME NEW i \in 1 .. n PROVE new[i] = old[i]
    OBVIOUS
  <2>1. Numbered(T, i) = Numbered(S, i)
    BY <1>6
  <2>2. i \in 1 .. n + 1
    BY <1>2
  <2> QED BY <1>10, <1>11, <2>1, <2>2
<1> DEFINE R == {new[i] : i \in 1 .. n + 1}
<1>14. new \in [1 .. n + 1 -> R] /\ old \in [1 .. n -> R]
  <2>1. new \in [1 .. n + 1 -> R]
    BY <1>11
  <2>2. \A i \in 1 .. n : i \in 1 .. n + 1
    BY <1>2
  <2>3. \A i \in 1 .. n : old[i] \in R
    BY <1>13, <2>2
  <2>4. old \in [1 .. n -> R]
    BY <1>10, <2>3
  <2> QED BY <2>1, <2>4
<1> HIDE DEF R
<1>15. new = Append(old, new[n + 1])
  BY <1>2, <1>13, <1>14, LastIsAppended
<1> QED BY <1>8, <1>9, <1>12, <1>15

\* The ledger's copy of the rules is the repositories' own.
LEMMA SameRules ==
  /\ Ledger!Status = Status /\ Ledger!LiveStatus = LiveStatus /\ Ledger!ActorKind = ActorKind
  /\ Ledger!ChangeableStatus = ChangeableStatus
  /\ \A s : Ledger!GuardAllowsBirth(s) <=> GuardAllowsBirth(s)
  /\ \A a, b : Ledger!GuardAllowsMove(a, b) <=> GuardAllowsMove(a, b)
  /\ \A a, b : Ledger!eventFor(a, b) = eventFor(a, b)
  /\ \A a, b : Ledger!mayRecord(a, b) <=> mayRecord(a, b)
  /\ \A a, b : Ledger!mayRetireFrom(a, b) <=> mayRetireFrom(a, b)
<1>1. Ledger!Status = Status
  BY DEF Ledger!Status, Status
<1>2. Ledger!LiveStatus = LiveStatus /\ Ledger!ActorKind = ActorKind
      /\ Ledger!ChangeableStatus = ChangeableStatus
  BY <1>1 DEF Ledger!LiveStatus, LiveStatus, Ledger!ActorKind, ActorKind,
              Ledger!ChangeableStatus, ChangeableStatus
<1>3. \A s : Ledger!GuardAllowsBirth(s) <=> GuardAllowsBirth(s)
  BY DEF Ledger!GuardAllowsBirth, GuardAllowsBirth
<1>4. \A a, b : Ledger!GuardAllowsMove(a, b) <=> GuardAllowsMove(a, b)
  BY DEF Ledger!GuardAllowsMove, GuardAllowsMove
<1>5. \A a, b : Ledger!eventFor(a, b) = eventFor(a, b)
  BY Zenon DEF Ledger!eventFor, eventFor
<1>6. \A a, b : Ledger!mayRecord(a, b) <=> mayRecord(a, b)
  BY Zenon DEF Ledger!mayRecord, mayRecord, Ledger!RecordingAuthority, RecordingAuthority
<1>7. \A a, b : Ledger!mayRetireFrom(a, b) <=> mayRetireFrom(a, b)
  BY DEF Ledger!mayRetireFrom, mayRetireFrom
<1> QED BY <1>1, <1>2, <1>3, <1>4, <1>5, <1>6, <1>7

\* The trail of every product: what the refinement maps to the ledger's.
Trails == [p \in Product |-> TrailOf(Moves(p))]

\* Every step is a step of the ledger, or does not show.
LEMMA StepIsLedgerStep ==
  ASSUME LedgerInv, LedgerInv', [WritesNext]_vars
  PROVE  [Ledger!LedgerNext]_(Ledger!ledgerVars)
<1> DEFINE Step == [Ledger!LedgerNext]_(Ledger!ledgerVars)
<1>0. RegistryTypeOK /\ RegistryTypeOK' /\ WritesTypeOK
  BY DEF LedgerInv, WritesInv, RegistryInv
<1>1. CASE status' = status /\ history' = history
  <2>1. \A p : Moves(p)' = Moves(p)
    BY <1>1 DEF Moves
  <2>2. Trails' = Trails
    BY <2>1 DEF Trails
  <2> QED BY <1>1, <2>2 DEF Ledger!ledgerVars, Trails
<1>2. ASSUME NEW t \in Tx, NEW n \in Nat, call[t] \in Calls, Entered(t, n)
      PROVE  Ledger!LedgerNext
  <2>1. PICK p, s : p = call[t].product /\ s = call[t].to
    OBVIOUS
  <2>2. p \in Product /\ s \in Status /\ GuardAllowsBirth(s)
    BY <1>2, <2>1, CallFacts DEF Entered
  <2>3. status[p] = "absent" /\ status' = [status EXCEPT ![p] = s]
    BY <1>2, <2>1 DEF Entered, Absent
  <2>4. \A q \in Product \ {p} : KeyOf[q] = KeyOf[p] => status[q] \notin LiveStatus
    <3> SUFFICES ASSUME NEW q \in Product \ {p}, KeyOf[q] = KeyOf[p], Live(status[q])
                 PROVE  FALSE
      BY DEF Live
    <3>1. Live(status'[p])
      BY <1>0, <2>2, <2>3 DEF RegistryTypeOK, GuardAllowsBirth, Live, LiveStatus, Status
    <3>2. Live(status'[q])
      BY <1>0, <2>2, <2>3 DEF RegistryTypeOK
    <3>3. KeyLiveOnce'
      BY DEF LedgerInv, WritesInv, RegistryInv
    <3> QED BY <2>2, <3>1, <3>2, <3>3 DEF KeyLiveOnce, Live
  <2>5. Trails' = Trails
    <3>1. \A q : Moves(q)' = Moves(q)
      BY <1>2, MovesAfter DEF LedgerInv
    <3> QED BY <3>1 DEF Trails
  <2>6. Ledger!Enter(p, s)
    BY <2>2, <2>3, <2>4, <2>5, SameRules DEF Ledger!Enter, Trails
  <2> QED BY <2>2, <2>6, SameRules DEF Ledger!LedgerNext
<1>3. ASSUME NEW t \in Tx, NEW n \in Nat, call[t] \in Calls, MoveMade(t, n)
      PROVE  Ledger!LedgerNext
  <2>1. PICK p, to, a, e :
          p = call[t].product /\ to = call[t].to /\ a = call[t].actor /\ e = EventOf(t, n)
    OBVIOUS
  <2>2. p \in Product /\ to \in Status /\ to \in ChangeableStatus /\ a \in ActorKind
    BY <1>3, <2>1, CallFacts DEF MoveMade
  <2>3. /\ status[p] = seen[t] /\ seen[t] \in Status \ {to} /\ GuardAllowsMove(seen[t], to)
        /\ MayMove(a, seen[t], to) /\ status' = [status EXCEPT ![p] = to]
        /\ e.from = seen[t] /\ e.to = to /\ e.actor = a
    BY <1>3, <2>1 DEF MoveMade
  <2>4. mayRecord(a, eventFor(status[p], to)) /\ mayRetireFrom(a, status[p])
    BY <2>3 DEF MayMove, Decided
  <2>5. /\ Moves(p)' = Moves(p) \cup {e} /\ \A q : q # p => Moves(q)' = Moves(q)
        /\ \A f \in Moves(p) : f.id < e.id /\ e.id \in Nat
    BY <1>3, <2>1, MovesAfter DEF LedgerInv
  <2>6. TrailOf(Moves(p)') = Append(TrailOf(Moves(p)), [from |-> e.from, to |-> to, actor |-> a])
    <3>1. IsFiniteSet(Moves(p)) /\ (\A f \in Moves(p) : f.id \in Nat) /\ e.id \in Nat
      BY <1>3, <2>1, MovesAreOrdered, MovesAfter DEF LedgerInv
    <3> QED BY <2>3, <2>5, <3>1, TrailGrows
  <2>7. Trails' = [Trails EXCEPT ![p] =
                     Append(@, [from |-> status[p], to |-> to, actor |-> a])]
    <3>1. \A q \in Product : Trails'[q] = IF q = p
             THEN Append(Trails[p], [from |-> status[p], to |-> to, actor |-> a])
             ELSE Trails[q]
      BY <2>2, <2>3, <2>5, <2>6 DEF Trails
    <3> QED BY <2>2, <3>1 DEF Trails
  <2>8. Ledger!Move(p, to, a)
    BY <2>2, <2>3, <2>4, <2>7, SameRules DEF Ledger!Move, Trails
  <2> QED BY <2>2, <2>8, SameRules DEF Ledger!LedgerNext
<1> QED BY <1>1, <1>2, <1>3, OnlyCommitsShow, WhatACommitInstalls DEF LedgerInv

\* The repositories implement the ledger: each commit enters one product or makes one legal
\* move, written down at that moment, and no other step shows.
THEOREM RepositoriesKeepTheLedger ==
  ASSUME Targets = Status, Claims = Claim
  PROVE  WritesSpec => ImplementsLedger
<1>1. WritesInit => Ledger!LedgerInit
  <2> SUFFICES ASSUME WritesInit PROVE Ledger!LedgerInit
    OBVIOUS
  <2>1. \A p : TrailOf(Moves(p)) = << >>
    <3>1. \A p : Moves(p) = {}
      BY DEF WritesInit, RegistryInit, Moves
    <3>2. Cardinality({}) = 0
      BY FS_EmptySet
    <3>3. TrailOf({}) = << >>
      BY <3>2 DEF TrailOf
    <3> QED BY <3>1, <3>3
  <2> QED BY <2>1 DEF WritesInit, RegistryInit, Ledger!LedgerInit, Absent
<1>2. LedgerInv /\ LedgerInv' /\ [WritesNext]_vars => [Ledger!LedgerNext]_(Ledger!ledgerVars)
  BY StepIsLedgerStep
<1> QED BY <1>1, <1>2, LedgerInvHolds, PTL DEF WritesSpec, ImplementsLedger, Ledger!LedgerSpec
=============================================================================
