--------------------------- MODULE PassportsProofs ---------------------------
(***************************************************************************)
(* What strangers may believe of a passport, for any number of readers and *)
(* writers. The two queries share no transaction; what holds between them  *)
(* holds because a history only grows and a product neither disappears nor *)
(* leaves retirement (ReadSoFar), and because what one reader was shown is *)
(* still there for those who ask later (NobodyKnowsBetter).                *)
(***************************************************************************)
EXTENDS Passports, ProductWritesProofs

\* A product strangers can find.
Found(p) == status[p] \notin {Absent, "draft"}

\* The history accounts for a product being, or having been, in status s.
Accounted(p, s) ==
  \E e \in history : e.product = p /\ (e.to = s \/ (e.from = NoState /\ BornAs(p, s)))

\* What a reader has read is still so, or was on the way to what is so now.
SoFar(r) ==
  LET p == passport[r].product
  IN /\ reading[r] = "product" => p \in Product
     /\ reading[r] \in {"history", "shown"} =>
          /\ p \in Product /\ Found(p)
          /\ passport[r].status = "retired" => status[p] = "retired"
     /\ reading[r] = "history" => Accounted(p, passport[r].status)
     /\ reading[r] = "shown" => passport[r].history \subseteq {e \in history : e.product = p}

ReadSoFar == \A r \in Reader : SoFar(r)

\* Whoever asks after a reader was answered is told no less.
NobodyKnowsBetter ==
  \A r \in Reader :
    /\ reading[r] = "idle" => earlier[r] = {}
    /\ earlier[r] \subseteq Answered \ {r}
    /\ \A s \in earlier[r] \cap Shown : passport[r].product = passport[s].product =>
         /\ reading[r] # "not_found"
         /\ (reading[r] \in {"history", "shown"} /\ passport[s].status = "retired")
              => passport[r].status = "retired"
         /\ reading[r] = "shown" => passport[s].history \subseteq passport[r].history

PassportsInv ==
  /\ LedgerInv /\ PassportsTypeOK /\ ReadSoFar /\ NobodyKnowsBetter /\ StatusIsAccountedFor

-----------------------------------------------------------------------------
\* Writers and readers of passports take the steps of the writers alone.
LEMMA WritersGoOn == PassportsSpec => WritesSpec
<1>1. PassportsInit => WritesInit
  BY DEF PassportsInit
<1>2. [PassportsNext]_passportVars => [WritesNext]_vars
  BY DEF PassportsNext, Write, Read, Ask, ReadProduct, ReadHistory, passportVars
<1> QED BY <1>1, <1>2, PTL DEF PassportsSpec, WritesSpec

\* What is committed is accounted for.
LEMMA CommittedIsAccounted ==
  ASSUME LedgerInv, NEW p \in Product, status[p] # Absent
  PROVE  Accounted(p, status[p])
<1>1. status[p] \in Status /\ LeadsTo(p, status[p])
  BY DEF LedgerInv, Explained, WritesInv, RegistryInv, RegistryTypeOK
<1>2. CASE Moves(p) = {}
  <2>1. PICK e \in history : e.product = p
    BY DEF LedgerInv, WritesInv, RegistryInv, OriginsOwed
  <2>2. e.from = NoState
    BY <1>2, <2>1 DEF Moves
  <2> QED BY <1>1, <1>2, <2>1, <2>2 DEF LeadsTo, Accounted
<1>3. CASE Moves(p) # {}
  BY <1>1, <1>3 DEF LeadsTo, EndsAt, Moves, Accounted
<1> QED BY <1>2, <1>3

\* The committed state only goes forward.
LEMMA NothingIsTakenBack ==
  ASSUME LedgerInv, [WritesNext]_vars, [RegistryNext]_registryVars
  PROVE  /\ history \subseteq history'
         /\ \A p \in Product : Found(p) => Found(p)'
         /\ \A p \in Product : status[p] = "retired" => status'[p] = "retired"
         /\ \A p, s : Accounted(p, s) => Accounted(p, s)'
<1> DEFINE Forward ==
      /\ history \subseteq history'
      /\ \A p \in Product : Found(p) => Found(p)'
      /\ \A p \in Product : status[p] = "retired" => status'[p] = "retired"
<1>0. RegistryTypeOK
  BY DEF LedgerInv, WritesInv, RegistryInv
<1>1. Forward
  <2>1. CASE status' = status /\ history' = history
    BY <2>1 DEF Found
  <2>2. ASSUME NEW t \in Tx, NEW n \in Nat, call[t] \in Calls, Entered(t, n) PROVE Forward
    BY <1>0, <2>2, CallFacts DEF Entered, RegistryTypeOK, Found, Absent
  <2>3. ASSUME NEW t \in Tx, NEW n \in Nat, call[t] \in Calls, MoveMade(t, n) PROVE Forward
    <3>1. call[t].to \in ChangeableStatus /\ call[t].to \in Status
      BY <2>3, CallFacts DEF MoveMade
    <3>2. status[call[t].product] # "retired"
      BY <2>3 DEF MoveMade, GuardAllowsMove
    <3> QED BY <1>0, <2>3, <3>1, <3>2
            DEF MoveMade, RegistryTypeOK, Found, Absent, ChangeableStatus, Status
  <2> QED BY <2>1, <2>2, <2>3, OnlyCommitsShow, WhatACommitInstalls DEF LedgerInv
<1>2. \A p, s : BornAs(p, s) => BornAs(p, s)'
  BY <1>0, BirthsAreSettled
<1>3. \A p, s : Accounted(p, s) => Accounted(p, s)'
  BY <1>1, <1>2 DEF Accounted
<1> QED BY <1>1, <1>3

\* The types of what readers have read, and of the dates.
LEMMA PassportTypesStay ==
  ASSUME LedgerInv, LedgerInv', PassportsTypeOK, ReadSoFar, [PassportsNext]_passportVars
  PROVE  PassportsTypeOK'
<1>0. WritesTypeOK' /\ RegistryTypeOK
  BY DEF LedgerInv, WritesInv, RegistryInv
<1> USE DEF PassportsTypeOK
<1>1. CASE UNCHANGED passportVars
  BY <1>0, <1>1 DEF passportVars, readerVars
<1>2. CASE Write
  <2>1. PICK n \in Now : began' = [t \in Tx |-> IF Begins(t) THEN n ELSE began[t]]
    BY <1>2 DEF Write
  <2>2. n \in Nat
    BY <2>1 DEF Now
  <2> QED BY <1>0, <1>2, <2>1, <2>2 DEF Write, readerVars
<1>3. ASSUME NEW r \in Reader, NEW p \in Product, Ask(r, p) PROVE PassportsTypeOK'
  <2>1. [NoPassport EXCEPT !.product = p] \in Passport
    BY DEF NoPassport, Passport
  <2> QED BY <1>0, <1>3, <2>1 DEF Ask, FirstQuery, Answered
<1>4. ASSUME NEW r \in Reader, ReadProduct(r) PROVE PassportsTypeOK'
  <2>1. passport[r].product \in Product
    BY <1>4 DEF ReadProduct, ReadSoFar, SoFar
  <2>2. passport[r] \in Passport
    BY <2>1 DEF NoPassport, Passport
  <2>3. [passport[r] EXCEPT !.status = status[passport[r].product]] \in Passport
    BY <1>0, <2>1, <2>2 DEF Passport, RegistryTypeOK
  <2> QED BY <1>0, <1>4, <2>3 DEF ReadProduct, After, FirstQuery
<1>5. ASSUME NEW r \in Reader, ReadHistory(r) PROVE PassportsTypeOK'
  <2>1. PICK h : h = {e \in history : e.product = passport[r].product}
    OBVIOUS
  <2>2. h \in SUBSET Event
    BY <1>0, <2>1 DEF RegistryTypeOK
  <2>3. passport[r].product \in Product
    BY <1>5 DEF ReadHistory, ReadSoFar, SoFar
  <2>4. passport[r] \in Passport
    BY <2>3 DEF NoPassport, Passport
  <2>5. [passport[r] EXCEPT !.history = h] \in Passport
    BY <2>2, <2>4 DEF Passport
  <2>6. passport' = [passport EXCEPT ![r] = [passport[r] EXCEPT !.history = h]]
    BY <1>5, <2>1 DEF ReadHistory
  <2> QED BY <1>0, <1>5, <2>5, <2>6 DEF ReadHistory, After, FirstQuery
<1> QED BY <1>1, <1>2, <1>3, <1>4, <1>5 DEF PassportsNext, Read

\* A passport that is being read is one.
LEMMA PassportBeingRead ==
  ASSUME PassportsTypeOK, ReadSoFar, NEW r \in Reader, reading[r] \in {"product", "history"}
  PROVE  passport[r] \in Passport /\ passport[r].product \in Product
<1>1. passport[r].product \in Product
  BY DEF ReadSoFar, SoFar
<1> QED BY <1>1 DEF PassportsTypeOK, NoPassport, Passport

\* A query changes what its reader knows, and nothing else.
OnlyReads(r) ==
  /\ \A q \in Reader \ {r} : reading'[q] = reading[q] /\ passport'[q] = passport[q]
  /\ vars' = vars /\ began' = began
  /\ \A q \in Reader : earlier'[q] = IF q = r /\ reading[r] = "idle" THEN Answered ELSE earlier[q]

\* Asking: the first query is the one for the row.
LEMMA WhatAskingDoes ==
  ASSUME PassportsTypeOK, NEW r \in Reader, NEW p \in Product, Ask(r, p)
  PROVE  /\ OnlyReads(r) /\ reading[r] = "idle" /\ reading'[r] = "product"
         /\ passport'[r] = [NoPassport EXCEPT !.product = p]
<1>1. \A q \in Reader \ {r} : reading'[q] = reading[q] /\ passport'[q] = passport[q]
  BY DEF Ask, PassportsTypeOK
<1>2. reading[r] = "idle" /\ reading'[r] = "product"
  BY DEF Ask, PassportsTypeOK, FirstQuery
<1>3. \A q \in Reader : earlier'[q] = IF q = r /\ reading[r] = "idle" THEN Answered ELSE earlier[q]
  BY <1>2 DEF Ask, PassportsTypeOK
<1>4. /\ vars' = vars /\ began' = began
      /\ passport'[r] = [NoPassport EXCEPT !.product = p]
  BY DEF Ask, PassportsTypeOK
<1> QED BY <1>1, <1>2, <1>3, <1>4 DEF OnlyReads

\* The row's query: the status is what is committed, and a draft is not found.
LEMMA WhatTheRowSays ==
  ASSUME PassportsTypeOK, ReadSoFar, NEW r \in Reader, ReadProduct(r),
         NEW p, p = passport[r].product
  PROVE  /\ OnlyReads(r) /\ p \in Product /\ passport[r] \in Passport
         /\ reading[r] = "product"
         /\ reading'[r] = IF Found(p) THEN "history" ELSE "not_found"
         /\ passport'[r] = [passport[r] EXCEPT !.status = status[p]]
<1>1. reading[r] = "product"
  BY DEF ReadProduct
<1>2. p \in Product /\ passport[r] \in Passport
  BY <1>1, PassportBeingRead
<1>3. \A q \in Reader \ {r} : reading'[q] = reading[q] /\ passport'[q] = passport[q]
  BY DEF ReadProduct, PassportsTypeOK
<1>4. \A q \in Reader : earlier'[q] = IF q = r /\ reading[r] = "idle" THEN Answered ELSE earlier[q]
  BY <1>1 DEF ReadProduct, PassportsTypeOK
<1>5. /\ vars' = vars /\ began' = began
      /\ passport'[r] = [passport[r] EXCEPT !.status = status[p]]
  BY DEF ReadProduct, PassportsTypeOK
<1>6. reading'[r] = IF Found(p) THEN "history" ELSE "not_found"
  BY DEF ReadProduct, PassportsTypeOK, Found, After, FirstQuery
<1> QED BY <1>1, <1>2, <1>3, <1>4, <1>5, <1>6 DEF OnlyReads

\* What is committed of a product.
HistoryOf(p) == {e \in history : e.product = p}

\* The history's query: all that is committed of the product.
LEMMA WhatTheHistorySays ==
  ASSUME PassportsTypeOK, ReadSoFar, NEW r \in Reader, ReadHistory(r),
         NEW p, p = passport[r].product,
         NEW h, h = HistoryOf(p)
  PROVE  /\ OnlyReads(r) /\ p \in Product /\ passport[r] \in Passport
         /\ reading[r] = "history" /\ reading'[r] = "shown"
         /\ passport'[r] = [passport[r] EXCEPT !.history = h]
<1>1. reading[r] = "history"
  BY DEF ReadHistory
<1>2. p \in Product /\ passport[r] \in Passport
  BY <1>1, PassportBeingRead
<1>3. passport' = [passport EXCEPT ![r].history = h]
  BY DEF ReadHistory, HistoryOf
<1>4. reading' = [reading EXCEPT ![r] = "shown"]
  BY DEF ReadHistory, After, FirstQuery
<1>5. vars' = vars /\ began' = began /\ earlier' = earlier
  BY DEF ReadHistory
<1>6. \A q \in Reader \ {r} : reading'[q] = reading[q] /\ passport'[q] = passport[q]
  BY <1>3, <1>4 DEF PassportsTypeOK
<1>7. reading'[r] = "shown" /\ passport'[r] = [passport[r] EXCEPT !.history = h]
  BY <1>2, <1>3, <1>4 DEF PassportsTypeOK
<1>8. \A q \in Reader : earlier'[q] = IF q = r /\ reading[r] = "idle" THEN Answered ELSE earlier[q]
  BY <1>1, <1>5
<1> QED BY <1>1, <1>2, <1>5, <1>6, <1>7, <1>8 DEF OnlyReads

-----------------------------------------------------------------------------
\* The invariant of what readers have read: nothing committed is taken back.
LEMMA ReadSoFarStep ==
  ASSUME PassportsInv, [PassportsNext]_passportVars, [WritesNext]_vars,
         [RegistryNext]_registryVars
  PROVE  ReadSoFar'
<1>0. LedgerInv /\ PassportsTypeOK /\ \A r \in Reader : SoFar(r)
  BY DEF PassportsInv, ReadSoFar, SoFar
<1>1. CASE UNCHANGED readerVars
  <2> SUFFICES ASSUME NEW r \in Reader PROVE SoFar(r)'
    BY DEF ReadSoFar, SoFar
  <2>1. PICK p, s : p = passport[r].product /\ s = passport[r].status
    OBVIOUS
  <2>2. reading'[r] = reading[r] /\ passport'[r] = passport[r]
    BY <1>1 DEF readerVars
  <2>3. /\ history \subseteq history'
        /\ p \in Product => /\ Found(p) => Found(p)'
                            /\ status[p] = "retired" => status'[p] = "retired"
        /\ Accounted(p, s) => Accounted(p, s)'
    BY <1>0, NothingIsTakenBack
  <2> QED BY <1>0, <2>1, <2>2, <2>3 DEF SoFar, Found, Accounted
<1>2. ASSUME NEW q \in Reader, OnlyReads(q), SoFar(q)' PROVE ReadSoFar'
  <2> SUFFICES ASSUME NEW r \in Reader, r # q PROVE SoFar(r)'
    BY <1>2 DEF ReadSoFar, SoFar
  <2>1. /\ reading'[r] = reading[r] /\ passport'[r] = passport[r]
        /\ status' = status /\ history' = history
    BY <1>2 DEF OnlyReads, vars, registryVars
  <2>2. PICK p, s : p = passport[r].product /\ s = passport[r].status
    OBVIOUS
  <2>3. Accounted(p, s) => Accounted(p, s)'
    BY <1>0, NothingIsTakenBack
  <2> QED BY <1>0, <2>1, <2>2, <2>3 DEF SoFar, Found, Accounted
<1>3. ASSUME NEW q \in Reader, NEW p \in Product, Ask(q, p) PROVE ReadSoFar'
  <2>1. /\ OnlyReads(q) /\ reading'[q] = "product"
        /\ passport'[q] = [NoPassport EXCEPT !.product = p]
    BY <1>0, <1>3, WhatAskingDoes
  <2>2. SoFar(q)'
    BY <2>1 DEF SoFar, NoPassport
  <2> QED BY <1>2, <2>1, <2>2
<1>4. ASSUME NEW q \in Reader, ReadProduct(q) PROVE ReadSoFar'
  <2>1. PICK p, s : p = passport[q].product /\ s = status[p]
    OBVIOUS
  <2>2. /\ OnlyReads(q) /\ p \in Product /\ passport[q] \in Passport
        /\ reading'[q] = IF Found(p) THEN "history" ELSE "not_found"
        /\ passport'[q] = [passport[q] EXCEPT !.status = s]
    BY <1>4, <2>1, WhatTheRowSays DEF PassportsInv
  <2>3. passport'[q].product = p /\ passport'[q].status = s
    BY <2>1, <2>2 DEF Passport
  <2>4. status' = status /\ history' = history
    BY <2>2 DEF OnlyReads, vars, registryVars
  <2>5. Found(p) => Accounted(p, s)'
    BY <1>0, <2>1, <2>2, CommittedIsAccounted, NothingIsTakenBack DEF Found
  <2>6. SoFar(q)'
    BY <2>1, <2>2, <2>3, <2>4, <2>5 DEF SoFar, Found, Accounted
  <2> QED BY <1>2, <2>2, <2>6
<1>5. ASSUME NEW q \in Reader, ReadHistory(q) PROVE ReadSoFar'
  <2>0. PassportsTypeOK /\ ReadSoFar
    BY DEF PassportsInv
  <2>1. PICK p, h : p = passport[q].product /\ h = HistoryOf(p)
    OBVIOUS
  <2>2. /\ OnlyReads(q) /\ p \in Product /\ passport[q] \in Passport
        /\ reading[q] = "history" /\ reading'[q] = "shown"
        /\ passport'[q] = [passport[q] EXCEPT !.history = h]
    BY <1>5, <2>0, <2>1, WhatTheHistorySays
  <2>3. /\ passport'[q].product = p /\ passport'[q].status = passport[q].status
        /\ passport'[q].history = h
    BY <2>1, <2>2 DEF Passport
  <2>4. status' = status /\ history' = history
    BY <2>2 DEF OnlyReads, vars, registryVars
  <2>5. h = {e \in history' : e.product = p}
    BY <2>1, <2>4 DEF HistoryOf
  <2>6. Found(p)' /\ (passport[q].status = "retired" => status'[p] = "retired")
    BY <1>0, <2>1, <2>2, <2>4 DEF SoFar, Found
  <2>7. SoFar(q)'
    BY <2>2, <2>3, <2>5, <2>6 DEF SoFar, Found
  <2> QED BY <1>2, <2>2, <2>7
<1> QED BY <1>1, <1>3, <1>4, <1>5 DEF PassportsNext, Write, Read, passportVars

-----------------------------------------------------------------------------
\* What a reader was told before the question is what the answer is held against.
LEMMA NobodyKnowsBetterStep ==
  ASSUME PassportsInv, [PassportsNext]_passportVars
  PROVE  NobodyKnowsBetter'
<1>0. PassportsTypeOK /\ ReadSoFar /\ NobodyKnowsBetter
  BY DEF PassportsInv
<1> DEFINE ToldNoLess(r) ==
      /\ reading[r] = "idle" => earlier[r] = {}
      /\ earlier[r] \subseteq Answered \ {r}
      /\ \A s \in earlier[r] \cap Shown : passport[r].product = passport[s].product =>
           /\ reading[r] # "not_found"
           /\ (reading[r] \in {"history", "shown"} /\ passport[s].status = "retired")
                => passport[r].status = "retired"
           /\ reading[r] = "shown" => passport[s].history \subseteq passport[r].history
<1>1. \A r \in Reader : ToldNoLess(r)
  BY <1>0 DEF NobodyKnowsBetter
<1>2. (\A r \in Reader : ToldNoLess(r)') => NobodyKnowsBetter'
  BY DEF NobodyKnowsBetter
<1>3. CASE UNCHANGED readerVars
  BY <1>0, <1>3 DEF NobodyKnowsBetter, readerVars, Answered, Shown
<1>4. ASSUME NEW q \in Reader, OnlyReads(q), q \notin Answered, ToldNoLess(q)'
      PROVE  NobodyKnowsBetter'
  <2> SUFFICES ASSUME NEW r \in Reader, r # q PROVE ToldNoLess(r)'
    BY <1>2, <1>4
  <2>1. reading'[r] = reading[r] /\ passport'[r] = passport[r] /\ earlier'[r] = earlier[r]
    BY <1>4 DEF OnlyReads
  <2>2. \A s \in earlier[r] : /\ s \in Reader \ {q} /\ reading'[s] = reading[s]
                              /\ passport'[s] = passport[s]
    BY <1>1, <1>4 DEF OnlyReads, Answered
  <2> QED BY <1>1, <2>1, <2>2 DEF Answered, Shown
<1>5. ASSUME NEW q \in Reader, NEW p \in Product, Ask(q, p) PROVE NobodyKnowsBetter'
  <2>1. OnlyReads(q) /\ reading[q] = "idle" /\ reading'[q] = "product"
    BY <1>0, <1>5, WhatAskingDoes
  <2>2. earlier'[q] = Answered /\ Answered \subseteq Answered'
    BY <2>1 DEF OnlyReads, Answered
  <2>3. q \notin Answered
    BY <2>1 DEF Answered
  <2> QED BY <1>4, <2>1, <2>2, <2>3
<1>6. ASSUME NEW q \in Reader, reading[q] \in {"product", "history"}, OnlyReads(q)
      PROVE  /\ q \notin Answered /\ earlier'[q] = earlier[q]
             /\ earlier'[q] \subseteq Answered' \ {q}
             /\ \A s \in earlier'[q] \cap Shown' :
                  /\ s \in Reader \ {q} /\ reading[s] = "shown" /\ reading'[s] = "shown"
                  /\ passport'[s] = passport[s] /\ s \in earlier[q] \cap Shown
  BY <1>1, <1>6 DEF OnlyReads, Answered, Shown
<1>7. ASSUME NEW q \in Reader, ReadProduct(q) PROVE NobodyKnowsBetter'
  <2>1. PICK p, st : p = passport[q].product /\ st = status[p]
    OBVIOUS
  <2>2. /\ OnlyReads(q) /\ p \in Product /\ passport[q] \in Passport /\ reading[q] = "product"
        /\ reading'[q] = IF Found(p) THEN "history" ELSE "not_found"
        /\ passport'[q] = [passport[q] EXCEPT !.status = st]
    BY <1>0, <1>7, <2>1, WhatTheRowSays
  <2>3. passport'[q].product = p /\ passport'[q].status = st
    BY <2>1, <2>2 DEF Passport
  <2>4. \A s \in Reader : reading[s] = "shown" /\ passport[s].product = p =>
          Found(p) /\ (passport[s].status = "retired" => st = "retired")
    BY <1>0, <2>1 DEF ReadSoFar, SoFar
  <2>5. ToldNoLess(q)'
    BY <1>6, <2>2, <2>3, <2>4
  <2> QED BY <1>4, <1>6, <2>2, <2>5
<1>8. ASSUME NEW q \in Reader, ReadHistory(q) PROVE NobodyKnowsBetter'
  <2>1. PICK p, h : p = passport[q].product /\ h = HistoryOf(p)
    OBVIOUS
  <2>2. /\ OnlyReads(q) /\ p \in Product /\ passport[q] \in Passport
        /\ reading[q] = "history" /\ reading'[q] = "shown"
        /\ passport'[q] = [passport[q] EXCEPT !.history = h]
    BY <1>0, <1>8, <2>1, WhatTheHistorySays
  <2>3. /\ passport'[q].product = p /\ passport'[q].status = passport[q].status
        /\ passport'[q].history = h
    BY <2>1, <2>2 DEF Passport
  <2>4. \A s \in Reader : reading[s] = "shown" /\ passport[s].product = p =>
          passport[s].history \subseteq h
    BY <1>0, <2>1 DEF ReadSoFar, SoFar, HistoryOf
  <2>5. ToldNoLess(q)'
    BY <1>1, <1>6, <2>1, <2>2, <2>3, <2>4
  <2> QED BY <1>4, <1>6, <2>2, <2>5
<1> QED BY <1>3, <1>5, <1>7, <1>8 DEF PassportsNext, Write, Read, passportVars

\* A passport is shown with the history that accounts for its status, and what was written
\* when is settled.
LEMMA StatusIsAccountedForStep ==
  ASSUME PassportsInv, [PassportsNext]_passportVars, [WritesNext]_vars,
         [RegistryNext]_registryVars
  PROVE  StatusIsAccountedFor'
<1>0. LedgerInv /\ PassportsTypeOK /\ ReadSoFar /\ StatusIsAccountedFor
  BY DEF PassportsInv
<1> DEFINE Explains(e, p, s) == e.to = s \/ (e.from = NoState /\ BornAs(p, s))
<1>1. \A e, p, s : Explains(e, p, s) => Explains(e, p, s)'
  BY <1>0, BirthsAreSettled DEF LedgerInv, WritesInv, RegistryInv
<1>2. ASSUME NEW r \in Reader, reading[r] = "shown", reading'[r] = "shown",
             passport'[r] = passport[r]
      PROVE  \E e \in passport'[r].history :
               Explains(e, passport[r].product, passport[r].status)'
  <2>1. PICK p, s : p = passport[r].product /\ s = passport[r].status
    OBVIOUS
  <2>2. PICK e \in passport[r].history : Explains(e, p, s)
    BY <1>0, <1>2, <2>1 DEF StatusIsAccountedFor, Shown
  <2> QED BY <1>1, <1>2, <2>1, <2>2
<1>3. CASE UNCHANGED readerVars
  BY <1>2, <1>3 DEF readerVars, Shown, StatusIsAccountedFor
<1>4. ASSUME NEW q \in Reader, OnlyReads(q), reading'[q] # "shown" PROVE StatusIsAccountedFor'
  <2> SUFFICES ASSUME NEW r \in Reader, reading'[r] = "shown"
               PROVE  \E e \in passport'[r].history :
                        Explains(e, passport[r].product, passport[r].status)'
    BY DEF StatusIsAccountedFor, Shown
  <2> QED BY <1>2, <1>4 DEF OnlyReads
<1>5. ASSUME NEW q \in Reader, ReadHistory(q) PROVE StatusIsAccountedFor'
  <2>1. PICK p, h, s : /\ p = passport[q].product /\ h = HistoryOf(p)
                       /\ s = passport[q].status
    OBVIOUS
  <2>2. /\ OnlyReads(q) /\ passport[q] \in Passport /\ reading[q] = "history"
        /\ passport'[q] = [passport[q] EXCEPT !.history = h]
    BY <1>0, <1>5, <2>1, WhatTheHistorySays
  <2>3. passport'[q].product = p /\ passport'[q].status = s /\ passport'[q].history = h
    BY <2>1, <2>2 DEF Passport
  <2>4. PICK e \in h : Explains(e, p, s)
    BY <1>0, <2>1, <2>2 DEF ReadSoFar, SoFar, Accounted, HistoryOf
  <2>5. Explains(e, p, s)'
    BY <1>1, <2>4
  <2>6. \E f \in passport'[q].history : Explains(f, passport[q].product, passport[q].status)'
    BY <2>3, <2>4, <2>5
  <2> SUFFICES ASSUME NEW r \in Reader, reading'[r] = "shown"
               PROVE  \E f \in passport'[r].history :
                        Explains(f, passport[r].product, passport[r].status)'
    BY DEF StatusIsAccountedFor, Shown
  <2> QED BY <1>2, <2>2, <2>6 DEF OnlyReads
<1>6. ASSUME NEW q \in Reader, NEW p \in Product, Ask(q, p) PROVE StatusIsAccountedFor'
  BY <1>0, <1>4, <1>6, WhatAskingDoes
<1>7. ASSUME NEW q \in Reader, ReadProduct(q) PROVE StatusIsAccountedFor'
  <2>1. OnlyReads(q) /\ reading'[q] # "shown"
    BY <1>0, <1>7, WhatTheRowSays
  <2> QED BY <1>4, <2>1
<1> QED BY <1>3, <1>5, <1>6, <1>7 DEF PassportsNext, Write, Read, passportVars

-----------------------------------------------------------------------------
\* The inductive invariant of passports: the ledger's, what each reader has read so far,
\* and what others were told before it asked.
THEOREM PassportsInvariance ==
  ASSUME Targets = Status, Claims = Claim
  PROVE  PassportsSpec => []PassportsInv
<1> DEFINE Known == PassportsTypeOK /\ ReadSoFar /\ NobodyKnowsBetter /\ StatusIsAccountedFor
<1>1. PassportsInit => Known
  <2> SUFFICES ASSUME PassportsInit PROVE Known
    OBVIOUS
  <2>1. WritesTypeOK
    BY WritesInvInit DEF PassportsInit, WritesInv
  <2> QED BY <2>1 DEF PassportsInit, PassportsTypeOK, ReadSoFar, SoFar, NobodyKnowsBetter,
                      StatusIsAccountedFor, Answered, Shown
<1>2. LedgerInv /\ LedgerInv' /\ Known /\ [PassportsNext]_passportVars /\ [WritesNext]_vars
      => Known'
  <2> SUFFICES ASSUME LedgerInv, LedgerInv', Known, [PassportsNext]_passportVars,
                      [WritesNext]_vars
               PROVE  Known'
    OBVIOUS
  <2>1. PassportsInv /\ [RegistryNext]_registryVars
    BY WritesInvStep DEF PassportsInv, LedgerInv
  <2>2. PassportsTypeOK'
    BY PassportTypesStay
  <2> QED BY <2>1, <2>2, ReadSoFarStep, NobodyKnowsBetterStep, StatusIsAccountedForStep
<1>3. LedgerInv /\ Known => PassportsInv
  BY DEF PassportsInv
<1> QED BY <1>1, <1>2, <1>3, WritersGoOn, LedgerInvHolds, PTL DEF PassportsSpec, WritesSpec

\* What is read and dated keeps its type.
THEOREM PassportsTypeCorrect ==
  ASSUME Targets = Status, Claims = Claim
  PROVE  PassportsSpec => []PassportsTypeOK
<1>1. PassportsInv => PassportsTypeOK
  BY DEF PassportsInv
<1> QED BY <1>1, PassportsInvariance, PTL

\* The status a passport shows is never ahead of the history under it
\* (read-passport.ts runs the query for the row before the one for the history).
THEOREM ShownIsAccountedFor ==
  ASSUME Targets = Status, Claims = Claim
  PROVE  PassportsSpec => []StatusIsAccountedFor
<1>1. PassportsInv => StatusIsAccountedFor
  BY DEF PassportsInv
<1> QED BY <1>1, PassportsInvariance, PTL

\* A passport once shown is found by whoever asks later, with everything it showed, and
\* retirement is seen by all of them.
THEOREM StrangersAgree ==
  ASSUME Targets = Status, Claims = Claim
  PROVE  PassportsSpec => []PassportsAgree
<1>1. PassportsInv => PassportsAgree
  BY DEF PassportsInv, NobodyKnowsBetter, PassportsAgree, Answered, Shown
<1> QED BY <1>1, PassportsInvariance, PTL

=============================================================================
