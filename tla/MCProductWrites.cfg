SPECIFICATION FairWritesSpec
CONSTANTS
  p1 = p1
  p2 = p2
  Product = {p1, p2}
  Tx = {t1, t2, t3}
  Key = {k}
  KeyOf <- OneSerial
  Targets = {}
  Claims = {}
  MaxEvents = 3
  Calls <- MovesAndARival
INVARIANTS
  WritesTypeOK
  HistoryExplainsStatus
  NeverRefusedLate
  AnswersAreTrue
PROPERTIES
  SuspensionEndsByAuthority
  ImplementsLedger
  EveryCallIsAnswered
CHECK_DEADLOCK FALSE
