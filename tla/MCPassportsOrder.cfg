SPECIFICATION PassportsSpec
CONSTANTS
  p1 = p1
  Product = {p1}
  Tx = {t1, t2, t3}
  Reader = {r1}
  Key = {k}
  KeyOf <- OneSerial
  Targets = {}
  Claims = {}
  MaxEvents = 3
  Calls <- SomeCalls
SYMMETRY Symmetry
INVARIANTS
  HistoryReadsAsItHappened
CHECK_DEADLOCK FALSE
