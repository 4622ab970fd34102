SPECIFICATION PassportsSpec
CONSTANTS
  p1 = p1
  Product = {p1}
  Tx = {t1, t2, t3}
  Reader = {r1, r2}
  Key = {k}
  KeyOf <- OneSerial
  Targets = {}
  Claims = {}
  MaxEvents = 3
  Calls <- SomeCalls
SYMMETRY Symmetry
INVARIANTS
  StatusIsAccountedFor
  PassportsAgree
CHECK_DEADLOCK FALSE
