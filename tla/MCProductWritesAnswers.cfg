SPECIFICATION WritesSpec
CONSTANTS
  p1 = p1
  p2 = p2
  Product = {p1}
  Tx = {t1, t2, t3}
  Key = {k}
  KeyOf <- OneSerial
  Targets = {}
  Claims = {}
  MaxEvents = 3
  Calls <- RacingMoves
INVARIANTS
  IllegalAnswersAreIllegal
CHECK_DEADLOCK FALSE
