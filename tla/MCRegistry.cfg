SPECIFICATION RegistrySpec
CONSTANTS
  Product = {p1, p2}
  Tx = {t1, t2, t3}
  Key = {k}
  KeyOf <- OneSerial
  Targets = {"registered", "suspended", "retired"}
  Claims <- SomeClaims
  MaxEvents = 3
SYMMETRY TxSymmetry
INVARIANTS
  RegistryTypeOK
  OneLiveIdentityPerSerial
  NothingWithoutAnOrigin
  EveryMoveIsRecorded
PROPERTIES
  RetiredIsTerminal
  ExplainedByItsWriter
CHECK_DEADLOCK FALSE
