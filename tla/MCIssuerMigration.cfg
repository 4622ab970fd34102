SPECIFICATION MigrationSpec
CONSTANTS
  a = a
  none = none
  p1 = p1
  e1 = e1
  verified = verified
  unverified = unverified
  Party = {a, b}
  Standing = {unverified, verified}
  Default = unverified
  Product = {p1}
  Event = {e1}
  Writer = {w1, w2}
  Ops <- Everything
  NoParty = none
  Absent = absent
SYMMETRY Symmetry
INVARIANTS
  MigrationTypeOK
  NobodyLosesTheirParty
  TheRecordsAgree
PROPERTIES
  HistoryIsKept
CHECK_DEADLOCK FALSE
