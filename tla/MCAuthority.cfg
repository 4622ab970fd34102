SPECIFICATION AuthoritySpec
CONSTANTS
  m1 = m1
  m2 = m2
  Grant = {1, 2}
  Issuing = {1, 2}
  Lifetime <- Lifetimes
  Membership = {m1, m2}
  Standing = {1, m1}
  Writer = {w1}
  Tick = 2
  MaxClock = 5
  MaxActs = 3
INVARIANTS
  AuthorityTypeOK
  WithdrawnIsNotUsed
  RefusalsAreDeserved
PROPERTIES
  HistoryKeepsItsAnswer
CHECK_DEADLOCK FALSE
