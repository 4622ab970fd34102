SPECIFICATION WriteRequestsSpec
CONSTANTS
  Actor = {a1, a2}
  Standing = {a1}
  Handle = {h1, h2}
  Issuance = {i1, i2}
  HandleAttempts = 2
  Environment = {live, dev}
  Here = live
  MaxNow = 2
  MaxWithdrawn = 1
  Request = {r1, r2}
  Address = {addr}
  Unit = 1
  Rate = 1
  Second = 1
  Burst = 1
  Slip = 1
  MaxWait = 1
  MaxClock = 1
SYMMETRY Symmetry
INVARIANTS
  WriteRequestsTypeOK
  HistoryNamesTheCaller
  WithdrawnStaysOut
  ShownTokensWork
  ChargedToWhoAsked
  IssuingIsOneAct
CHECK_DEADLOCK FALSE
