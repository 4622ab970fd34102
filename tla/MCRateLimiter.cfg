SPECIFICATION LimiterSpec
CONSTANTS
  Key = {k1, k2}
  Bits = 7
  Unit = 512
  Rate = 85
  Second = 2
  Burst = 1
  FullRefill = 6
  PruneAbove = 1
  Double <- Round
  Gained <- RoundedGain
  Plus <- RoundedSum
  Seconds <- RoundedWait
  Slip = 8
  MaxWait = 3
  SetBacks = {5}
  MaxClock = 8
SYMMETRY Symmetry
INVARIANTS
  LimiterTypeOK
  NeverAboveTheRate
  HonestRetryAfter
PROPERTIES
  MemoryIsBounded
  KeepsItsPromise
CHECK_DEADLOCK FALSE
