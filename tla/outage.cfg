SPECIFICATION FairSpec
CONSTANTS
  Key = {k1}
  Rate = 1
  Period = 1
  Burst = 1
  Cost = {1}
  Res = 1
  MaxTime = 3
  Caller = {c1}
  Threshold = 4
  Reattempt = 2
  MaxLosses = 1
INVARIANTS
  TypeOK
  Conserved
  LimitHolds
PROPERTIES
  RetryAfterEnough
  StopsAfterThreshold
  NeverOpensEarly
  Decides
