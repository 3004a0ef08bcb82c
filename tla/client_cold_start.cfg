SPECIFICATION FairSpec
CONSTANTS
  Caller = {c1, c2}
  MaxActive = 1
  Ops = {"run"}
  Spread = TRUE
  Faults = {}
  MaxFaults = 0
INVARIANT
  WarmNeverErrors
PROPERTY
  KeepsServing
