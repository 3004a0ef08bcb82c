SPECIFICATION FairSpec
CONSTANTS
  Caller = {c1}
  MaxActive = 1
  Ops = {"run"}
  Spread = TRUE
  Faults = {"flush"}
  MaxFaults = 1
PROPERTY
  KeepsServing
