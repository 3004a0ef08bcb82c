SPECIFICATION FairSpec
CONSTANTS
  Caller = {c1, c2}
  MaxActive = 1
  Ops = {"run", "del"}
  Spread = TRUE
  Faults = {"stop", "drop", "flush", "refuse", "late"}
  MaxFaults = 2
INVARIANTS
  TypeOK
  OneOwner
  RepliesMatch
PROPERTY
  EveryCallReturns
