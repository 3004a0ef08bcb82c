SPECIFICATION FairSpec
CONSTANTS
  Caller = {c1, c2}
  Threshold = 3
  Reattempt = 2
INVARIANTS
  TypeOK
  ReArmed
PROPERTIES
  KeepsProtecting
  Recovers
