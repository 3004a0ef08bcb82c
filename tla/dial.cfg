SPECIFICATION FairSpec
CONSTANTS
  Dialer = {d1, d2}
  MaxVersion = 2
INVARIANTS
  TypeOK
  NoLeak
  NeverSkipsAuth
PROPERTIES
  RefusedOnlyWhenStale
  EveryDialEnds
  Heals
