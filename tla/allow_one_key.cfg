SPECIFICATION Spec
CONSTANTS
  Key = {k1}
  Rate = 2
  Period = 1
  Burst = 2
  Cost = {0, 1, 2, 3}
  Res = 2
  MaxTime = 9
INVARIANTS
  IInv
  RateBound
  RetryAfterExact
  RetryAfterHeaderEnough
  RemainingExact
  ResetAfterExact
PROPERTY
  ImplementsTokenBucket
