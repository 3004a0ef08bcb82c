SPECIFICATION Spec
CONSTANTS
  Caller = {c1}
  MaxActive = 1
  Ops = {"run"}
  Spread = FALSE
  Faults = {}
  MaxFaults = 0
INVARIANT
  HealthyNeverErrors
