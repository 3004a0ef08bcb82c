SPECIFICATION Spec
CONSTANTS
  Caller = {c1, c2}
  MaxActive = 2
  Ops = {"run"}
  Spread = TRUE
  Faults = {}
  MaxFaults = 0
SYMMETRY CallerSymmetry
INVARIANT
  HealthyNeverErrors
