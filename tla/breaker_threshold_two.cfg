SPECIFICATION Spec
CONSTANTS
  Caller = {c1}
  Threshold = 2
  Reattempt = 2
PROPERTY
  StopsAfterThreshold
