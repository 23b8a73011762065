SPECIFICATION Spec
CONSTANTS
  NFiles = 2
  NReduce = 1
  Workers = {w1}
  MaxSlow = 0
  MaxCrashes = 0
INVARIANT OutputsComplete
CHECK_DEADLOCK FALSE
