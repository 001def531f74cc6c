SPECIFICATION Spec
CONSTANTS
  w1 = w1
  w2 = w2
  w3 = w3
  Workers <- MCWorkers
  LockTime = 2
  InitialWait = 1
  MaxExponent = 1
  MaxFailed = 2
  MaxStall = 1
  MaxSuppression = 4
  MaxTime = 6
SYMMETRY Symmetry
CHECK_DEADLOCK FALSE
INVARIANTS Exclusive SuppressionBounded
PROPERTY FailureCounts
