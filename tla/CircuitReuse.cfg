SPECIFICATION BreakerSpec
CONSTANTS
  Callers = {c1, c2, c3}
  Keys = {k1, k2}
  NoKey = NoKey
  FailureThreshold = 1
  RecoveryTimeout = 0
  MaxEntries = 1
  MaxGeneration = 9
  ReuseExplored = TRUE
INVARIANT OneProbe
