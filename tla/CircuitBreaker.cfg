SPECIFICATION BreakerSpec
CONSTANTS
  Callers = {c1, c2, c3, c4}
  Keys = {k1, k2}
  NoKey = NoKey
  FailureThreshold = 2
  RecoveryTimeout = 1
  MaxEntries = 1
  MaxGeneration = 10
  ReuseExplored = FALSE
INVARIANTS
  CircuitsAreExact
PROPERTIES
  StaleOutcomeIgnored
