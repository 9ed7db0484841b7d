SPECIFICATION Spec
CONSTANTS
  Callers = {c1, c2}
  Keys = {k1, k2}
  NoKey = NoKey
  FailureThreshold = 2
  RecoveryTimeout = 1
  MaxEntries = 1
  MaxGeneration = 12
  ReuseExplored = TRUE
  MaxAttempts = 3
  InitialBackoff = 1
  MaxBackoff = 2
  Deadline = 4
INVARIANTS
  AppliedAndReleased
PROPERTIES
  OnlyClosedEvicted RequestsAndCircuitsSettle
