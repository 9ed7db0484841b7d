SPECIFICATION CallsSpec
CHECK_DEADLOCK FALSE
CONSTANTS
  Callers = {c1, c2}
  Slots = {k1}
  Arguments = {a1, a2}
  NoSlot = NoSlot
  Nobody = Nobody
  Capacity = 2
  Persist = TRUE
  CanCrash = TRUE
  CanRecover = TRUE
  CanFail = TRUE
  Threads = {t1, t2}
  Refs = {e1}
  Aliased = {t1, t2}
  WorkerJobs = TRUE
  NoCaller = NoCaller
  tool = tool
  lib = lib
  tool1 = tool1
  tool2 = tool2
  lib1 = lib1
  NoPin = NoPin
  Coordinates = {tool, lib}
  Revisions = {tool1, tool2, lib1}
  CoordinateOf <- MCCoordinateOf
  PinIds = {p1, p2, p3}
  MaxCoordinates = 2
  MaxRevisions = 2
  MaxInFlight = 2
INVARIANTS
  ExecutedOnce Settled SupervisionIsExact
PROPERTIES
  DrainIsFinal CallsAndKeysSettle SupervisedCallsEnd DrainsEnd
