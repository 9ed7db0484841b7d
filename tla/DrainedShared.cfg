SPECIFICATION Spec
CONSTANTS
  tool = tool
  lib = lib
  tool1 = tool1
  tool2 = tool2
  lib1 = lib1
  lib2 = lib2
  e1 = e1
  e2 = e2
  e3 = e3
  t1 = t1
  t2 = t2
  t3 = t3
  NoPin = NoPin
  NoRevision = NoRevision
  MaxCoordinates = 2
  MaxRevisions = 4
  MaxInFlight = 2
  Coordinates = {tool}
  Revisions = {tool1, tool2}
  PinIds = {e1, e2}
  CoordinateOf <- MCLoneCoordinateOf
  Needs <- MCLoneNeeds
  Installed <- MCLoneInstalled
  RevisionOf <- MCLoneRevisionOf
  RefsOf <- MCSharedRefs
  Cancellable = {tool1}
  Threads = {t1, t2}
  MaxSwitches = 2
INVARIANT RunningIsPinned
