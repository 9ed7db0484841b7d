SPECIFICATION StoresSpec
CHECK_DEADLOCK FALSE
SYMMETRY Symmetric
CONSTANTS
  p1 = p1
  p2 = p2
  Callers <- MCProcesses
  Scopes = {s1, s2}
  Ids = {id1}
  Works = {w1, w2}
  Ttls = {1, 2}
  MaxTime = 2
  tool = tool
  lib = lib
  tool1 = tool1
  tool2 = tool2
  lib1 = lib1
  lib2 = lib2
  NoRevision = NoRevision
  NoPin = NoPin
  Coordinates = {tool, lib}
  Revisions = {tool1, tool2, lib1, lib2}
  CoordinateOf <- MCCoordinateOf
  Needs <- MCNeeds
  Installed <- MCInstalled
  PinIds = {pin1}
  Operators <- MCProcesses
  Tenants = {s1}
  Writers <- MCProcesses
  EntryTtl = 1
  EventTtl = 0
  PageLimit = 1
  LastMoment = 2
  MaxRows = 2
  RemovalKeys = {k1, k2, k3}
  Targets = {x, y}
  AckIds = {a1, a2}
  RecordLimit = 2
  MaxGeneration = 4
  Sections = {"a", "b", "c", "d"}
  TokensOf <- MCTokens
  WorthOf <- MCWorth
  TokenLimit = 5
  EventLimit = 2
  MaxChanges = 5
  i1 = i1
  Principals = {i1}
  Administrators <- MCProcesses
  MayAdminister <- MCMay
  Documents <- MCDocuments
  Closures <- MCClosures
  ProviderOf <- MCProviderOf
  PermissionsOf <- MCPermissionsOf
  FieldsOf <- MCFieldsOf
  Within <- MCWithin
  CanonicalOf <- MCCanonicalOf
  Arguments <- MCArguments
  PolicySessions = {s1}
  MaxRevision = 2
  Corpora = {t1}
  Curators <- MCProcesses
  Readers = {"alice", "bob"}
  Anyone = "any"
  Batches <- MCBatches
  Dotted = {2}
  LastDay = 1
  Observers <- MCProcesses
  Series = {"search", "load", "execute"}
  SeriesLimit = 2
  MaxSpans = 4
  LastStamp = 1
  Loggers <- MCProcesses
  AuditEvents = {e1, e2, e3, e4}
  MaxSegments = 1
  CanCrash = TRUE
  Setters <- MCProcesses
  Settings = {locale, cap}
  SettingValues = {x}
INVARIANTS
  UsedOnlyAsDecided ScopedStateIsExact GrantsAreExact RagIsExact MetricsAreExact
  AuditIsKept SettingsAreKept
PROPERTIES
  ApprovalsKeepContract UpdatesAreSafe RemovalIsExplicit ResidencyIsExact
