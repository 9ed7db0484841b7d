SPECIFICATION AccessSpec
CHECK_DEADLOCK FALSE
SYMMETRY Symmetric
CONSTANTS
  p1 = p1
  p2 = p2
  alpha = alpha
  beta = beta
  gamma = gamma
  a1 = a1
  a2 = a2
  b1 = b1
  c1 = c1
  Coordinates = {alpha, beta, gamma}
  Manifests = {a1, a2, b1, c1}
  CoordinateOf <- MCCoordinateOf
  VersionOf <- MCVersionOf
  RankOf <- MCRankOf
  Dependencies <- MCDependencies
  Exclusive <- MCExclusive
  Claims <- MCClaims
  Namespaceable = {}
  MaxBatch = 2
  DiscoveryOrder <- MCOrder
  NameOf <- MCNameOf
  InitialSources <- MCSources
  Malformed = {}
  Interval = 1
  LastGood = 1
  MaxEdits = 1
  MaxMoves = 2
  LastTick = 2
  tool = tool
  tool1 = tool1
  tool2 = tool2
  read = read
  write = write
  s1 = s1
  s2 = s2
  Capabilities = {tool}
  Releases = {tool1, tool2}
  CapabilityOf <- MCCapabilityOf
  OperationsOf <- MCOperationsOf
  NeedsOf <- MCNeedsOf
  Sessions = {s1, s2}
  GrantedTo <- MCGrantedTo
  Guarded = {write}
  RefTtl = 1
  LastSecond = 1
  MaxCalls = 3
  CanRestart = TRUE
  LargestTree = 6
  CommonPrefix = 2
  Verifiers <- MCProcesses
  MaxTree = 2
  SharedEntries = 1
  MaxAge = 0
  LastMinute = 1
  DurableObserver = TRUE
  NoCheckpoint = NoCheckpoint
  Handles = {h1}
  Spenders <- MCProcesses
  SecretScopes = {"A", "B"}
  Trusted = {"A"}
  MaxUses = 2
  Ttl = 1
  LastTime = 2
  Unscoped = Unscoped
  Requests <- MCProcesses
  Tickets = {k1}
  AdminOperations = {set, query}
  RoleOperations = {set}
  DataCertificates = {d1}
  AdminCertificates = {m1}
  Adapters = {x1}
  TicketTtl = 1
  LastInstant = 1
  MaxEpoch = 2
  Nobody = Nobody
  Askers <- MCProcesses
  Operations = {run}
  ErrorCodes = {busy, lost}
  EndpointTiers = {1, 3}
  EstimateOf <- MCEstimateOf
  TokenBudget = 3
  MaxEscalations = 2
  MaxEquivalent = 1
  MaxSpent = 1
  Top = Top
  Left = Left
  Flat = Flat
  NoScope = NoScope
  Scopes = {Top, Left, Flat}
  Counters = {tokens}
  Parent <- MCParent
  Rids = {q1, q2}
  LedgerThreads <- MCProcesses
  DurableScopes = {Flat}
  Database = Database
  InitialCaps <- MCCaps
  MaxAmount = 1
  Runs <- MCProcesses
  Approvals = {g1}
  Intents = {i1, i2}
INVARIANTS
  CatalogIsHonest ExecutesWhatWasLoaded ProofsAreSound ObservedOnlyGrows
  ControlPlaneIsExact ReasoningIsBounded ApprovedOnce
PROPERTIES
  RegistryIsExact SecretsAreBounded LedgerHolds
