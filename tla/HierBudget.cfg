SPECIFICATION Spec
CONSTANTS
  Root = Root
  Left = Left
  Right = Right
  r1 = r1
  r2 = r2
  o1 = o1
  o2 = o2
  NoScope = NoScope
  Scopes = {Root, Left, Right}
  Counters = {tokens}
  Parent <- MCParent
  Rids <- MCRids
  Operators <- MCOperators
  MaxDepth = 1
  MaxCounters = 1
  AmountBound = 2
  LimitBound = 2
SYMMETRY Symmetric
INVARIANTS
  HardCap CountersAreExact
PROPERTIES
  NoLostUpdate ContractSpec
