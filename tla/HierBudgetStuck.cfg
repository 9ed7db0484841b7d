SPECIFICATION Spec
CONSTANTS
  Root = Root
  Left = Left
  Right = Right
  r1 = r1
  r2 = r2
  o1 = o1
  o2 = o2
  NoScope = NoScope
  Scopes = {Root}
  Counters = {tokens, loads, executions}
  Parent <- MCLoneParent
  Rids = {r1}
  Operators = {o1}
  MaxDepth = 1
  MaxCounters = 2
  AmountBound = 1
  LimitBound = 1
INVARIANT ActiveReservationCanBeReleased
