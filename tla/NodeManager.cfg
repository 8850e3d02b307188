SPECIFICATION FairSpec
CONSTANTS
  Nodes = {n1, n2}
  Addrs = {a1}
  Guards = {TRUE}
  MaxOps = 4
  MaxChurn = 1
  Endpoints <- MgrEndpoints
  MaxWeight = 2
  MaxNodes = 3
  MaxPicks = 4
  MaxSelects = 2
INVARIANTS PendingExact RefreshExplained CacheInSync RegisteredStays StrictRotation WeightedShare
PROPERTY CallsReturn
CHECK_DEADLOCK FALSE
