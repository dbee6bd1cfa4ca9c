SPECIFICATION Spec
CONSTANTS
  Upstreams = {u1}
  Connections = {c1}
  Account = Account
  None = None
  MaxChanges = 2
  MaxRefreshes = 0
INVARIANTS
  DisposeReachesPublications
CHECK_DEADLOCK FALSE
