SPECIFICATION Spec
CONSTANTS
  Upstreams = {u1}
  Connections = {c1}
  Account = Account
  None = None
  MaxChanges = 2
  MaxRefreshes = 1
INVARIANTS
  LeasesAccounted
  DisposedIsClean
  SettledIsCurrent
  ShownActiveIsServed
PROPERTIES
  DisposeCompletes
  ChainSettles
CHECK_DEADLOCK FALSE
