SPECIFICATION Spec
CONSTANTS
  Calls = {k1, k2}
  None = None
  MaxEvents = 3
INVARIANTS
  NothingLost
PROPERTIES
  LoginIsFollowed
  OutcomesAreFinal
  PageCatchesUp
CHECK_DEADLOCK FALSE
