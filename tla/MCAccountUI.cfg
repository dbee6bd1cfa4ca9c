SPECIFICATION Spec
CONSTANTS
  Callers = {c1, c2}
  Accounts = {a1}
  Sessions = {s1, s2}
  None = None
  MaxCalls = 5
SYMMETRY Symmetry
INVARIANTS
  ChangesReachModels
  OutcomesAreTold
