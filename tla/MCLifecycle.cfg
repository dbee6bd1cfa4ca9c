SPECIFICATION Spec
CONSTANTS
  Approvals = {k1, k2}
  Events = {e1, e2}
  Turns = {t1}
  Items = {i1, i2}
  Listeners = {l1}
  Deciders = {d1, d2}
  MaxItems = 1
  None = None
INVARIANTS
  AnnouncedIsAnswered
  PendingIsDecidable
  OutputIsComplete
PROPERTIES
  DisposedIsSilent
SYMMETRY Symmetry
CHECK_DEADLOCK FALSE
