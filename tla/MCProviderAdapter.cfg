SPECIFICATION Spec
CONSTANTS
  Calls = {k1, k2}
  Drains = {d1}
  Threads = {t1, t2}
  Models = {m1, m2}
  None = None
SYMMETRY Symmetry
INVARIANTS
  ModelsStayKnown
PROPERTIES
  DrainsWait
  DrainsEnd
