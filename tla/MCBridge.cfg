SPECIFICATION Spec
CONSTANTS
  c1 = c1
  c2 = c2
  a1 = a1
  s1 = s1
  s2 = s2
  Requests = {r1}
  Configs <- MCConfigs
  MaxChunks = 2
  Unset = Unset
INVARIANTS
  SentUnderOnePlan
  CompleteMeansComplete
PROPERTIES
  UpstreamStreamsClose
CHECK_DEADLOCK FALSE
