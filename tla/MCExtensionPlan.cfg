SPECIFICATION Spec
CONSTANTS
  a1 = a1
  a2 = a2
  c1 = c1
  c2 = c2
  c3 = c3
  AdapterIds <- MCAdapterIds
  ConnectionIds <- MCConnectionIds
  Rank <- MCRank
  Plugins = {p1, p2}
  Generations = {g1, g2}
  Sources = {s1, s2, s3}
  Adapters <- MCAdapters
  Connections <- MCConnections
  Registrars = {r1, r2, r3}
  MaxModels = 2
  MaxAdapters = 1
  MaxConnections = 3
  MaxRevision = 4
  Absent = Absent
  NoGeneration = NoGeneration
  Unbound = Unbound
  Unset = Unset
INVARIANTS
  EntriesHaveRegistrars
  SourcesExclusive
  BridgeServesPlan
  SourcesReachTheirModels
  RequiredAdaptersProtect
PROPERTIES
  DisposalIsLocal
  RevisionTracksContent
SYMMETRY Symmetry
CHECK_DEADLOCK FALSE
