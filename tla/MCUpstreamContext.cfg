SPECIFICATION ContextSpec
CONSTANTS
  u1 = u1
  u2 = u2
  u3 = u3
  u4 = u4
  ga = ga
  gb = gb
  Upstreams <- MCUpstreams
  Plugins = {p1, p2}
  Bindings = {b1, b2, b3}
  Unbound = Unbound
  Generations = {g1, g2}
  Sources = {s1, s2, s3}
  GatewayPrefixes <- MCGatewayPrefixes
  Groups <- MCGroups
  Descriptors <- MCDescriptors
  Rank <- MCRank
  MaxModels = 3
  MaxRegistrations = 3
  MaxRevision = 5
  Absent = Absent
  NoGeneration = NoGeneration
  NoPrefix = NoPrefix
INVARIANTS
  NoConflicts
  NoEntryWithoutBinding
  EntriesFenced
  RetryIsUnchanged
  ListenerIsCurrent
  PointersResolve
  CatalogMatchesPlan
  GroupsAreFaithful
PROPERTIES
  DisposalIsLocal
  ContextKeepsStore
SYMMETRY Symmetry
CHECK_DEADLOCK FALSE
