\* Two services start against each other, with crashes, failing calls and a
\* set that is always refused.
CONSTANTS
  s1 = s1
  s2 = s2
  m1 = m1
  r1 = r1
  proxy = proxy
  rules = rules
  sources = sources
  profiles = profiles
  Supports = {s1}
  ModelServers = {}
  Runtimes = {r1}
  NoInstance = NoInstance
  Steps <- Migrations
  Legacy <- LegacyTables
  Releases <- MCReleases
  Deployed <- MCDeployed
  Known <- MCKnown
  SupportNeeds <- SupportTables
  ModelNeeds <- ModelTables
  RuntimeNeeds <- RuntimeTables
  AccessSets <- MCAllAccessSets
  TelemetrySets <- MCTelemetrySets
  Refused = {sources}
SPECIFICATION Spec
PROPERTIES
  StartupEnds
  AcceptedSetsArrive
