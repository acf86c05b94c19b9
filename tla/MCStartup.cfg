\* Racing starts, restarts and rollouts over every database an earlier
\* release may have left.
CONSTANTS
  s1 = s1
  s2 = s2
  m1 = m1
  r1 = r1
  proxy = proxy
  rules = rules
  sources = sources
  profiles = profiles
  Supports = {s1, s2}
  ModelServers = {m1}
  Runtimes = {}
  NoInstance = NoInstance
  Steps <- Migrations
  Legacy <- LegacyTables
  Releases <- MCReleases
  Deployed <- MCDeployed
  Known <- MCKnown
  SupportNeeds <- SupportTables
  ModelNeeds <- ModelTables
  RuntimeNeeds <- RuntimeTables
  AccessSets <- MCAccessSets
  TelemetrySets <- MCTelemetrySets
  Refused = {}
SPECIFICATION Spec
INVARIANTS
  SchemaIsWhole
  MigrationsExclude
  StepsFindTheirTables
  ServingFindsTables
  ScheduleOfRunningRelease
  SetOfRunningRelease
  RulesFindTheirProxy
