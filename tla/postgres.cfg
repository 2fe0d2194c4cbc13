SPECIFICATION RepositorySpec
CONSTANTS
  Workers = {w1}
  RereadDamaged = FALSE
  TaskLists <- MCTaskLists
  Projects = {p1}
  Actors <- MCActors
  Policies <- MCPolicies
  AllowLists <- MCAllowLists
  ProviderNames = {"mock", "external"}
  ActionSets <- MCActionSets
  ManualActions = {}
  StrictProviders = FALSE
INVARIANTS
  SortInv
  DependenciesFirst
  OrderedRowsKept
  PlanComesBack
  PgTypeOK
  OnlyOverlappedReadsMix
  SendsWereApproved
  TrailCoversDecisions
PROPERTIES
  Termination
  RequestsAnswered
