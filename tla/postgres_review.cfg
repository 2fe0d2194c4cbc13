SPECIFICATION PgSpec
CONSTANTS
  Workers = {}
  RereadDamaged = FALSE
  Projects = {p1}
  Actors <- MCActors
  Policies <- MCPolicies
  AllowLists <- MCAllowLists
  ProviderNames = {"mock", "external"}
  ActionSets <- MCActionSets
  ManualActions = {}
  StrictProviders = FALSE
INVARIANTS
  SwitchIsTransparent
