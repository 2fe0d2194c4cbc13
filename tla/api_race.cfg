SPECIFICATION ApiSpec
CONSTANTS
  Workers = {w1, w2}
  Projects = {p1}
  Actors <- MCActors
  Policies <- MCPolicies
  AllowLists <- MCAllowLists
  ProviderNames = {"mock", "external"}
  ActionSets <- MCActionSets
  ManualActions = {}
  StrictProviders = FALSE
PROPERTIES
  CompletionSurvivesRaces
