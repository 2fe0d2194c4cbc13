SPECIFICATION Spec
CONSTANTS
  Projects = {p1}
  Actors <- MCListedActors
  Policies <- MCListingPolicies
  AllowLists <- MCListingAllowLists
  ProviderNames = {"mock", "external", "unsupported"}
  ActionSets <- MCActionSets
  ManualActions = {}
  StrictProviders = TRUE
INVARIANTS
  DecidersAreListed
