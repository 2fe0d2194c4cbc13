SPECIFICATION Spec
CONSTANTS
  Projects = {p1}
  Actors <- MCActors
  Policies <- MCPolicies
  AllowLists <- MCAllowLists
  ProviderNames = {"mock", "external", "unsupported"}
  ActionSets <- MCActionSets
  ManualActions <- MCManualActions
  StrictProviders = TRUE
INVARIANTS
  TypeOK
  StatusMatchesTasks
  CompletionIsDelivery
  RequestsMatchStatus
  LegalTransitions
  AuditMatchesDecisions
  DecidersHadAuthority
  DecisionsAuthorized
  RetryIsIdempotent
  NeverStuck
PROPERTIES
  CompletedIsFinal
  AuditOnlyGrows
  WaitingCompletesByAuthority
  LifecycleRefined
