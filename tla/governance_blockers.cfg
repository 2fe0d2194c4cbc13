SPECIFICATION Spec
CONSTANTS
  AreaSets <- MCAreaSets
  BriefGates <- MCBriefGates
  Reviewers = {"ann"}
INVARIANTS
  BlockersPreventContinuation
