SPECIFICATION ChainSpec
CONSTANTS
  AreaSets <- MCAreaSets
  BriefGates <- MCBriefGates
  Reviewers = {"ann"}
  RelatedIdSets <- MCRelatedIdSets
INVARIANTS
  GatedWorkNeverContinues
  ApprovalRecordTruthful
  WorkOrderChangesNothing
  TriageFollowsAssessment
  LabelsIdentifyDecision
  ChainContinues
  GatedWorkNotReleased
PROPERTIES
  DecisionCarriedAlong
