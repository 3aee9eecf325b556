SPECIFICATION Spec
CONSTANTS
  Steps <- PlanSteps
  NStages = 2
  StageOf <- TwoStages
  Ordinal <- InOrder
  Width <- WholeStage
  Critical <- BAndC
  Recoverable <- OnlyB
  Asks <- OnlyA
  PlanAsks = TRUE
  NWalks = 2
CHECK_DEADLOCK FALSE
INVARIANTS
  OnlyTheDeadlineLeavesGaps
  StagesInOrder
PROPERTIES
  CancelEndsTheRun
  LifecycleHolds
