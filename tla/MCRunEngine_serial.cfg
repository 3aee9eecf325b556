SPECIFICATION FairSpec
CONSTANTS
  Steps <- PlanSteps
  NStages = 2
  StageOf <- TwoStages
  Ordinal <- InOrder
  Width <- OneAtATime
  Critical <- BAndC
  Recoverable <- OnlyB
  Asks <- OnlyB
  PlanAsks = FALSE
  NWalks = 3
CHECK_DEADLOCK FALSE
INVARIANTS
  AnswerMatchesRows
  RestIsHonest
  CancelledMeansAsked
  RunningHasDriver
PROPERTIES
  FinishedRunIsFrozen
  ResultsAreKept
  ParkedWaitsForAPerson
  RunSettles
