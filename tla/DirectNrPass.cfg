\* Evaluate phase by phase against requests at any moment, liveness included.
CONSTANTS
  Handles <- HandleSet
  NoHandle <- NullHandle
  kMaxPasses <- PassBound
  kCreateAtFrame <- CreateFrame
  kRefusals <- Refusals
  MaxSetups <- SetupBound
SPECIFICATION FairSpec
CHECK_DEADLOCK FALSE
INVARIANTS
  EvaluatesOlderFeatures
  NoFeatureForgotten
  HistoryIsContinuous
PROPERTY SetupTakesEffect
