SPECIFICATION FairSpec
CONSTANTS
  MaxRuns = 2
  MaxCrashes = 1
  Edits = {}
  JobKinds <- VCenter
  IOFailures = TRUE
  SlowRelease = TRUE
  SameSecond = TRUE
PROPERTIES StopReturns PromotionIsComplete
CHECK_DEADLOCK FALSE
