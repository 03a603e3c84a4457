SPECIFICATION Spec
CONSTANTS
  MaxRuns = 1
  MaxCrashes = 1
  Edits = {}
  JobKinds <- VCenter
  IOFailures = FALSE
  SlowRelease = TRUE
  SameSecond = FALSE
INVARIANTS RegisteredIsComplete
CHECK_DEADLOCK FALSE
