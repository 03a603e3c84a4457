SPECIFICATION Spec
CONSTANTS
  MaxRuns = 2
  MaxCrashes = 2
  Edits = {e1}
  JobKinds <- Both
  IOFailures = FALSE
  SlowRelease = FALSE
  SameSecond = FALSE
INVARIANTS RegisteredIsComplete EndedIsClean UserDataCarriedOver
CHECK_DEADLOCK FALSE
