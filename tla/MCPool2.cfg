\* Safety: two pipelines of two units on one normal and one reserved worker,
\* two callers of Stop and one of Cancel.
SPECIFICATION Spec
CONSTANTS
    Keys <- MCKeys
    Units = 2
    Stoppers = {"s1", "s2"}
    Cancellers = {"c1"}
    Target <- MCTarget
    HasFinalizer = TRUE
    NormalWorkers = 1
    ReservedWorkers = 1
INVARIANTS FinalizeAlwaysRuns StopIsFinal FinalizeSeesLastResult
CHECK_DEADLOCK FALSE
