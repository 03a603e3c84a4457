\* Liveness: units that never return unless canceled, no pool finalizer.
SPECIFICATION FairSpec
CONSTANTS
    Keys <- MCKeys
    Units = 1
    Stoppers = {"s1"}
    Cancellers = {"c1"}
    Target <- MCTarget
    HasFinalizer = FALSE
    NormalWorkers = 1
    ReservedWorkers = 1
PROPERTIES StopReturns
CHECK_DEADLOCK FALSE
