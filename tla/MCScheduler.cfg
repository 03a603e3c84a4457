\* Two normal works and one of priority, one normal and one reserved worker, one caller of
\* Close, under the fairness of CooperativeSpec (the safety properties do not depend on it).
SPECIFICATION CooperativeSpec
CONSTANTS
    n1 = n1
    n2 = n2
    p1 = p1
    c1 = c1
    Works <- MCWorks
    Prio <- MCPrio
    Closers = {c1}
    NormalWorkers = 1
    ReservedWorkers = 1
INVARIANTS DoneNeverBlocks DispatchIsWorkConserving CloseIsQuiescent
PROPERTIES NothingStartsAfterExit ImplementsExecutor FutureResolves
CHECK_DEADLOCK FALSE
