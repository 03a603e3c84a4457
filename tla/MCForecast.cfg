CONSTANTS
    r1 = r1  r2 = r2  x1 = x1  x2 = x2
    None = None
    Requests <- TwoRequests
    Pairs <- TwoPairs
    SameDatastore <- OnePair
    Limit = 1
    Iterations = 2
    MaxPools = 2
    MaxFaults = 1
SPECIFICATION FairSpec
INVARIANTS DatastoresClean OneForecast
PROPERTIES StopIsFinal ForecastsEnd
CHECK_DEADLOCK FALSE
