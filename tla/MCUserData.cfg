SPECIFICATION UserSpec
CONSTANTS
    v1 = v1
    v2 = v2
    Requests = {r1, r2, r3}
    VMs = {v1, v2}
    VmSets <- MCSets
    VmLists <- MCLists
    Names = {n1, n2}
    UserLabel = "a"
    MaxColls = 3
    LatestRequests = {r1, r2}
    MaxWork = 4
SYMMETRY MCNames
INVARIANTS InventoriesCurrent ConsoleCatchesUp
CHECK_DEADLOCK FALSE
