CONSTANTS
    r1 = r1  r2 = r2  v1 = v1  v2 = v2
    None = None
    Old = Old
    Requests <- TwoRequests
    VMs <- TwoVMs
    Limit = 1
    MaxInspectors = 2
    MaxPools = 2
    MaxCollections = 2
    MaxFaults = 1
SPECIFICATION FairSpec
INVARIANTS SnapshotsAccounted SessionsOwned VddkRowDescribesFolder
PROPERTIES RequestsReturn
CHECK_DEADLOCK FALSE
