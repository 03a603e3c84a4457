CONSTANTS
    vm1 = vm1  vm2 = vm2  vm3 = vm3  k1 = k1  k2 = k2
    VCenterVMs <- MCVCenterVMs
    Inventory <- MCInventory
    ClusterOf <- MCClusterOf
    MigrationExcluded <- MCExcluded
    DesiredMetrics = {"cpu"}
    BatchSizes = {0}
    DefaultBatchSize = 1
    MaxRuns = 2
    MaxRunning = 1
    MaxFaults = 1
SPECIFICATION RsFairSpec
INVARIANTS ServedFromWhole
PROPERTIES CollectorReturns
CHECK_DEADLOCK FALSE
