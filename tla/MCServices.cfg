SPECIFICATION Spec
CONSTANTS
    Users = {u1, u2}
    MaxCollections = 2
    Versions = 2
    MaxDbFaults = 1
    Calls = {c1, c2}
    Accounts = {a1}
    Urls <- MCUrls
    MasterPasswords = {p1, p2}
    MaxKeys = 2
    Datacenters = {d1, d2}
    CollectorRequiredPrivileges = {read}
    InspectorRequiredPrivileges = {snapshot}
    ForecasterRequiredPrivileges = {allocate}
    Grants <- MCGrants
    MaxRuns1 = 2
    MaxCrashes1 = 2
    CmpVms = {1, 2, 3}
    CmpCluster <- MCClusterOf
    CmpPairs <- MCPairs
    CmpPageSizes = {0, 5}
    DefaultPageSize = 1
    MaxPageSize = 2
    MaxExclusions = 1
    Sources <- MCSources
    Phrases <- MCPhrases
    Conditions <- MCConditions
    Spellings <- MCSpellings
    MaxNestedLevels = 2
INVARIANTS OneConnection LatestUndisturbed ServedIsMigrated RecordsReadable CollectedIsPublished TokensSpellSource ParseIsGrammar SelectsMeaning AnswersExact
SYMMETRY Symmetry
CHECK_DEADLOCK FALSE
