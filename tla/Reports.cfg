SPECIFICATION MCSpec
CONSTANTS
    Heights = {1, 2, 3}
    Versions = {1, 2}
    OpsOf <- MCOps
    ReasonOf <- MCReasons
    Ts <- Time
    Now <- MCNow
    Windows = {0, 86400}
    DashWindows = {0, 3600, 86400}
    Filters <- MCFilters
    Kinds = {"arb", "jit", "liquidation"}
    Catalogue = {"known"}
    BlockTime = 43200
    Top = 1
    MaxOps = 3
    MaxEvidence = 1
    Budget = 3
    EvidenceSize = 2
    MinEvents = 1
    GapLimit = 2
    MaxGapRanges = 1
    MaxWrites = 2
    Openers = {1, 2}
    Files <- MCFiles
    NewOps <- MCNewOps
    MaxOpens = 3
    MaxDeaths = 1
    CacheOpeners = {1, 2}
    Entries = 6
    CacheVersion = 3
    FreshEntries = {2, 5}
    CacheFiles <- MCCacheFiles
    MaxCacheOpens = 3
INVARIANTS
    SectionsNest
    PanelsAgree
    OpenedIsComplete
    RowsSurvive
CHECK_DEADLOCK FALSE
