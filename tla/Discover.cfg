CONSTANTS
    Pools = {"p1", "p2"}
    Created <- MCCreated
    Active <- MCActive
    Tokenless = {"p2"}
    Filled = {}
    Nameless = {}
    Singletons = {}
    Remote = {"p2"}
    Guessed = {"p2"}
    MaxBlock = 4
    MaxRuns = 2
    MaxShards = 2
    Batch = 2
    FactoryStep = 3
    MinSplit = 1
    Lookback = 4
    MaxPools = 1
    Sources = {"hybrid", "remote"}
    Modes = {"explicit", "lookback"}
    Unlimited = FALSE
    Faults = {"query", "call", "lookup", "put", "note", "span"}
CHECK_DEADLOCK FALSE
ACTION_CONSTRAINT MCRanges
SPECIFICATION Spec
INVARIANTS
    CoveredIsFound
PROPERTIES
    KnowledgeKept
