SPECIFICATION MCSpec
CONSTANTS
    Pools <- MCPools
    Family <- MCFamily
    Token0 <- MCToken0
    Token1 <- MCToken1
    Rebasing = {}
    W = 8
    MaxPairs = 0
    MinTax = 2
    Ticks = {1, 2}
    Txs <- MCTxs
    Start <- MCStart
    InitOrder <- MCInitOrder
    MaxTxs <- MCMaxTxs
    LastBlock = 3
    Horizon = 2
    GasCost = 1
    MinProfit = 0
    MaxCandidates = 2
    Grace = 2
    Quoting <- MCQuoting
    TokenA <- MCTokenA
    TokenB <- MCTokenB
    Fee <- MCFee
    TaxedTokens = {}
    MaxScanned <- MCMaxScanned
    Starts <- MCStarts
    BlockTxs <- MCBlockTxs
    MaxBlockTxs = 3
    MaxDepth = 4
    MaxCycles = 2
    MaxAttempts = 4
    SizedPairs <- MCSizedPairs
    SizedCycles <- MCSizedCycles
    Swaps <- MCSwaps
    Unit = 1000
    Ratios <- MCRatios
    Word = 2000000000
    Limb = 400
    Bps = 100
    Ppm = 1000
    MaxPoints = 3
    MaxInverted = 2
    MaxCycleCuts = 2
    Narrowings = 8
INVARIANTS ClosedFormIsBest BracketsAreBands SplitGainsNothing
INVARIANTS MirrorsTwoHop QuietMeansAligned JitIsCompleted
PROPERTY NothingUnscanned
PROPERTY FailureUndone
PROPERTY ReplayImplements
CHECK_DEADLOCK FALSE
