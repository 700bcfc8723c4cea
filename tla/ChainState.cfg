SPECIFICATION MCSpec
CONSTANTS
    Universes <- MCUniverses
    Row <- MCRow
    Chain <- MCChain
    MaxInits = 2
    MaxFaults = 2
    Radius = 1
    WordSize = 4
    MaxTicks = 3
    MaxCoins = 4
    MaxRatio = 10
    Limb = 8
    DefaultSpacing = 2
    FeeUnit = 10
    ChainId = 137
    Header <- MCHeader
    Sent <- MCSent
    Genesis <- MCGenesis
    Coinbase = "miner"
    Tracked = {"pool"}
    Precompiles = {"blake"}
    Receiver = "receiver"
    SystemAddrs = {"receiver"}
    Gas = 1
    Room = 3
    CachedBlocks <- MCBlocks
    MaxReplays = 3
    MaxWanted = 1
    MaxLoadFaults = 1
INVARIANTS PoolsAreLoaded ReplayIsChain
CHECK_DEADLOCK FALSE
