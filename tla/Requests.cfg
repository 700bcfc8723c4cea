SPECIFICATION Spec
CONSTANTS
    Providers = {"own", "public"}
    Rps <- MCRps
    Archives <- MCArchives
    Oldest <- MCOldest
    Missing <- MCMissing
    Txs <- MCTxs
    Tasks = {1, 2}
    Batches <- MCBatches
    MaxDepth = 2
    Fallback = 1
    MaxFails = 1
    MaxOutages = 1
    MaxOps = 2
    MaxAge = 2
    Attempts = 2
INVARIANTS QuotaKept RowsAreTheBlocks
PROPERTY OperationsEnd
ACTION_CONSTRAINT MCOpening
CHECK_DEADLOCK FALSE
