SPECIFICATION Spec
CONSTANTS
    Registry <- MCRegistry
    Priority <- MCPriority
    WrappedNative = 33
    DustPart = 10000
    ProximityWindow = 24
    Transactions <- MCTransactions
    Blocks <- MCBlocks
    NBlocks = 1
    V2Pools = {22}
    TipSinks = {51}
    Window = 3
    MinPct = 0
    JitWindow = 1
INVARIANTS ClaimsSettle ArbIsEarned
CHECK_DEADLOCK FALSE
