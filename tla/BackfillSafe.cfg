SPECIFICATION Spec
CONSTANTS
    MaxHeight = 5
    MaxTip = 6
    Confirmations = 1
    Requests <- AllRequests
    PriceStride = 4
    MaxErrors = 2
    MaxRuns = 2
INVARIANTS NeverStalls NothingLost
PROPERTIES Ascending
CHECK_DEADLOCK FALSE
