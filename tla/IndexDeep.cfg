SPECIFICATION Spec
CONSTANTS
    MaxHeight = 4
    Confirmations = 1
    SweepBlocks = 2
    MaxFailures = 1
    MaxDepth = 3
    MaxReorgs = 2
    MaxErrors = 1
    MaxRestarts = 1
    MaxLag = 0
    ReorgAnytime = TRUE
    CanDie = TRUE
PROPERTY UnwindsFromStaleBlock
PROPERTY StoreImplements
CHECK_DEADLOCK FALSE
