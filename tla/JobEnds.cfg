SPECIFICATION JobSpec
CONSTANTS
    MaxHeight = 3
    Confirmations = 1
    SweepBlocks = 2
    MaxFailures = 2
    MaxDepth = 1
    MaxReorgs = 1
    MaxErrors = 1
    MaxRestarts = 0
    MaxLag = 1
    ReorgAnytime = TRUE
    CanDie = TRUE
INVARIANTS StoredCanonical RejectsCanonical SessionGapFree
PROPERTIES CatchesUp StopEndsJob
CHECK_DEADLOCK FALSE
