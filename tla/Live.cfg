SPECIFICATION Spec
CONSTANTS
    LastBlock = 4
    Active = {2, 4}
    Weight <- MCWeight
    Parallelism = 2
    Concurrency = 2
    BatchBlocks = 2
    BufferLimit = 2
    MaxFaults = 2
    Width = 2
    FailCap = 3
    MaxBlocks = 3
    Exec = TRUE
INVARIANT AnsweredIsCached
INVARIANT SpanIsApplied
PROPERTY SessionProgresses
CHECK_DEADLOCK FALSE
