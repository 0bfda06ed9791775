SPECIFICATION DispatchSpec
CONSTANTS
    N = 2
    MaxRetries = 2
    MaxStarts = 1
    MaxBoots = 0
    Size = 2
    MaxBatch = 2
    MaxLength = 2
INVARIANT
    SummaryCountsMessages
CHECK_DEADLOCK FALSE
