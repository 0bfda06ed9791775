SPECIFICATION Spec
CONSTANTS
    N = 3
    Rows = 2
    MaxRetries = 2
    MaxStarts = 2
    MaxBoots = 1
PROPERTIES
    MemoryJobsSettle
    RowsSettle
    StopReturns
CHECK_DEADLOCK FALSE
