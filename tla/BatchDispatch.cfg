SPECIFICATION DispatchSpec
CONSTANTS
    N = 3
    MaxRetries = 2
    MaxStarts = 1
    MaxBoots = 0
    Size = 2
    MaxBatch = 2
    MaxLength = 5
INVARIANTS
    BatchTypeOK
    RemainingIsTrue
    SummaryIsTrue
    SendsAreBounded
    FileIsDeleted
    NativeTypeOK
    ResultsInPlace
    CountsAddUp
    ChunksStayWhole
PROPERTIES
    QuietAfterReturn
    SendBatchReturns
CHECK_DEADLOCK FALSE
