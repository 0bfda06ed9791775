SPECIFICATION Spec
CONSTANTS
    N = 2
    MaxRetries = 2
    MaxStarts = 2
INVARIANT
    RetryingMeansWaitingForRetry
CHECK_DEADLOCK FALSE
