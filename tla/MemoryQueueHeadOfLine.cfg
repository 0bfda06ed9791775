SPECIFICATION Spec
CONSTANTS
    N = 2
    MaxRetries = 1
    MaxStarts = 1
INVARIANT
    IdleOnlyWhenNothingIsReady
CHECK_DEADLOCK FALSE
