SPECIFICATION Spec
CONSTANTS
    N = 3
    MaxRetries = 2
    MaxStarts = 2
INVARIANTS
    TypeOK
    OneAtATime
    DeliveredOnce
    NeverEarly
    NoStrandedJob
    RetryBudget
PROPERTIES
    KeepsPromise
    FirstAttemptsInOrder
    DestroyCutsNothingOff
CHECK_DEADLOCK FALSE
