SPECIFICATION Spec
CONSTANTS
    N = 2
    MaxRetries = 2
    MaxStarts = 2
    MaxBoots = 1
INVARIANTS
    TypeOK
    OneAtATime
    NoOrphanedRow
    CompletedWasDelivered
    NeverEarly
    ResendBudget
    RetryBudget
PROPERTIES
    KeepsPromise
    NoRowLost
CHECK_DEADLOCK FALSE
