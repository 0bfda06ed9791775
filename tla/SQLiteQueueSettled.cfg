SPECIFICATION Spec
CONSTANTS
    N = 1
    MaxRetries = 2
    MaxStarts = 2
    MaxBoots = 0
PROPERTIES
    SettledIsFinal
CHECK_DEADLOCK FALSE
