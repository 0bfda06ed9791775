SPECIFICATION PlainSpec
CONSTANTS
    N = 1
    MaxRetries = 1
    MaxStarts = 1
    MaxBoots = 0
PROPERTIES
    ScheduledJobsAreSent
CHECK_DEADLOCK FALSE
