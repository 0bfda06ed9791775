SPECIFICATION LimitsSpec
CONSTANTS
    queue = queue
    d1 = d1
    d2 = d2
    Callers = {queue}
    Direct = {d1, d2}
    TokenUnits = 3
    PerMs = 1
    Full = 3
    GPerMs = 2
    GFull = 6
INVARIANTS
    LimitsTypeOK
    RateRespected
    EachKeepsGlobalRate
    SendsKeepBothRates
PROPERTIES
    EveryoneGetsThrough
