SPECIFICATION Spec
CONSTANTS
    queue = queue
    directSend = directSend
    Callers = {queue, directSend}
    TokenUnits = 5
    PerMs = 1
    Full = 5
INVARIANT
    RateRespected
