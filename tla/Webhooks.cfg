SPECIFICATION WebhooksSpec
CONSTANTS
    opened = opened
    clicked = clicked
    h1 = h1
    h2 = h2
    Types = {opened, clicked}
    Handlers = {h1, h2}
    Tolerance = 1
    Requests = 2
    MaxChanges = 3
INVARIANTS
    WebhooksTypeOK
    ResultIsTrue
PROPERTIES
    HandlerOfTheMoment
CHECK_DEADLOCK FALSE
