CONSTANTS
    Callers = {p1, p2}
    MaxCalls = 2
    AutoAck = FALSE
    Timeout = 2
    MaxTime = 3
SPECIFICATION Spec
PROPERTY CallsReturn
CHECK_DEADLOCK FALSE
