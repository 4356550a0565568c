CONSTANTS
    Callers = {p1}
    MaxCalls = 2
    AutoAck = FALSE
    Timeout = 1
    MaxTime = 2
SPECIFICATION Spec
INVARIANT TimeoutOnlyWithoutReply
CHECK_DEADLOCK FALSE
