CONSTANTS
    Callers = {p1}
    Answers <- MCAnswersFixed
    CounterBits = 3
    MaxPicks = 4
    Healthy = {2}
    Callbacks = {"max"}
    MaxAttempts = 2
    MaxHistory = 3
    Timeout = 2
    MaxTime = 2
SPECIFICATION Spec
CHECK_DEADLOCK FALSE
INVARIANT DeadlineErrorNotWrapped
