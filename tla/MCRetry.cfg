CONSTANTS
    Callers = {p1, p2}
    Answers <- MCAnswersDynamic
    CounterBits = 3
    MaxPicks = 4
    Healthy = {2}
    Callbacks = {"max", "nil", "user"}
    MaxAttempts = 2
    MaxHistory = 3
    Timeout = 2
    MaxTime = 2
SPECIFICATION Spec
INVARIANTS
    RetryTypeOK
    AttemptBudget
PROPERTY
    RetryCallReturns
CHECK_DEADLOCK FALSE
