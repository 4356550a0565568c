\* Every transport, every configuration, every failing step.
SPECIFICATION Spec
INVARIANTS
    OneOutcome
    AfterOnlyOnSuccess
    ClientCleanup
\* A request is finished once its handler has returned.
CHECK_DEADLOCK FALSE
