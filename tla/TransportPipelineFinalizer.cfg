\* Does a configured server finalizer run for every request?
SPECIFICATION Spec
INVARIANT FinalizerRunsOnce
CHECK_DEADLOCK FALSE
