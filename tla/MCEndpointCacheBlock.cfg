CONSTANTS
    Instances = {1, 2}
    Errors = {e1}
    NoErr = NoErr
    Readers = {r1}
    EventLists <- MCEventLists
    MaxTime = 1
    MaxTimeout = 1
    MaxEvents = 2
    MaxCreated = 4

SPECIFICATION Spec

INVARIANT ReadersNeverWaitOnFactory
