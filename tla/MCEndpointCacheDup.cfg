CONSTANTS
    Instances = {1, 2}
    Errors = {e1, e2}
    NoErr = NoErr
    Readers = {r1, r2}
    EventLists <- MCEventListsDup
    MaxTime = 3
    MaxTimeout = 2
    MaxEvents = 4
    MaxCreated = 4

SPECIFICATION Spec

INVARIANT EndpointLifecycle
