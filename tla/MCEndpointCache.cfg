CONSTANTS
    Instances = {1, 2}
    Errors = {e1}
    NoErr = NoErr
    Readers = {r1, r2}
    EventLists <- MCEventLists
    MaxTime = 2
    MaxTimeout = 2
    MaxEvents = 3
    MaxCreated = 4

SPECIFICATION Spec

INVARIANT TypeOK
INVARIANT EndpointLifecycle
INVARIANT SnapshotOrderedByInstance
PROPERTY ReadsFollowInvalidationPolicy
PROPERTY EntryStability
PROPERTY ImplementsEndpointerAbstract
PROPERTY EndpointsReturns
