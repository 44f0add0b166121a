\* The refresh queue under web requests and destruction.
CONSTANTS
    Books = {b1, b2}
    Threads = {t1, t2}
    MaxOps = 4
SPECIFICATION RefreshSpec
INVARIANTS
    RefreshTypeOK
    QueuedKeyHasJob
    InFlightIsCurrent
PROPERTIES
    WorkerCreatesNoEntry
    QueuedJobIsFetched
    DestructorEnds
