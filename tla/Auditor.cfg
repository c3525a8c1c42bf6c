SPECIFICATION FairSpec
CONSTANTS
    Events = {e1, e2, e3}
    Workers = {w1, w2}
    Closers = {c1, c2}
    MaxQueueSize = 2
    MaxStops = 2
    NoEvent = NoEvent
INVARIANTS
    TypeOK
    AcceptedIsAccountedFor
    RecordedAtMostOnce
    DbOpenWhilePersisting
PROPERTIES
    TrailSpec
    ShutdownCompletes
    QueuedIsHandled
CHECK_DEADLOCK FALSE
