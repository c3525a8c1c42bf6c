SPECIFICATION NatsSpec
CONSTANTS
    Messages = {a, b}
    MaxPending = 2
    MaxDeliver = 2
INVARIANTS
    ShutdownIsGraceful
CHECK_DEADLOCK FALSE
