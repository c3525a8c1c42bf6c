SPECIFICATION Spec
CONSTANTS
    Managers = {m1, m2}
    MaxLeases = 2
    MaxRestarts = 0
    EtcdFails = FALSE
INVARIANTS
    SingleLeader
CHECK_DEADLOCK FALSE
