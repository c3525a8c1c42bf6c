SPECIFICATION CoreSpec
CONSTANTS
    Managers = {m1}
    MaxLeases = 2
    MaxRestarts = 2
    EtcdFails = TRUE
    Tasks = {t1, t2, t3}
    Capabilities = {c1}
    Versions = {1, 2}
    HalfCores = {2, 4}
    NoPool = NoPool
    NoCall = NoCall
INVARIANTS
    StatesAreAPath
    CleanShutdownReleasesLeadership
    RunsTheLatestVersion
    RegisteredHasPool
    PermitsAreConserved
PROPERTIES
    ShutdownFreesTheLease
    UnrenewedKeyLapses
    CallsReturn
CHECK_DEADLOCK FALSE
