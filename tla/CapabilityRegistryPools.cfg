SPECIFICATION RegistryFairSpec
CONSTANTS
    Tasks = {t1, t2}
    Capabilities = {c1, c2}
    Versions = {1}
    HalfCores = {1, 2}
    NoPool = NoPool
    NoCall = NoCall
PROPERTIES
    PoolsAreIsolated
