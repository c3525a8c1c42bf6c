SPECIFICATION SuiteSpec
CONSTANTS
    MAX_NONCE = 10
    threads = 3
    MaxNodes = 3
    MaxEdges = 4
    Tree <- MCTree
    Costs = {0, 1, 2}
    Amounts = {1, 2, 3}
    Pool = 2
    Items = {1, 2}
    Bidders = {"b1", "b2"}
    Packages = {{}, {1}, {1, 2}, {2, 3}}
    Values = {1, 2}
    Nonces = {0}
    MaxBids = 3
    buffer_size = 3
    batch_size = 2
    update_every = 2
    pretrain_steps = 1
    num_episodes = 4
    max_steps = 2
    SaveEvery = 2
    Floor = 2
    MaxCrashes = 1
    Arrays <- MCArrays
    ParamLists <- MCParamLists
    MaxUpdates = 3
INVARIANTS
    TypeOK
    WinnerMetTarget
    GivesUpOnlyWhenExhausted
    AncestorsAreAll
    DrawsEveryEdgeOnce
    CostsAreDistinct
    SellsEveryItemOnce
    PrioritiesStayAligned
    
PROPERTIES
    LoopsEnd
    FindsCycles
    
CHECK_DEADLOCK FALSE
