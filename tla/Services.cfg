SPECIFICATION SuiteSpec
CONSTANTS
    Callers = {c1, c2}
    Agents = {a1, 1}
    CacheSize = 1
    MaxRecords = 3
    Nothing = Nothing
    Messages = {"a", "b"}
    MaxPending = 1
    MaxDeliver = 2
    Threads = {"t1"}
    Threshold = 2
    MaxAttempts = 3
    MaxResponses = 5
    MaxParse = 5
    MaxPost = 3
    SegmentLists <- MCSegmentLists
    Models = {"m1", "m2"}
    Orders <- MCOrders
    Retries = {0, 1, 2, 3, 4}
    Deployers = {"d1", "d2"}
    TagSets = {{"team"}}
    Policies <- MCPolicies
    Lists <- MCLists
    Settings = {"secure.token", "port"}
    Secure = {"secure.token"}
    MaxChanges = 1
    Inserters = {"i1"}
    Searchers = {"s1"}
    Batches = {1, 2, 3}
    PoolSize = 2
    MaxLinks = 2
INVARIANTS
    VersionsAreDense
    AnswersTheQuestion
    AckedMeansHandled
    CountersAddUp
    OpensOnConsecutiveFailures
    DeliversWhatItAccepts
    FallsBackInOrder
    AppliedMeansAssigned
    NilMeansInserted
    OneConnection
PROPERTIES
    StoredIsHandled
    CallsReturn
CHECK_DEADLOCK FALSE
