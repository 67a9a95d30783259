CONSTANTS
    Channels = {a, b}
    Publishers = {p, r}
    LockOf <- OneLock
    HistorySize = 2
    HistoryTTLs = {1, 2}
    MetaTTL = 2
    ResultTTL = 1
    Retries = TRUE
    UintMax = 7
    MaxNow = 3
    MaxCalls = 3
    MaxOffset = 3
    MaxEpoch = 2
    RedisSize = 2
    RedisTTLs = {0, 1, 2}
    RedisMetaTTLs = {2, 3}
    RedisResultTTL = 2
    RedisMaxOffset = 4
    RedisMaxEpoch = 2
    RedisMaxCalls = 5
    MaxPending = 2
SYMMETRY Symmetry
SPECIFICATION BSpec
CHECK_DEADLOCK FALSE
INVARIANTS
    DeadlinesAwaited
    OncePerKey
    ReadsAreExact
PROPERTIES
    BrokersKeepHistory
