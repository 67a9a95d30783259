CONSTANTS
    c = c
    d = d
    Channels = {"x", "y"}
    Clients = {c}
    Goroutines = {g1, g2}
    Workers = {w1, w2}
    Locks = {"l1"}
    LockOf <- OneLock
    Free = Free
    MaxJobs = 1
    Subscribers = {c, d}
    SubChannels = {"x", "y", "z"}
    Positioned = {"x", "z"}
    Shards = {"s", "t"}
    ShardOf <- TwoShards
    Requests <- ClientRequests
SPECIFICATION MCSpec
CHECK_DEADLOCK FALSE
INVARIANTS
    ResponseBeforeAny
