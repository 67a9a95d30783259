CONSTANTS
    Channels = {"x", "y"}
    Clients = {"c"}
    Goroutines = {g1}
    Workers = {w1}
    Locks = {"x", "y"}
    LockOf <- OwnLock
    Free = Free
    MaxJobs = 1
    Sharded = TRUE
    c1 = c1
    c2 = c2
    c3 = c3
    u1 = u1
    u2 = u2
    ClientIDs = {c1, c2, c3}
    UserOf <- MCUserOf
    TTL = 2
    Interval = 1
    MaxCount = 2
SPECIFICATION MCSpec
INVARIANTS
    ConnectionHasChannels
    GhostsExpire
    NoUserMissed
PROPERTIES
    ServedUnlessGivenUp
    SubscribedIsPresent
