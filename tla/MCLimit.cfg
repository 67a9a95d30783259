CONSTANTS
    c = c
    d = d
    n = n
    m = m
    Clients = {c, d}
    Nodes = {n, m}
    Caller = n
    Plans <- LimitPlans
    MaxCalls = 2
    Sem = 1
SPECIFICATION CFairSpec
CHECK_DEADLOCK FALSE
INVARIANTS
    LimitHolds
