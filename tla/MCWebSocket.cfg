CONSTANTS
    Plans <- MCPlans
    Keys <- MCKeys
    KeySize = 2
    WordSize = 2
    BufSize = 5
    Base = 2
    Short = 2
    MaxRead = 4
SPECIFICATION WSFairSpec
INVARIANTS MessagesIntact OnlyOverLimitRefused
PROPERTY ConnectionEnds
CHECK_DEADLOCK FALSE
