CONSTANTS
    PingInterval = 2
    PongTimeout = 1
    PresenceInterval = 1
    StaleDelay = 1
    CloseDelay = 1
    MaxTTL = 1
    MaxClosers = 1
    Off = 9
    MaxRefreshes = 1
SPECIFICATION FairSpec
CHECK_DEADLOCK FALSE
INVARIANTS
    EventsInOrder
    TimerRuns
PROPERTIES
    DeadIsClosed
