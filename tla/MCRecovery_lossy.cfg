CONSTANTS
    Clients = {c1}
    HistorySize = 1
    RecoveryLimit = 0
    MaxOffset = 2
    MaxEpoch = 2
    MaxUnsubs = 0
    MaxPending = 1
    Lossy = TRUE
SPECIFICATION FairSpec
INVARIANTS
    PositionIsView
PROPERTIES
    FlowEnds
    BehindIsNoticed
