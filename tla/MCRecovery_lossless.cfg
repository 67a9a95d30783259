CONSTANTS
    Clients = {c1}
    HistorySize = 2
    RecoveryLimit = 2
    MaxOffset = 3
    MaxEpoch = 1
    MaxUnsubs = 1
    MaxPending = 2
    Lossy = FALSE
SPECIFICATION Spec
INVARIANTS
    RecoveredHasNoGap
    QuietIsCaughtUp
