CONSTANTS
    Peers = {a, b}
    None = none
    Delays <- MCDelays
    Timeout = 6
    StableFor = 2
    MaxRestarts = 2
SPECIFICATION LiveSpec
INVARIANTS
    ScreenMatchesSession
    RetryAlone
    RestoredIsStable
PROPERTIES
    FlowEnds
CHECK_DEADLOCK FALSE
