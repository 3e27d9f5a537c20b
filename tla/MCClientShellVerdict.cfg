CONSTANTS
    Peers = {a, b}
    None = none
    Delays <- MCDelays
    Timeout = 6
    StableFor = 2
    MaxRestarts = 2
SPECIFICATION Spec
INVARIANT VerdictTrue
CHECK_DEADLOCK FALSE
