CONSTANTS
    Peers = {a, b}
    None = none
    Delays <- MCDelays
    Timeout = 6
    StableFor = 2
    MaxRestarts = 2
SPECIFICATION Spec
INVARIANT FreshConnectionRetiresAll
CHECK_DEADLOCK FALSE
