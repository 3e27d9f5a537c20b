CONSTANTS
    Procs = {p, q}
    NoProc = nobody
    Allowed <- MCAllowed
    MaxOutages = 1
    MaxFaults = 1
SPECIFICATION LiveSpec
INVARIANTS
    RecoveryAtMostOnce
    AlertUnderClaim
PROPERTIES
    OwnerSettles
    OutageReported
    OutageCloses
