\* The requested device and one other; an orderly environment and a hostile one.
CONSTANTS
    Peer = p
    Others = {q}
    None = none
    Saved = FALSE
    Canvas = TRUE
    MaxRelay = 2
    MaxHash = 2
    MaxFrames = 3
    MaxSealed = 1
SPECIFICATION LiveSpec
INVARIANTS
    TypeOK
    CredentialOnlyToPeer
    StopIsTold
    WatchdogExact
    Released
    CipherInStep
PROPERTIES
    NothingAfterTheEnd
    AttemptSettles
    ImplementsConnection
CHECK_DEADLOCK FALSE
