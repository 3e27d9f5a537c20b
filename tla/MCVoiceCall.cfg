CONSTANTS
    MaxCalls = 3
    MaxQueue = 3
SPECIFICATION Spec
INVARIANTS
    AudioOnlyWithConsent
    MicOnlyInCall
    CallAgreement
CHECK_DEADLOCK FALSE
