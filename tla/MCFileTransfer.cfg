CONSTANTS
    NFiles = 2
    Blocks = 2
SPECIFICATION LiveSpec
INVARIANTS
    DoneMeansComplete
    NoPartialFile
    BlocksOnlyConfirmed
PROPERTIES
    JobSettles
    StoppedUploadEnds
CHECK_DEADLOCK FALSE
