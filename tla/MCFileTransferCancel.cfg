CONSTANTS
    NFiles = 1
    Blocks = 2
SPECIFICATION Spec
INVARIANT CancelledNeverClobbers
CHECK_DEADLOCK FALSE
