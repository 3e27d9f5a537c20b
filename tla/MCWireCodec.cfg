SPECIFICATION Spec
CONSTANTS
    Schema <- AllTypes
    Roots <- AllNames
INVARIANTS RoundTrip NewerPeer LastWins StopTagEnds
CHECK_DEADLOCK FALSE
