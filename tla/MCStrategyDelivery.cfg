CONSTANTS
    Keys = {k, l}
    Vals = {x}
    Unset = unset
    Reset = reset
    Local = local
    Beats = {b1, b2}
    NoBeat = nobeat
    MaxEvents = 2
SPECIFICATION LiveSpec
INVARIANTS
    TypeOK
    NoKeyStranded
    EchoIsEvidence
PROPERTIES
    PolicyReached
