SPECIFICATION LiveSpec
CONSTANTS
    Conns = {c1}
    MaxRows = 2
    MaxEvents = 2
    MaxOutages = 1
PROPERTIES
    LiveRowStays
    GhostsClose
    DisconnectHappens
    DisconnectReaches
