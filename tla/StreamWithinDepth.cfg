CONSTANTS
    Half = 6
    Depth = 2
    NackBits = 2
    MaxFrags = 2
    MaxPackets = 4
    MaxControl = 1
    Bases = {0}
SPECIFICATION StreamSpec
INVARIANTS WithinDepth
CHECK_DEADLOCK FALSE
