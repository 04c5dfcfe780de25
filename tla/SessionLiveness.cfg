SPECIFICATION LiveSpec
CONSTANTS
    Half = 5
    Depth = 2
    NackBits = 2
    MaxFrags = 2
    MaxPackets = 3
    MaxControl = 1
    Bases = {9}
    MaxSamples = 1
    Big = {1}
    CountModulus = 3
    ReaderKinds = {"datareader"}
    MaxReads = 2
    Requesters = {r1}
    Repliers = {p1, p2}
    RequestIds = {7}
    MaxRequests = 2
\* Every part may have nothing left to do within its bounds.
CHECK_DEADLOCK FALSE
PROPERTIES
    StreamSettles
    ReadsEnd
    LaterRepliesAreSentBack
