SPECIFICATION TrafficSpec
CONSTANTS
    Half = 5
    Depth = 2
    NackBits = 2
    MaxFrags = 2
    MaxPackets = 6
    MaxControl = 1
    Bases = {0, 8}
    BestEffortDepth = 2
    MaxPushed = 20
    MaxInFlight = 3
    Lifetime = 3
    Sizes = {3, 6, 7, 8, 9, 12, 13, 15}
    Mtu = 8
    HeaderSize = 2
    SubheaderSize = 2
    Limit = 16
    MaxMessages = 2
    MaxQueue = 4
    MaxSamples = 4
    Big = {2}
    CountModulus = 4
    ReaderKinds = {"datareader", "requester"}
    MaxReads = 2
    TokenModulus = 65536
    Den = 10
    Rates = {2, 3, 5}
    Timeouts = {0, 1, 4}
    MaxTime = 14
    Requesters = {r1, r2}
    Repliers = {p1, p2}
    RequestIds = {7, 8}
    MaxRequests = 2
\* Every part may have nothing left to do within its bounds.
CHECK_DEADLOCK FALSE
INVARIANTS
    StreamInv
    FragmentsInv
    ReaderInv
    BucketInv
    RepliesInv
PROPERTIES
    BestEffortInOrder
    ImplementsChannel
