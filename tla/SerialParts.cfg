SPECIFICATION SerialSpec
CONSTANTS
    Devices = {d1, d2}
    IOThreads = {"receiver", "sender"}
    StartedUp = TRUE
    CloseMayFail = TRUE
    SpuriousWakes = TRUE
    MaxBreaks = 2
    Readers = {r1, r2}
    Upgraders = {u1, u2, u3}
    Writers = {w1, w2}
    NoThread = NoThread
    Ports = {p1}
    Scripts <- SomeScripts
    ReadBuffer = 6
    MaxMessage = 8
    NoPort = NoPort
    Messages <- SomeMessages
    BufferSize = 10
    MaxParts = 2
CHECK_DEADLOCK FALSE
INVARIANTS
    PortsInv
    LockInv
    FrameReaderInv
    FrameWriterInv
PROPERTIES
    LinesAreServed
    FailedPortsReopen
