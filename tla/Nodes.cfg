SPECIFICATION NodesFairSpec
CONSTANTS
    NodeParts = {"command", "monitor", "servo", "gz", "mocap"}
    MessageTimeout = 1
    CommandRepeat = 1
    CommandDelay = 1
    Far = 0
    N = 1
    MaxLevel = 1
    DdsTimeout = 1
    ReturnTime = 2
    StartupTime = 1
    ReopenInterval = 2
    Topics <- NodesTopics
    GapLimit <- NodesGapLimit
    Timeout = 4
    Controls <- NodesControls
    Joints <- NodesJoints
    ControlIndex <- NodesControlIndex
    Limit = 2
    Wobble = TRUE
    ReceiveTimeout = 2
    GzReturnTime = 2
    MaxClockSteps = 1
    MaxSampleAge = 1
    MissingLimit = 2
    MaxStampAge = 2
    MaxSamples = 3
    MaxClockStep = 2
CHECK_DEADLOCK FALSE
INVARIANTS
    NodeReportsAreTrue
    JointsInv
PROPERTIES
    RequestsComplete
    SilenceComesToLight
    OutagesEndAtNeutral
    NewestOnce
