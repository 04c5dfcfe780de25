SPECIFICATION ServerFairSpec
CONSTANTS
    QueueSize = 1
    MaxIn = 0
    MaxOut = 1
    MaxErrors = 2
    MaxStarts = 2
\* The user need not start the server again.
CHECK_DEADLOCK FALSE
PROPERTIES
    ErrorsPass
    StopHangsOnlyInAWait
