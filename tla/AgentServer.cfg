SPECIFICATION ServerSpec
CONSTANTS
    QueueSize = 1
    MaxIn = 2
    MaxOut = 2
    MaxErrors = 2
    MaxStarts = 1
\* The user need not start the server again.
CHECK_DEADLOCK FALSE
INVARIANTS
    ServerInv
PROPERTIES
    ServedInOrder
