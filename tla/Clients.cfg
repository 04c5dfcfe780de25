SPECIFICATION MCClientsSpec
CONSTANTS
    Endpoints = {e1, e2}
    Keys = {1, 2, 3}
    Sessions = {1, 129, 130}
    None = None
    HardKeys = {3}
    InitialTries = {0, 2, 255}
INVARIANTS
    ClientsInv
    MapsAgree
    RegisteredClientsReachable
    RemovalIsEarned
PROPERTIES
    RoundsReachEveryone
