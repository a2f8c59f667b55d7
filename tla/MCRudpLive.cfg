SPECIFICATION FairSpec
CONSTANTS
    Client = c
    Server = s
    Supply <- MCSupply
    MaxId = 2
    ClientSupply = 2
    ServerSupply = 0
    MaxSend = 1
    Window = 2
    MaxBatch = 1
    AckMax = 2
    MaxLoss = 1
    StaleIds = {}
    MaxNet = 20
PROPERTIES
    EverySettled
    DeliveredUnlessDropped
CHECK_DEADLOCK FALSE
