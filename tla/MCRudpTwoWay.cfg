SPECIFICATION Spec
CONSTANTS
    Client = c
    Server = s
    Supply <- MCSupply
    MaxId = 3
    ClientSupply = 3
    ServerSupply = 1
    MaxSend = 0
    Window = 1
    MaxBatch = 2
    AckMax = 2
    MaxLoss = 0
    StaleIds = {}
    MaxNet = 4
INVARIANTS
    DeliveredInOrder
    AckMeansArrived
    AckedIsKept
    WindowBound
    WindowNeverWraps
PROPERTIES
    ImplementsChannel
CONSTRAINT FewDatagrams
CHECK_DEADLOCK FALSE
