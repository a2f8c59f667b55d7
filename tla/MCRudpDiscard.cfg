SPECIFICATION Spec
CONSTANTS
    Client = c
    Server = s
    Supply <- MCSupply
    MaxId = 2
    ClientSupply = 2
    ServerSupply = 1
    MaxSend = 0
    Window = 2
    MaxBatch = 1
    AckMax = 2
    MaxLoss = 0
    StaleIds = {}
    MaxNet = 4
INVARIANTS
    DiscardsOnlyDuplicates
CONSTRAINT FewDatagrams
CHECK_DEADLOCK FALSE
