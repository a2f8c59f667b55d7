SPECIFICATION Spec
CONSTANTS
    Client = c
    Server = s
    Supply <- MCSupply
    MaxId = 3
    ClientSupply = 3
    ServerSupply = 0
    MaxSend = 1
    Window = 1
    MaxBatch = 3
    AckMax = 2
    MaxLoss = 0
    StaleIds = {2}
    MaxNet = 4
INVARIANTS
    TypeOK
    CompleteUntilDrop
    NoPackageForgotten
CONSTRAINT FewDatagrams
CHECK_DEADLOCK FALSE
