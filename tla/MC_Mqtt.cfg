SPECIFICATION Spec
CONSTANTS
    OutboxMax = 2
    MaxId = 3
    MaxDrops = 1
    MaxSwaps = 1
INVARIANTS
    TypeOK
    SuccessMeansReceived
    SettledOnline
PROPERTY OwedStatusOnce
CHECK_DEADLOCK FALSE
