SPECIFICATION Spec
CONSTANTS
    OutboxMax = 2
    MaxId = 3
    MaxDrops = 1
    MaxSwaps = 1
INVARIANT SwapNeverDeadlocks
CHECK_DEADLOCK FALSE
