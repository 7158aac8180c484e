SPECIFICATION FairSpec
CONSTANTS
    r1 = r1
    r2 = r2
    r3 = r3
    Rows <- MCRows
    Garbage = Garbage
    ReplayPerTick = 1
    SpoolMax = 2
    MaxReboots = 2
    Faults = {}
INVARIANT ReplayWindow
PROPERTIES
    KeepsPromise
    EventuallyDelivered
