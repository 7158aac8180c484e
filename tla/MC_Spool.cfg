SPECIFICATION Spec
CONSTANTS
    r1 = r1
    r2 = r2
    r3 = r3
    Rows <- MCRows
    Garbage = Garbage
    ReplayPerTick = 2
    SpoolMax = 2
    MaxReboots = 2
    Faults <- AllFaults
SYMMETRY RowSymmetry
INVARIANTS
    TypeOK
    NothingLost
    CursorBehindAcks
    RowsIntact
