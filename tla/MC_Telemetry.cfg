\* 2 rows, a queue and a buffer of one: the second row overflows either; a backlog of one is over the cap.
SPECIFICATION Spec
CONSTANTS
    Pins = {p1, p2}
    Sim = Sim
    None = None
    Stored <- StoredPolling
    NoRow = NoRow
    MaxDay = 2
    MaxRows = 2
    QueueDepth = 1
    BufferRows = 1
    SpoolCapacity = 0
    MaxDisturbances = 3
INVARIANTS TypeOK FiledInTime RowsLeaveATrace OnlineMeansTalks
SYMMETRY Symmetry
CHECK_DEADLOCK FALSE
