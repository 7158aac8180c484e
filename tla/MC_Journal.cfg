SPECIFICATION Spec
CONSTANTS
    p1 = p1
    p2 = p2
    Producers <- MCProducers
    Depth = 2
    FileMax = 2
    FileCount = 3
    None = None
    MaxCalls <- MCCalls
    MaxReboots = 1
    MaxFaults = 1
SYMMETRY ProducerSymmetry
INVARIANTS TypeOK ReportAccepts OldestGoFirst
PROPERTY CriticalKept
CHECK_DEADLOCK FALSE
