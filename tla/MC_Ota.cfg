SPECIFICATION FairSpec
CONSTANTS
    v1 = v1
    v2 = v2
    v3 = v3
    Versions <- MCVersions
    First = v1
    Broken <- MCBroken
    Foreign = Foreign
    None = None
    Chunks = 2
    Attempts = 2
    MaxReboots = 1
    MaxReleases = 1
    MaxFaults = 1
INVARIANTS
    TypeOK
    OnlyAnnouncedRuns
    RollbacksToldTruly
PROPERTIES
    BrokenImageLeaves
    AcceptedCheckRuns
