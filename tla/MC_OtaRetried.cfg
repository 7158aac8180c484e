SPECIFICATION Spec
CONSTANTS
    v1 = v1
    v2 = v2
    v3 = v3
    Versions <- MCVersions
    First = v1
    Broken <- MCBroken
    Foreign = Foreign
    None = None
    Chunks = 2
    Attempts = 2
    MaxReboots = 0
    MaxReleases = 1
    MaxFaults = 0
INVARIANT NeverRetried
