SPECIFICATION FairSpec
CONSTANTS
    Networks = {n1, n2}
    None = None
    BOOT_MAX_ATTEMPTS = 2
    STEADY_MAX_ATTEMPTS = 3
    MaxSaves = 2
    MaxDisturbances = 2
    MaxEvents = 2
INVARIANTS TypeOK ShownIsTrue
PROPERTIES LinkNotAbandoned ControlPlaneReturns SavedIsApplied
CHECK_DEADLOCK FALSE
