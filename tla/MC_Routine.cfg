SPECIFICATION Spec
CONSTANTS
    AP_MAX_CONN = 3
    HttpQuiet = 1
    ApQuiet = 4
    FirstCheck = 1
    CheckRetry = 4
    CheckInterval = 6
    TransportReady = 3
    MaxEvents = 3
INVARIANT TypeOK
PROPERTIES
    ClientsUndisturbed
    RoutineChecksResume
