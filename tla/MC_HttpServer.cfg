\* A pass is 10 s: the real limits.
SPECIFICATION Spec
CONSTANTS
    StallPasses = 6
    SlowPasses = 4
PROPERTY WatchdogTells
