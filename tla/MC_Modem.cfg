SPECIFICATION FairSpec
CONSTANTS
    Apns = {blank, named}
    DefaultApn = blank
    None = None
    MaxDisturbances = 2
    MaxEvents = 1
INVARIANTS TypeOK GnssKept ApnApplied
PROPERTIES OneRestart RestartSettles DeadLinkNoticed SessionReclaimed
