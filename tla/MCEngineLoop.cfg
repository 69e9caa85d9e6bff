SPECIFICATION FairSpec
CONSTANTS
    Burst = 1
    Unit = 2
    Resync = 1
    BootDelays = {2}
    FirstEvent = 1
    Base = 1
    Limit = 2
    Drain = 1
    MaxWrites = 1
    MaxEvents = 1
INVARIANTS
    TypeOK
    NothingLost
    CutOnlyAfterDrain
PROPERTIES
    RunGoesOn
CHECK_DEADLOCK FALSE
