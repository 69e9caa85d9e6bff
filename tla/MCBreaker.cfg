SPECIFICATION BreakerFairSpec
CONSTANTS
    Threshold = 3
    BreakerBase = 1
    BreakerMax = 6
    ResourceBurst = 2
    TokenTime = 3
    MaxFails = 7
INVARIANTS
    BreakerTypeOK
    ResetHonoured
PROPERTIES
    BackoffHonoured
    EventuallyProbed
