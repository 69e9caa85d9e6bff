SPECIFICATION FairSpec
CONSTANTS
    a = a
    b = b
    c = c
    Releases = {a, b, c}
    First = a
    Sites <- AllSites
INVARIANT TypeOK
PROPERTIES
    LastServingKept
    ParkedIsOwed
    ServedAgain
    TakeOverEnds
