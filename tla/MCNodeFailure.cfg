SPECIFICATION FairSpec
CONSTANTS
    Home = n1
    Others = {n2, n3}
    Apps = {web, db}
    Data = {db}
    Databases = {db}
    Sites <- SafeSites
INVARIANTS
    TypeOK
    RecoveredClean
PROPERTIES
    DataStays
    WantedKept
    FailureHandled
CHECK_DEADLOCK FALSE
