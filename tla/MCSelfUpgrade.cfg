SPECIFICATION Spec
CONSTANTS
    Threshold = 2
    Sites <- MCSites
INVARIANTS
    TypeOK
    Recoverable
PROPERTIES
    OutcomeTrue
    AfterKept
    AttemptEnds
CHECK_DEADLOCK FALSE
