SPECIFICATION Spec
CONSTANTS
    Window = 4
    Batch = 2
    Sites <- MCSites
INVARIANTS
    TypeOK
    WindowKept
PROPERTIES
    KeepsItsPromise
    ExecEnds
CHECK_DEADLOCK FALSE
