SPECIFICATION Spec
CONSTANTS
    Pages = {p, q}
    Limit = 1
    Sites <- MCSites
SYMMETRY PageSymmetry
INVARIANTS
    TypeOK
    ConsistentPrefix
CHECK_DEADLOCK FALSE
