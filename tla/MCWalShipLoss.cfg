SPECIFICATION Spec
CONSTANTS
    Pages = {p, q}
    Limit = 1
    Sites <- LossSites
PROPERTY SyncShips
CHECK_DEADLOCK FALSE
