SPECIFICATION Spec
CONSTANTS
    Threshold = 2
    Sites <- LossSites
INVARIANT LossReported
CHECK_DEADLOCK FALSE
