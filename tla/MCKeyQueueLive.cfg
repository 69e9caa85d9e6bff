SPECIFICATION SteadySpec
CONSTANTS
    Keys = {a1, a2, a3}
    Workers = {w1, w2}
    MaxPass = 1
    NoWorker = NoWorker
PROPERTIES
    NoStarvation
    CloseTerminates
CHECK_DEADLOCK FALSE
