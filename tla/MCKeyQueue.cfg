SPECIFICATION Spec
CONSTANTS
    Keys = {a1, a2}
    Workers = {w1, w2}
    MaxPass = 2
    NoWorker = NoWorker
SYMMETRY KeySymmetry
PROPERTY KeepsItsPromise
INVARIANTS
    TypeOK
    PerKeyExclusion
    PoolSound
    NoLostWakeup
