SPECIFICATION Spec
CONSTANTS
    w1 = w1  w2 = w2
    Worker = {w1, w2}
    KeepAlive = FALSE
    FinishEarly = FALSE
    Slowlog = FALSE
    MaxRequests = 1
    MaxMishaps = 0
SYMMETRY Symm
CHECK_DEADLOCK FALSE
INVARIANT TypeOK
INVARIANT PoolLock
INVARIANT SlotLock
INVARIANT RequestsExact
INVARIANT TimeoutJustified
