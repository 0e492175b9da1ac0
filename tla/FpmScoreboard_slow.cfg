SPECIFICATION FairSpec
CONSTANTS
    w1 = w1  w2 = w2
    Worker = {w1}
    KeepAlive = TRUE
    FinishEarly = TRUE
    Slowlog = TRUE
    MaxRequests = 1
    MaxMishaps = 1
CHECK_DEADLOCK FALSE
PROPERTY SlowRequestsEnd
INVARIANT StopTraced
PROPERTY TraceEnds
