SPECIFICATION Spec
CONSTANTS
    www = www  api = api  p1 = p1  p2 = p2  p3 = p3
    Pools <- MCTwoPools
    Pid = {p1, p2, p3}
    Pm <- MCStaticOndemand
    MaxChildren <- MCOneTwo
    StartServers <- MCOne
    MinSpare <- MCOne
    MaxSpare <- MCTwo
    ProcessMax = 2
    MaxSpawnRate = 2
    Emergency = TRUE
    MasterSignals = {"reloading", "finishing", "terminating"}
    MaxArrivals <- MCZeroTwo
    MaxFailures = 1
    MaxDeaths = 1
    MaxLeaks = 0
SYMMETRY Symm
CHECK_DEADLOCK FALSE
INVARIANT WithinLimits
INVARIANT NoUnknownChild
PROPERTY Escalates
PROPERTY ImplementsPool
