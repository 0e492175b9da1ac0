SPECIFICATION FairSpec
CONSTANTS
    www = www  api = api  p1 = p1  p2 = p2  p3 = p3
    Pools <- MCOnePool
    Pid = {p1, p2}
    Pm <- MCStatic
    MaxChildren <- MCTwo
    StartServers <- MCOne
    MinSpare <- MCOne
    MaxSpare <- MCOne
    ProcessMax = 0
    MaxSpawnRate = 2
    Emergency = FALSE
    MasterSignals = {"finishing", "terminating"}
    MaxArrivals <- MCOne
    MaxFailures = 0
    MaxDeaths = 1
    MaxLeaks = 1
CHECK_DEADLOCK FALSE
PROPERTY TerminationCompletes
