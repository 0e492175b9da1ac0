SPECIFICATION FairSpec
CONSTANTS
    www = www  api = api  p1 = p1  p2 = p2  p3 = p3
    Pools <- MCOnePool
    Pid = {p1, p2}
    Pm <- MCOndemand
    MaxChildren <- MCTwo
    StartServers <- MCOne
    MinSpare <- MCOne
    MaxSpare <- MCTwo
    ProcessMax = 0
    MaxSpawnRate = 2
    Emergency = FALSE
    MasterSignals = {}
    MaxArrivals <- MCTwo
    MaxFailures = 0
    MaxDeaths = 0
    MaxLeaks = 0
PROPERTY ConnectionsServed
