SPECIFICATION Spec
CONSTANTS
    www = www  api = api  p1 = p1  p2 = p2  p3 = p3
    Pools <- MCOnePool
    Pid = {p1, p2, p3}
    Pm <- MCDynamic
    MaxChildren <- MCThree
    StartServers <- MCOne
    MinSpare <- MCOne
    MaxSpare <- MCTwo
    ProcessMax = 0
    MaxSpawnRate = 2
    Emergency = FALSE
    MasterSignals = {}
    MaxArrivals <- MCOne
    MaxFailures = 1
    MaxDeaths = 1
    MaxLeaks = 0
SYMMETRY Symm
INVARIANT TypeOK
INVARIANT SlotExclusive
INVARIANT SlotAvailable
INVARIANT WithinLimits
INVARIANT IdleKillHeard
INVARIANT ZombieAnnounced
