SPECIFICATION FairSpec
CONSTANTS
    a1 = a1  a2 = a2  static = static
    Addr = {a1, a2}
    NoAddr = static
    PipeSize = 1
    MaxWords = 1
    MaxForks = 3
    Outlive = TRUE
PROPERTY OutputReachesLog
