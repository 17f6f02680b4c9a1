SPECIFICATION Spec
CONSTANTS
    w1 = w1
    w2 = w2
    k1 = k1
    k2 = k2
    s1 = s1
    s2 = s2
    a1 = a1
    Workers <- TwoWorkers
    NoWorker = none
    Keys <- TwoKeys
    NoKey = nokey
    EmptyKey = empty
    TableCount = 2
    SeedDirs <- TwoSeeds
    ShopDirs <- OneShop
    NoDir = nodir
    Widths <- TwoWidths
    LockPossible = TRUE
    MaxId = 3
    MaxFaults = 0
    Keep = 1
    MaxStarts = 2
INVARIANTS
    SessionsOutliveRestarts
CHECK_DEADLOCK FALSE
