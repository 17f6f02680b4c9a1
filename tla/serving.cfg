SPECIFICATION FairSpec
CONSTANTS
    i1 = i1
    w1 = w1
    w2 = w2
    Instances <- OneInstance
    Workers <- TwoWorkers
    Home <- Together
    Asked <- FirstAsked
    Writers <- TwoWorkers
    MaxWrites = 2
    MaxFaults = 1
INVARIANTS
    ListingsNeverFallback
    InvalidationReachesTheWriter
    SnapshotBeforePurge
PROPERTIES
    EventuallyFresh
