SPECIFICATION Spec
CONSTANTS
    i1 = i1
    w1 = w1
    w2 = w2
    Instances <- OneInstance
    Workers <- OneWorker
    Home <- Together
    Asked <- FirstAsked
    Writers <- OneWorker
    MaxWrites = 1
    MaxFaults = 1
INVARIANTS
    NoFallbackPinned
