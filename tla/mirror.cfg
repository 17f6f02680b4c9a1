SPECIFICATION FairSpec
CONSTANTS
    w1 = w1
    w2 = w2
    h1 = h1
    none = none
    unborn = unborn
    gone = gone
    NoRow = none
    Unborn = unborn
    Gone = gone
    RowIds <- Bits
    NoRunner = none
    Products <- TwoProducts
    Columns <- OneColumn
    Values <- Bits
    PerPage = 1
    Runners <- TwoRunners
    Handlers <- OneHandler
    LockPossible = TRUE
    MaxChanges = 2
    MaxFaults = 1
PROPERTIES
    TakesTurns
    StaysInStep
    MirrorConverges
