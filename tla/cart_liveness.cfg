SPECIFICATION FairSpec
CONSTANTS
    r1 = r1
    r2 = r2
    d1 = d1
    d2 = d2
    bag = bag
    none = none
    NoPending = none
    Slots <- TwoSlots
    Drafts <- OneDraft
    Products <- OneProduct
    MaxQty = 2
    MinAge = 1
    Interval = 2
    TTL = 3
    Epoch = 2
    MaxTime = 7
    MaxRequests = 2
    AddQtys <- OneUnit
    SetQtys <- OneUnit
PROPERTY
    TrackingEnds
