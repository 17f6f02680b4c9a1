SPECIFICATION Spec
CONSTANTS
    a = a
    b = b
    e = e
    c1 = c1
    Photos <- TwoPhotos
    Inputs <- OneSuspect
    Old <- OneMedium
    Calls <- OneCall
    NoProduct = NoProduct
    NoRow = NoRow
    NoAnswer = NoAnswer
    MaxProducts = 4
    MaxCalls = 1
    MaxSubmits = 2
    MaxFaults = 1
CHECK_DEADLOCK FALSE
INVARIANTS
    TypeOK
    NoStrayOriginals
    DuplicatesNeedAFailure
PROPERTIES
    SavedAsShown
    NewProductsLast
    ReorderedAsDropped
