SPECIFICATION Spec
CONSTANTS
    Items = {a, b, c}
    Requests = {r1, r2}
    Variants = {jpg, webp}
    NoRow = NoRow
    NoItem = NoItem
    Remote = TRUE
    Postgres = TRUE
    MaxTokens = 2
    MaxFaults = 1
SYMMETRY ItemSymmetry
CHECK_DEADLOCK FALSE
INVARIANTS
    TypeOK
    RowsAndFilesAgree
PROPERTIES
    GalleryInOrder
    NewRowsHaveFiles
