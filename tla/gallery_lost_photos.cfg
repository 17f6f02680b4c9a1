SPECIFICATION Spec
CONSTANTS
    Items = {a, b, c}
    Requests = {r1, r2}
    Variants = {jpg, webp}
    NoRow = NoRow
    NoItem = NoItem
    Remote = FALSE
    Postgres = TRUE
    MaxTokens = 2
    MaxFaults = 0
SYMMETRY ItemSymmetry
CHECK_DEADLOCK FALSE
INVARIANT PhotosKept
