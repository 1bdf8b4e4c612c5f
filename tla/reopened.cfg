\* pages_offset begins as 0 and no row is updated.
SPECIFICATION Spec
CONSTANTS
    t = t
    NoName = NoName
    short = short
    long = long
    Names = {t}
    Values = {short, long}
    RowLen <- MCRowLen
    RowSize = 4
    PageSpace = 12
    Garbage = {0}
    UINT32 = 16
    MaxInserts = 4
    MaxPages = 5
    MaxUpdates = 0
    MaxOpens = 1
INVARIANTS
    ReopenedAsClosed
