\* One table, two lengths of rows; pages_offset begins as 0 or as garbage.
SPECIFICATION Spec
CONSTANTS
    t = t
    NoName = NoName
    short = short
    long = long
    Names = {t}
    Values = {short, long}
    RowLen <- MCRowLen
    RowSize = 4
    PageSpace = 12
    Garbage = {0, 9}
    UINT32 = 16
    MaxInserts = 4
    MaxPages = 5
    MaxUpdates = 1
    MaxOpens = 1
INVARIANTS
    TypeOK
    
    RowsKept
    SpaceNotOverstated
    UpdatedRowFits
    CopyNumbered
    CopyHasThePages
PROPERTIES
    DeleteTakesOneRow
