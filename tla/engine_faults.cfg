\* Any write may fail, rows may be longer than declared, and a page of 11 bytes
\* keeps a free_space at which a row no longer fits.
SPECIFICATION FairSpec
CONSTANTS
    a = a
    b = b
    NoName = NoName
    short = short
    long = long
    toolong = toolong
    Names = {a, b}
    Values = {long, toolong}
    RowLen <- MCRowLen
    RowSize = 4
    PageSpace = 11
    Batches <- MCBatches
    Wheres <- MCWheres
    MaxFaults = 2
    MaxRows = 4
    MaxPages = 4
INVARIANTS
    TypeOK
    LinksInFile
    WritesAtHome
    TableAtPageOne
    
    RowListDescends
    FreeSpaceAccounted
    
PROPERTIES
    RowsOnlyAppended
    AnsweredOrLooping
