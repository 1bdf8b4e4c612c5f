\* No write fails and rows keep to their declared size and fit their page.
SPECIFICATION Spec
CONSTANTS
    a = a
    b = b
    NoName = NoName
    short = short
    long = long
    toolong = toolong
    Names = {a, b}
    Values = {short, long}
    RowLen <- MCRowLen
    RowSize = 4
    PageSpace = 12
    Batches <- MCBatches
    Wheres <- MCWheres
    MaxFaults = 0
    MaxRows = 5
    MaxPages = 5
INVARIANTS
    InsertedIsStored
