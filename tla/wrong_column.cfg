\* A DELETE on a column that is not there.
SPECIFICATION Spec
CONSTANTS
    a = a
    b = b
    v = v
    few = few
    many = many
    NoName = NoName
    NoColumns = NoColumns
    NoClient = NoClient
    Clients = {c1, c2}
    Values = {v}
    Columns = {few, many}
    Statements <- AllLines
    MaxRows = 2
INVARIANTS
    WrongColumnRefused
