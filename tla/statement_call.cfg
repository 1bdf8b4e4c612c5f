SPECIFICATION FairSpec
CONSTANTS
    NULL = NULL
    EmptyString = EmptyString
    NoLine = NoLine
    t = t
    a = a
    b = b
    s1 = s1
    s2 = s2
    StrOrder <- MCStrOrder
    StrParts <- MCStrParts
    UINT32 = 16
    Names <- MCNames
    Strings <- MCStrings
    Floats = {0, 1}
    Lines <- MCLines
    MaxTabs = 2
    Cuts = {1, 11, 35, 59}
INVARIANTS
    TypeOK
    InSync
    PrintedNested

    
    
