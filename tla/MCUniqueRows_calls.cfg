SPECIFICATION SeededSpec
CONSTANTS
    p0 = p0
    c1 = c1
    c2 = c2
    c3 = c3
    a = a
    b = b
    None = None
    Tenant = Tenant
    Calls <- FourCalls
    Requests <- Menu
    Values <- Two
    RoleTypes <- RoleNames
    MaxTries = 2
    MaxLimit = 2
    MaxOffset = 1
SYMMETRY Alike
CHECK_DEADLOCK FALSE
INVARIANTS
    DuplicateIsReal
    ContentionIsReal
    AnswerTellsTheTable
    NextPageExists
