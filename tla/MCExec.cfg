SPECIFICATION FairSpec
CONSTANTS
    d1 = d1
    d2 = d2
    Leader = leader
    Descendants <- MCDescendants
    Limit = 2
    MaxWritten = 4
INVARIANTS
    TypeOK
    GroupIsGone
    OutputIsComplete
PROPERTY HonorsContext
CHECK_DEADLOCK FALSE
