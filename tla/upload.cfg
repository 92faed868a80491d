\* Two clients, one of them without bytes, with two or four descriptors.
CONSTANTS
    c1 = c1
    c2 = c2
    Clients = {c1, c2}
    BUF = 2
    Cap = 3
    Backlog = 1
    FdLimits = {2, 4}
    Free = Free
    Error = Error
    Hole = Hole
    FileLen <- MCFileLen
SPECIFICATION FairSpec
INVARIANTS
    TypeOK
    Stored
    ErrorExplained
    RefusedNoticed
    InductiveInv
PROPERTY
    UploadsEnd
CHECK_DEADLOCK FALSE
