\* Two clients and four descriptors.
CONSTANTS
    c1 = c1
    c2 = c2
    Clients = {c1, c2}
    BUF = 2
    Cap = 3
    Backlog = 1
    FdLimits = {4}
    Free = Free
    Error = Error
    Hole = Hole
    FileLen <- MCFileLen
SPECIFICATION Spec
INVARIANT
    OwnFile
CHECK_DEADLOCK FALSE
