\* The last byte of the first client's file has sequence number SeqMod - 1.
CONSTANTS
    c1 = c1
    c2 = c2
    Clients = {c1, c2}
    Server = Server
    NoAddr = NoAddr
    MSS = 2
    SeqMod = 8
    ISN = 4
    ISS = 3
    NumSlots = 2
    MaxFaults = 0
    Len1 = 3
    Len2 = 0
    FileLen <- MCFileLen
    MaxFileSize = 8
    InitThresh = 5
SPECIFICATION Spec
INVARIANT FinishedComplete
CHECK_DEADLOCK FALSE
