\* One client, a file of four packets whose sequence numbers wrap, two faults.
CONSTANTS
    c1 = c1
    c2 = c2
    Clients = {c1}
    Server = Server
    NoAddr = NoAddr
    MSS = 2
    SeqMod = 10
    ISN = 4
    ISS = 3
    NumSlots = 2
    MaxFaults = 2
    Len1 = 7
    Len2 = 0
    FileLen <- MCFileLen
    MaxFileSize = 8
    InitThresh = 5
SPECIFICATION FairSpec
INVARIANTS
    TypeOK
    PrefixDelivered
    FinishedComplete
    NothingForgotten
    NeverBlocked
    InductiveInv
    DeliveryInv
PROPERTIES
    TransferSpec
    OneFaultEnds
CHECK_DEADLOCK FALSE
