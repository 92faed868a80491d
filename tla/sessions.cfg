\* Two clients for two slots, one file of whole packets and one of part of a packet, one fault.
CONSTANTS
    c1 = c1
    c2 = c2
    Clients = {c1, c2}
    Server = Server
    NoAddr = NoAddr
    MSS = 2
    SeqMod = 10
    ISN = 4
    ISS = 3
    NumSlots = 2
    MaxFaults = 1
    Len1 = 2
    Len2 = 1
    FileLen <- MCFileLen
    MaxFileSize = 8
    InitThresh = 5
SPECIFICATION FairSpec
INVARIANT
    IdOwnership
PROPERTIES
    TransferSpec
    Terminates
CHECK_DEADLOCK FALSE
