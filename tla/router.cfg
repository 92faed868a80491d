\* Three hosts, one of them without a route, and every kind of packet; two addresses that packets wait for; the process may die; the ticker and the handler are fair.
CONSTANTS
    a = a
    b = b
    c = c
    p1 = p1
    p2 = p2
    p3 = p3
    p4 = p4
    p5 = p5
    p6 = p6
    p7 = p7
    p8 = p8
    NoIp = NoIp
    Ips = {a, b, c}
    Packets = {p1, p2, p3, p4, p5, p6, p7, p8}
    Routed = {b, c}
    Src <- MCSrc
    Dst <- MCDst
    NextHop <- MCNextHop
    Corrupt = {p5}
    LastHop = {p6}
    Stray = {p8}
    MAX_SENT_TIME = 1
    SR_ARPCACHE_TO = 1
SPECIFICATION FairSpec
INVARIANTS
    TypeOK
    OneEntry
    OneRequest
    IfacesForRequests
    SentOnce
    InductiveInv
PROPERTIES
    TriedBeforeDrop
    NoEndlessWait
CHECK_DEADLOCK FALSE
