\* A packet for a host the routing table does not know.
CONSTANTS
    a = a
    b = b
    c = c
    p1 = p1
    p2 = p2
    p3 = p3
    p4 = p4
    p5 = p5
    p6 = p6
    p7 = p7
    p8 = p8
    NoIp = NoIp
    Ips = {a, c}
    Packets = {p1}
    Routed = {a}
    Src <- MCSrc
    Dst <- MCDst
    NextHop <- MCNextHop
    Corrupt = {}
    LastHop = {}
    Stray = {}
    MAX_SENT_TIME = 2
    SR_ARPCACHE_TO = 2
SPECIFICATION Spec
INVARIANT
    NoRouteSurvived
CHECK_DEADLOCK FALSE
