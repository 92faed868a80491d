\* As wire.cfg: echo requests among every other packet.
CONSTANTS
    ByteSize = 4
    eth1 = eth1
    eth2 = eth2
    Ifaces = {eth1, eth2}
    NoRoute = NoRoute
    Nothing = Nothing
    IfaceIp <- MCIfaceIp
    Received <- MCReceived
    Lines <- MCLines
    MaxEntries = 2
    ICMP = 1
    UDP = 2
    ECHO = 2
    EXCEEDED = 3
    UNREACHABLE = 1
    PORT = 1
    ANSWER_TTL = 3
    ANSWER_LEN = 6
    CUT = 1
SPECIFICATION Spec
INVARIANT
    EchoVerifies
CHECK_DEADLOCK FALSE
