------------------------------- MODULE MCWire -------------------------------
(***************************************************************************)
(* An instance of RouterWire for TLC with bytes of two bits: addresses of  *)
(* four bits, of which 1 and 2 are the router's.                           *)
(***************************************************************************)
EXTENDS WireInv

CONSTANTS eth1, eth2

MCIfaceIp == [i \in Ifaces |-> IF i = eth1 THEN 1 ELSE 2]

(* Routes to 12 through one interface and to 13 through the other, at every prefix length *)
MCLines ==
    {e \in RoutingTableEntry :
        /\ e.mask \in PrefixMasks
        /\ e.dest = IF e.ifName = eth1 THEN 12 ELSE 13}

(* Every TTL; echo requests and others, with and without data; one wrong checksum for each *)
MCReceived ==
    {p \in [ip_len : {0, 7}, ip_ttl : Byte, ip_p : {ICMP, UDP, 3}, ip_sum : Word, ip_src : {8},
            ip_dst : {1, 12, 13}, icmp_type : {0, ECHO}, icmp_code : {0}, icmp_sum : {0},
            data : {<<0>>, <<5>>}] :
        Verifies(IpWords(p)) \/ p.ip_sum = 0}
=============================================================================
