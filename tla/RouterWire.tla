----------------------------- MODULE RouterWire -----------------------------
(***************************************************************************)
(* What the simple router does to the bytes of an IP packet: the tests of  *)
(* handleIpPacket, the route, the rewritten header and the ICMP answers.   *)
(* A behaviour is the way of one packet; SimpleRouter has the threads and  *)
(* the ARP cache, of which only the answer of a lookup is left here.       *)
(***************************************************************************)
EXTENDS RoutingTable

CONSTANTS
    IfaceIp,                        \* address of each interface
    Received,                       \* packets that arrive
    ICMP, UDP,                      \* 0x01, 0x11
    ECHO, EXCEEDED, UNREACHABLE,    \* ICMP types 8, 0x0b, 3
    PORT,                           \* ICMP code 3
    ANSWER_TTL,                     \* 0x40
    ANSWER_LEN,                     \* bytes of an answer from its IP header on: 56
    CUT,                            \* what is taken off ip_len for an answer: 4
    Nothing

ASSUME WireAssumption ==
    /\ IfaceIp \in [Ifaces -> Word]
    /\ Received \subseteq Packet
    /\ {ICMP, UDP, ECHO, EXCEEDED, UNREACHABLE, PORT, ANSWER_TTL} \subseteq Byte
    /\ EXCEEDED # UNREACHABLE
    /\ {ANSWER_LEN, CUT} \subseteq Nat /\ ANSWER_LEN + CUT \in Word

VARIABLES
    got,            \* the packet that arrived, with its interface
    fate,           \* what became of it
    out             \* the packet that was sent for it, with its interface

vars == <<m_entries, got, fate, out>>

Init == m_entries = <<>> /\ got = Nothing /\ fate = "none" /\ out = Nothing

(* load runs before the first packet comes. *)
load == fate = "none" /\ loadLine /\ UNCHANGED <<got, fate, out>>

Own(ip) == \E i \in Ifaces : IfaceIp[i] = ip

(* uint8_t TTL *)
Less(ttl) == (ttl - 1) % ByteSize

-----------------------------------------------------------------------------
(* The checksum field is zeroed, and set to the checksum of the header. *)
WithSum(p) == [p EXCEPT !.ip_sum = cksum(IpWords([p EXCEPT !.ip_sum = 0]))]

(* Mutant: the old checksum is still there while the new one is computed. *)
ForwardedUnzeroed(p) ==
    LET q == [p EXCEPT !.ip_ttl = Less(@)]
    IN  [q EXCEPT !.ip_sum = cksum(IpWords(q))]

Forwarded(p) == WithSum([p EXCEPT !.ip_ttl = Less(@)])

(* One byte of the field is zeroed, and one byte of the new checksum is stored. *)
EchoSum(p) ==
    LET half == [p EXCEPT !.ip_sum = @ % ByteSize]
    IN  [half EXCEPT !.ip_sum = ByteSize * FirstByte(cksum(IpWords(half))) + @]

(***************************************************************************)
(* An echo request goes back with its addresses swapped.  Its ICMP         *)
(* checksum is taken over sizeof a vector object, less 34: a negative      *)
(* length.                                                                 *)
(***************************************************************************)
EchoReply(p, time_exceed) ==
    [EchoSum(p) EXCEPT !.icmp_type = IF time_exceed = 0 THEN 0 ELSE EXCEEDED,
                       !.icmp_sum = cksum(<<>>),
                       !.ip_src = p.ip_dst, !.ip_dst = p.ip_src]

(* The ICMP part of an answer, which quotes the header and eight bytes of the packet *)
Quote(p) ==
    LET q == [p EXCEPT !.icmp_type = IF Own(p.ip_dst) THEN UNREACHABLE ELSE EXCEEDED,
                       !.icmp_code = IF Own(p.ip_dst) THEN PORT ELSE 0,
                       !.icmp_sum = 0,
                       !.data = <<0>> \o IpWords(p) \o IcmpWords(p)]
    IN  [q EXCEPT !.icmp_sum = cksum(IcmpWords(q))]

(* Mutant: the length is an int. *)
ShrunkInt(len) == len - CUT

(* uint16_t ip_length *)
Shrunk(len) == (len - CUT) % WordSize

(* Mutant: the checksum is stored before the addresses are. *)
AnswerEarlySum(p, iface) ==
    [WithSum([Quote(p) EXCEPT !.ip_len = Shrunk(@), !.ip_p = ICMP, !.ip_ttl = ANSWER_TTL])
        EXCEPT !.ip_dst = p.ip_src, !.ip_src = IF Own(p.ip_dst) THEN p.ip_dst ELSE IfaceIp[iface]]

Answer(p, iface) ==
    WithSum([Quote(p) EXCEPT !.ip_len = Shrunk(@),
                             !.ip_p = ICMP,
                             !.ip_ttl = ANSWER_TTL,
                             !.ip_dst = p.ip_src,
                             !.ip_src = IF Own(p.ip_dst) THEN p.ip_dst ELSE IfaceIp[iface]])

-----------------------------------------------------------------------------
Send(what, p, iface) == fate' = what /\ out' = [pkt |-> p, iface |-> iface]
Drop(what) == fate' = what /\ UNCHANGED out

handleIcmpPacket(p, iface, time_exceed) ==
    \/ p.icmp_type = ECHO /\ Verifies(<<>>) /\ Send("echoed", EchoReply(p, time_exceed), iface)
    \/ p.icmp_type # ECHO /\ time_exceed = 1 /\ Send("answered", Answer(p, iface), iface)
    \/ p.icmp_type # ECHO /\ time_exceed = 0 /\ Drop("dropped")

(* The header is sent on at once if the address is in the ARP cache, and the packet queued if not. *)
ForwardOrQueue(p) ==
    \/ LET route == lookup(p.ip_dst)
       IN  \/ route # NoRoute /\ Send("forwarded", Forwarded(p), route.ifName)
           \/ route = NoRoute /\ Drop("discarded")
    \/ Drop("queued")

(* Packets for the router, and those whose TTL is used up, go to handleIcmpPacket. *)
handleIpPacket(p, iface) ==
    /\ fate = "none"
    /\ got' = [pkt |-> p, iface |-> iface]
    /\ UNCHANGED m_entries
    /\ \/ ~Verifies(IpWords(p)) /\ Drop("corrupt")
       \/ /\ Verifies(IpWords(p))
          /\ IF Own(p.ip_dst) THEN p.ip_p \in {ICMP, UDP} ELSE Less(p.ip_ttl) <= 0
          /\ handleIcmpPacket(p, iface, IF Own(p.ip_dst) /\ p.ip_p = ICMP THEN 0 ELSE 1)
       \/ Verifies(IpWords(p)) /\ Own(p.ip_dst) /\ p.ip_p \notin {ICMP, UDP} /\ Drop("dropped")
       \/ Verifies(IpWords(p)) /\ ~Own(p.ip_dst) /\ Less(p.ip_ttl) > 0 /\ ForwardOrQueue(p)

(* The packet that was queued is sent as it came. *)
sendPendingPackets ==
    /\ fate = "queued"
    /\ LET route == lookup(got.pkt.ip_dst)
       IN  \/ route # NoRoute /\ Send("flushed", got.pkt, route.ifName)
           \/ route = NoRoute /\ Drop("discarded")
    /\ UNCHANGED <<m_entries, got>>

Next ==
    \/ load
    \/ \E p \in Received, i \in Ifaces : handleIpPacket(p, i)
    \/ sendPendingPackets

Spec == Init /\ [][Next]_vars

-----------------------------------------------------------------------------
(* Types of every variable; every field keeps to its width. *)
TypeOK ==
    LET Frame == [pkt : Packet, iface : Ifaces]
    IN  /\ m_entries \in Seq(RoutingTableEntry)
        /\ got \in Frame \cup {Nothing}
        /\ out \in Frame \cup {Nothing}
        /\ fate \in {"none", "corrupt", "dropped", "discarded", "queued",
                     "echoed", "answered", "forwarded", "flushed"}

(***************************************************************************)
(* A packet is sent on through an entry with the longest prefix that       *)
(* matches its destination, and discarded only if no entry matches, though *)
(* lookup compares masks in the wrong byte order (RoutingTable::lookup).   *)
(***************************************************************************)
RoutedByPrefix ==
    /\ fate \in {"forwarded", "flushed"} =>
           \E e \in LongestPrefix(got.pkt.ip_dst) : out.iface = e.ifName
    /\ fate = "discarded" => LongestPrefix(got.pkt.ip_dst) = {}

(***************************************************************************)
(* What is sent on has a right checksum and is the packet that came but    *)
(* for its TTL and checksum.  A packet at its last hop is never sent on;   *)
(* others lose a hop if they are sent at once and none if they had to wait *)
(* in the queue.  One that came with TTL 0, which the uint8_t TTL wraps,   *)
(* leaves with TTL 0 or with the largest (handleIpPacket).                 *)
(***************************************************************************)
SentOn ==
    fate \in {"forwarded", "flushed"} =>
        /\ Verifies(IpWords(out.pkt))
        /\ [out.pkt EXCEPT !.ip_ttl = got.pkt.ip_ttl, !.ip_sum = got.pkt.ip_sum] = got.pkt
        /\ LET left == out.pkt.ip_ttl + (IF fate = "forwarded" THEN 1 ELSE 0)
           IN  IF got.pkt.ip_ttl = 0 THEN left \in {0, ByteSize}
                                     ELSE left = got.pkt.ip_ttl /\ out.pkt.ip_ttl > 0
        /\ got.pkt.ip_ttl # 1

(***************************************************************************)
(* An answer the router makes goes to the sender, from an address of the   *)
(* router, both its checksums are right, and its length is right for a     *)
(* packet of 60 bytes and for no other (handleIcmpPacket).                 *)
(***************************************************************************)
AnswerWellFormed ==
    fate = "answered" =>
        /\ Verifies(IpWords(out.pkt)) /\ Verifies(IcmpWords(out.pkt))
        /\ out.pkt.ip_dst = got.pkt.ip_src /\ Own(out.pkt.ip_src)
        /\ out.pkt.icmp_type = UNREACHABLE <=> Own(got.pkt.ip_dst)
        /\ out.pkt.ip_len = ANSWER_LEN <=> got.pkt.ip_len = ANSWER_LEN + CUT

(***************************************************************************)
(* "change checksum include data", "change ip checksum ip header only"     *)
(* (simple-router.cpp:290, 303): an echo leaves with right checksums.      *)
(***************************************************************************)
EchoVerifies == fate = "echoed" => Verifies(IpWords(out.pkt)) /\ Verifies(IcmpWords(out.pkt))
=============================================================================
