------------------------------ MODULE WireInv ------------------------------
(***************************************************************************)
(* The inductive invariant behind the theorems of WireProofs: what the     *)
(* router still knows of a packet when it takes it out of the queue.       *)
(***************************************************************************)
EXTENDS RouterWire

(***************************************************************************)
(* The masks of the routing table are those of prefixes.  Nothing checks   *)
(* it: for other masks the code's byte order decides which route is taken. *)
(***************************************************************************)
PrefixMasked == \A entry \in Lines : entry.mask \in PrefixMasks

(* A queued packet came with a right checksum, for somebody else, with hops left. *)
QueuedInv ==
    fate = "queued" =>
        /\ got.pkt \in Packet
        /\ Verifies(IpWords(got.pkt))
        /\ ~Own(got.pkt.ip_dst)
        /\ Less(got.pkt.ip_ttl) > 0

(***************************************************************************)
(* How far the wrong checksums of an echo go: the one of IP, of which one  *)
(* byte alone is zeroed and stored again, is wrong exactly if that byte    *)
(* was zero when the packet came; the one of ICMP, which covers nothing,   *)
(* whenever there is something for it to cover.                            *)
(***************************************************************************)
EchoDamage ==
    fate = "echoed" =>
        /\ ~Verifies(IpWords(out.pkt)) <=> FirstByte(got.pkt.ip_sum) = 0
        /\ ~Verifies(IcmpWords(out.pkt))
               <=> WordSum(IcmpWords([out.pkt EXCEPT !.icmp_sum = 0])) % AllOnes # 0

InductiveInv ==
    /\ m_entries \in Seq(Lines)
    /\ QueuedInv
    /\ SentOn /\ AnswerWellFormed /\ EchoDamage
    /\ PrefixMasked => RoutedByPrefix
=============================================================================
