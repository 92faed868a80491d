----------------------------- MODULE RouterInv -----------------------------
(***************************************************************************)
(* The inductive invariant behind the theorems of RouterProofs: what the   *)
(* handler may rely on between two calls of the cache, while the ticker    *)
(* runs, and where a packet on its way through the router is.              *)
(***************************************************************************)
EXTENDS SimpleRouter

(* The handler holds a frame of the kind its step is about; what it passes on is for a host. *)
FrameInv ==
    /\ pc \in {"idle", "clear", "reset"} <=> frame = NoFrame
    /\ pc \in {"pending", "remove"} => frame.kind = "arp_reply"
    /\ pc \in {"route", "forward", "queue"} => frame.kind = "ip"
    /\ pc \in {"forward", "queue"} => Dst[frame.pkt] # NoIp

(* An entry that is past its time is invalid, and gone when the ticker sleeps. *)
AgeInv ==
    \A k \in DOMAIN m_cacheEntries :
        /\ m_cacheEntries[k].isValid => m_cacheEntries[k].age <= SR_ARPCACHE_TO
        /\ tick = "asleep" => m_cacheEntries[k].isValid

(* What the lookup before an insertion said still holds: the ticker adds no entry. *)
InsertInv == pc = "insert" => ~lookup(Sender(frame))

(* A reset takes the interfaces away and fills them in when it has left no request. *)
ResetInv ==
    /\ ifaces <=> pc # "reset"
    /\ pc \in {"clear", "reset"} => m_arpRequests = <<>>

(* A packet waits in the request for its own destination, and once only. *)
QueueInv ==
    \A k \in DOMAIN m_arpRequests :
        LET ps == m_arpRequests[k].packets
        IN  /\ \A i \in DOMAIN ps : Dst[ps[i]] = m_arpRequests[k].ip
            /\ \A i, j \in DOMAIN ps : ps[i] = ps[j] => i = j

(* The packet the handler works on neither waits nor has left. *)
PacketInv == frame.kind = "ip" => ~Queued(frame.pkt) /\ sent[frame.pkt] = 0

(* Packets in the queue are unsent, but for the request that is about to be removed. *)
SentInv ==
    \A k \in DOMAIN m_arpRequests : \A p \in ToSet(m_arpRequests[k].packets) :
        sent[p] = IF pc = "remove" /\ m_arpRequests[k].ip = frame.ip THEN 1 ELSE 0

InductiveInv ==
    /\ FrameInv /\ AgeInv /\ InsertInv /\ ResetInv /\ QueueInv /\ PacketInv /\ SentInv
    /\ OneEntry /\ OneRequest /\ SentOnce
=============================================================================
