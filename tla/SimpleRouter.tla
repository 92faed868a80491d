---------------------------- MODULE SimpleRouter ----------------------------
(***************************************************************************)
(* The packet handlers of the simple router (simple-router.cpp), run by    *)
(* one dispatch thread, against the ARP cache and its ticker thread.  The  *)
(* handler gives m_mutex back after every call of the cache, so the ticker *)
(* runs between any two of them.                                           *)
(***************************************************************************)
EXTENDS ArpCache

CONSTANTS
    NoIp,           \* a destination that is one of the router's own addresses
    Src, Dst,       \* addresses of each packet
    NextHop,        \* dest of the matching route; the address itself for the default route
    Corrupt,        \* packets whose checksum is wrong
    LastHop,        \* packets whose TTL is used up at this router
    Stray           \* packets whose Ethernet destination is no interface's address

ASSUME AddressAssumption == /\ NoIp \notin Ips
                            /\ Src \in [Packets -> Ips]
                            /\ Dst \in [Packets -> Ips \cup {NoIp}]
                            /\ NextHop \in [Routed -> Ips]

VARIABLES
    pc,             \* what the handler does next
    frame           \* the frame it handles

handlerVars == <<pc, frame>>
vars == <<cacheVars, handlerVars>>

Steps == {"idle", "known", "insert", "route", "forward", "queue", "pending", "remove",
          "clear", "reset"}

Frames == [kind : {"arp_request", "arp_reply"}, ip : Ips] \cup [kind : {"ip"}, pkt : Packets]
NoFrame == [kind |-> "none"]

(* Every frame is ignored until the first reset has filled in the interfaces. *)
HandlerInit == pc = "reset" /\ frame = NoFrame

Init == CacheInit /\ HandlerInit

(* The address whose mapping a frame brings along. *)
Sender(f) == IF f.kind = "ip" THEN Src[f.pkt] ELSE f.ip

(* The packet waits in a request. *)
Queued(p) == \E k \in DOMAIN m_arpRequests : p \in ToSet(m_arpRequests[k].packets)

Done == pc' = "idle" /\ frame' = NoFrame

-----------------------------------------------------------------------------
(* Mutant: the mapping is recorded without a look at the cache. *)
AfterLookupNone(f) == pc' = "insert" /\ frame' = f

(* The sender's mapping is recorded unless the cache has one. *)
AfterLookup(f) == pc' = (IF lookup(Sender(f)) THEN "known" ELSE "insert") /\ frame' = f

(* handleArpPacket, up to its lookup *)
RecvArp(f) ==
    /\ up /\ pc = "idle" /\ Unlocked
    /\ f.kind \in {"arp_request", "arp_reply"}
    /\ AfterLookup(f)
    /\ UNCHANGED cacheVars

(***************************************************************************)
(* handleIpPacket: a mapping is learnt from any packet with a right        *)
(* checksum.  A packet that was given up may come again; one that waits or *)
(* has been sent does not.                                                 *)
(***************************************************************************)
RecvIp(f) ==
    /\ up /\ pc = "idle" /\ Unlocked
    /\ f.kind = "ip"
    /\ ~Queued(f.pkt) /\ sent[f.pkt] = 0
    /\ \/ f.pkt \in Corrupt /\ UNCHANGED <<pc, frame>>
       \/ f.pkt \notin Corrupt /\ AfterLookup(f)
    /\ UNCHANGED cacheVars

(* A request is answered if it asks for an interface; a reply is dropped. *)
Known ==
    /\ up /\ pc = "known"
    /\ \/ frame.kind # "ip" /\ Done
       \/ frame.kind = "ip" /\ pc' = "route" /\ UNCHANGED frame
    /\ UNCHANGED cacheVars

AfterInsert(f) ==
    \/ f.kind = "arp_request" /\ Done      \* answered if it asks for an interface
    \/ f.kind = "arp_reply" /\ pc' = "pending" /\ UNCHANGED frame
    \/ f.kind = "ip" /\ pc' = "route" /\ UNCHANGED frame

Insert ==
    /\ up /\ pc = "insert" /\ Unlocked
    /\ insertArpEntry(Sender(frame))
    /\ AfterInsert(frame)
    /\ UNCHANGED <<m_arpRequests, tick, todo, ifaces, sent, up>>

-----------------------------------------------------------------------------
(* A packet for the router, or at its last hop, is answered by handleIcmpPacket. *)
AnswerIcmp ==
    /\ up /\ pc = "route" /\ Unlocked
    /\ LET p == frame.pkt
       IN  \/ Dst[p] = NoIp /\ UNCHANGED m_cacheEntries
           \/ /\ Dst[p] # NoIp /\ p \in LastHop
              /\ IF lookup(Src[p]) THEN UNCHANGED m_cacheEntries ELSE insertArpEntry(Src[p])
    /\ Done
    /\ UNCHANGED <<m_arpRequests, tick, todo, ifaces, sent, up>>

(* Any other packet is forwarded if its destination is cached, and queued if it is not. *)
LookupDst ==
    /\ up /\ pc = "route" /\ Unlocked
    /\ Dst[frame.pkt] # NoIp /\ frame.pkt \notin LastHop
    /\ pc' = IF lookup(Dst[frame.pkt]) THEN "forward" ELSE "queue"
    /\ UNCHANGED <<cacheVars, frame>>

Transmit(ps) == sent' = [p \in Packets |-> IF p \in ps THEN sent[p] + 1 ELSE sent[p]]

(* Forward through the route; the cache is asked a second time, and may say no. *)
Forward ==
    /\ up /\ pc = "forward" /\ Unlocked
    /\ LET p == frame.pkt
       IN  \/ Dst[p] \notin Routed /\ UNCHANGED <<sent, up>>
           \/ Dst[p] \in Routed /\ lookup(NextHop[Dst[p]]) /\ Transmit({p}) /\ UNCHANGED up
           \/ Dst[p] \in Routed /\ ~lookup(NextHop[Dst[p]]) /\ up' = FALSE /\ UNCHANGED sent
    /\ Done
    /\ UNCHANGED <<m_cacheEntries, m_arpRequests, tick, todo, ifaces>>

(* The incoming interface is looked up by the frame's destination and used unchecked. *)
Queue ==
    /\ up /\ pc = "queue" /\ Unlocked
    /\ \/ /\ frame.pkt \notin Stray
          /\ queueRequest(Dst[frame.pkt], frame.pkt)
          /\ UNCHANGED up
       \/ frame.pkt \in Stray /\ up' = FALSE /\ UNCHANGED m_arpRequests
    /\ Done
    /\ UNCHANGED <<m_cacheEntries, tick, todo, ifaces, sent>>

-----------------------------------------------------------------------------
(***************************************************************************)
(* sendPendingPackets, which does not take m_mutex: the packets queued for *)
(* the address of the reply are sent, then its request is removed.  If the *)
(* address has no route the lookup throws, and the dispatcher catches it.  *)
(***************************************************************************)
Pending(ip) == UNION {ToSet(m_arpRequests[k].packets) : k \in RequestFor(ip)}

SendPending ==
    /\ up /\ pc = "pending"
    /\ \/ /\ RequestFor(frame.ip) # {} /\ frame.ip \in Routed
          /\ Transmit(Pending(frame.ip))
          /\ pc' = "remove" /\ UNCHANGED frame
       \/ (RequestFor(frame.ip) = {} \/ frame.ip \notin Routed) /\ Done /\ UNCHANGED sent
    /\ UNCHANGED <<m_cacheEntries, m_arpRequests, tick, todo, ifaces, up>>

(* Mutant: the request stays. *)
RemoveRequestNot ==
    /\ up /\ pc = "remove"
    /\ Done
    /\ UNCHANGED cacheVars

RemoveRequest ==
    /\ up /\ pc = "remove"
    /\ \/ \E k \in RequestFor(frame.ip) : remove(k)
       \/ RequestFor(frame.ip) = {} /\ UNCHANGED m_arpRequests    \* the ticker gave it up
    /\ Done
    /\ UNCHANGED <<m_cacheEntries, tick, todo, ifaces, sent, up>>

(***************************************************************************)
(* The handler walks the list of requests or takes a node out of it while  *)
(* the ticker, which holds m_mutex, does the other: what follows is        *)
(* undefined, and may be the end of the process.                           *)
(***************************************************************************)
Racing ==
    /\ up /\ tick = "requests" /\ todo # <<>>
    /\ \/ pc = "remove"
       \/ pc = "pending" /\ \E k \in RequestFor(Head(todo)) : Expired(k)

Race ==
    /\ Racing
    /\ up' = FALSE
    /\ UNCHANGED <<m_cacheEntries, m_arpRequests, tick, todo, ifaces, sent, handlerVars>>

-----------------------------------------------------------------------------
(* Mutant: the interfaces go before the requests that need them. *)
ResetIfacesFirst ==
    /\ up /\ pc = "idle" /\ Unlocked
    /\ ifaces' = FALSE
    /\ pc' = "clear"
    /\ UNCHANGED <<m_cacheEntries, m_arpRequests, tick, todo, sent, up, frame>>

(***************************************************************************)
(* reset: the cache is cleared under m_mutex; the interfaces are cleared   *)
(* without it, and filled in again.                                        *)
(***************************************************************************)
Reset ==
    /\ up /\ pc = "idle" /\ Unlocked
    /\ clear
    /\ pc' = "clear"
    /\ UNCHANGED <<tick, todo, ifaces, sent, up, frame>>

ClearIfaces ==
    /\ up /\ pc = "clear"
    /\ ifaces' = FALSE
    /\ pc' = "reset"
    /\ UNCHANGED <<m_cacheEntries, m_arpRequests, tick, todo, sent, up, frame>>

ResetIfaces ==
    /\ up /\ pc = "reset"
    /\ ifaces' = TRUE
    /\ pc' = "idle"
    /\ UNCHANGED <<m_cacheEntries, m_arpRequests, tick, todo, sent, up, frame>>

Ticker == (Wake \/ CheckRequest \/ CheckRemoved \/ Sweep) /\ UNCHANGED handlerVars

Handler ==
    \/ \E f \in Frames : RecvArp(f)
    \/ \E f \in Frames : RecvIp(f)
    \/ Known \/ Insert \/ AnswerIcmp \/ LookupDst \/ Forward \/ Queue
    \/ SendPending \/ RemoveRequest \/ Reset \/ ClearIfaces \/ ResetIfaces

Next == Ticker \/ Handler \/ Race

Spec == Init /\ [][Next]_vars

(* The ticker never stops; the handler finishes what it has begun. *)
Finish ==
    \/ Known \/ Insert \/ AnswerIcmp \/ LookupDst \/ Forward \/ Queue
    \/ SendPending \/ RemoveRequest \/ ClearIfaces \/ ResetIfaces
FairSpec == Spec /\ WF_vars(Ticker) /\ SF_vars(Finish)

-----------------------------------------------------------------------------
(* Types of every variable. *)
TypeOK ==
    /\ m_cacheEntries \in Seq(ArpEntry)
    /\ m_arpRequests \in Seq(ArpRequest)
    /\ tick \in {"asleep", "requests"}
    /\ todo \in Seq(Ips)
    /\ ifaces \in BOOLEAN
    /\ sent \in [Packets -> Nat]
    /\ up \in BOOLEAN
    /\ pc \in Steps
    /\ frame \in Frames \cup {NoFrame}

(***************************************************************************)
(* The cache holds at most one valid entry for an address, although the    *)
(* handlers look up, release m_mutex, and insert later.                    *)
(***************************************************************************)
OneEntry ==
    \A j, k \in DOMAIN m_cacheEntries :
        m_cacheEntries[j].ip = m_cacheEntries[k].ip /\ m_cacheEntries[j].isValid
            /\ m_cacheEntries[k].isValid => j = k

(***************************************************************************)
(* At most one request is queued for an address, so that the first one     *)
(* sendPendingPackets finds holds all the packets that wait for it.        *)
(***************************************************************************)
OneRequest ==
    \A j, k \in DOMAIN m_arpRequests : m_arpRequests[j].ip = m_arpRequests[k].ip => j = k

(***************************************************************************)
(* The ticker, which looks interfaces up without m_mutex, has no request   *)
(* to send while reset fills them in again.                                *)
(***************************************************************************)
IfacesForRequests == m_arpRequests # <<>> => ifaces

(***************************************************************************)
(* A packet leaves the router at most once, although the packets of a      *)
(* request are sent before the request is removed and the ticker may run   *)
(* in between.                                                             *)
(***************************************************************************)
SentOnce == \A p \in Packets : sent[p] <= 1

(***************************************************************************)
(* "if not receiving ARP reply after 5 attempts, remove pending request    *)
(* and packets in queue" (simple-router.cpp:67): a packet leaves the queue *)
(* unsent only when its request was sent that often, or with a reset,      *)
(* however the handler and the ticker take turns.  It leaves unanswered:   *)
(* the ICMP host unreachable of arp-cache.hpp:29 is never sent.            *)
(***************************************************************************)
Tries(p) ==
    LET k == CHOOSE k \in DOMAIN m_arpRequests : p \in ToSet(m_arpRequests[k].packets)
    IN  m_arpRequests[k].nTimesSent
TriedBeforeDrop ==
    [][\A p \in Packets : Queued(p) /\ ~Queued(p)'
           => sent[p] = 1 \/ Tries(p) = MAX_SENT_TIME \/ pc' = "clear"]_vars

(***************************************************************************)
(* No packet waits for ever, unless the process dies first: its request is *)
(* answered or given up although the ticker's loop ends at every removal,  *)
(* and packets that were given up keep coming again for the same address   *)
(* and for others.                                                         *)
(***************************************************************************)
Through == {p \in Packets \ (Corrupt \cup LastHop \cup Stray) : Dst[p] \in Routed}
NoEndlessWait == \A p \in Through : ~<>[](Queued(p) /\ up)

(***************************************************************************)
(* "When servicing an arp reply ... send all packets on the req->packets   *)
(* linked list, cache.removeRequest(req)" (arp-cache.hpp:42): when the     *)
(* handler is done with a reply no request for its address is left.        *)
(***************************************************************************)
ReplyServes ==
    [][frame.kind = "arp_reply" /\ frame' = NoFrame
           => \A k \in DOMAIN m_arpRequests' : m_arpRequests'[k].ip # frame.ip]_vars

(* "comment out the mutex (dont really need it)" (README.md:21): no data race without it. *)
NoRace == ~Racing

(***************************************************************************)
(* "Packet discard because of no match in forwarding table"                *)
(* (simple-router.cpp:255): a packet without a route does not end the      *)
(* process.                                                                *)
(***************************************************************************)
NoRouteSurvived == up
=============================================================================
