------------------------------ MODULE ArpCache ------------------------------
(***************************************************************************)
(* The ARP cache of the simple router (CS118-Project3, arp-cache.cpp):     *)
(* entries, queued requests with the packets that wait for them, and the   *)
(* ticker thread, which wakes up every second and holds m_mutex while it   *)
(* works.  MAC addresses are left out: an entry maps an IP to the address  *)
(* of whoever answered for it.                                             *)
(***************************************************************************)
EXTENDS Integers, Sequences, FiniteSets, SequencesExt

CONSTANTS
    Ips,            \* addresses of hosts
    Packets,        \* IP packets
    Routed,         \* addresses the routing table has an entry for
    MAX_SENT_TIME,  \* ARP requests sent before a request is given up (5)
    SR_ARPCACHE_TO  \* seconds an entry stays valid (30)

ASSUME RoutedAssumption == Routed \subseteq Ips
ASSUME TimesAssumption == MAX_SENT_TIME \in Nat \ {0} /\ SR_ARPCACHE_TO \in Nat \ {0}

VARIABLES
    m_cacheEntries, \* list of entries; age counts ticks since timeAdded
    m_arpRequests,  \* list of requests
    tick,           \* the ticker: asleep, or holding m_mutex over the requests
    todo,           \* requests its loop has yet to visit
    ifaces,         \* m_ifaces is filled in
    sent,           \* how often each packet was handed to sendPacket
    up              \* the process has not died

cacheVars == <<m_cacheEntries, m_arpRequests, tick, todo, ifaces, sent, up>>

ArpEntry == [ip : Ips, age : 0..(SR_ARPCACHE_TO + 1), isValid : BOOLEAN]
ArpRequest == [ip : Ips, nTimesSent : 0..MAX_SENT_TIME, packets : Seq(Packets)]

CacheInit ==
    /\ m_cacheEntries = <<>>
    /\ m_arpRequests = <<>>
    /\ tick = "asleep"
    /\ todo = <<>>
    /\ ifaces = FALSE
    /\ sent = [p \in Packets |-> 0]
    /\ up = TRUE

(* m_mutex is free: every other holder releases it within one step. *)
Unlocked == tick = "asleep"

-----------------------------------------------------------------------------
(* What the handlers call. *)
lookup(ip) == \E k \in DOMAIN m_cacheEntries : m_cacheEntries[k].isValid /\ m_cacheEntries[k].ip = ip

RequestFor(ip) == {k \in DOMAIN m_arpRequests : m_arpRequests[k].ip = ip}

insertArpEntry(ip) ==
    m_cacheEntries' = Append(m_cacheEntries, [ip |-> ip, age |-> 0, isValid |-> TRUE])

(* Mutant: a request is queued for every packet. *)
queueRequestAnew(ip, p) ==
    m_arpRequests' = Append(m_arpRequests, [ip |-> ip, nTimesSent |-> 0, packets |-> <<p>>])

(* The packet joins the request for its address, which is made if there is none. *)
queueRequest(ip, p) ==
    \/ \E k \in RequestFor(ip) :
         m_arpRequests' = [m_arpRequests EXCEPT ![k].packets = Append(@, p)]
    \/ /\ RequestFor(ip) = {}
       /\ m_arpRequests' = Append(m_arpRequests, [ip |-> ip, nTimesSent |-> 0, packets |-> <<p>>])

(* One request leaves the list. *)
remove(k) == m_arpRequests' = RemoveAt(m_arpRequests, k)

clear == m_cacheEntries' = <<>> /\ m_arpRequests' = <<>>

-----------------------------------------------------------------------------
(***************************************************************************)
(* The ticker.  Sleeping takes a second or more, so an entry is found to   *)
(* be older than SR_ARPCACHE_TO at its tick of that number or the next.    *)
(***************************************************************************)
Aged(e, limit) ==
    [ip |-> e.ip, age |-> e.age + 1, isValid |-> e.isValid /\ e.age + 1 < limit]

Wake ==
    /\ up /\ tick = "asleep"
    /\ \E limit \in [DOMAIN m_cacheEntries -> SR_ARPCACHE_TO..(SR_ARPCACHE_TO + 1)] :
         m_cacheEntries' = [k \in DOMAIN m_cacheEntries |-> Aged(m_cacheEntries[k], limit[k])]
    /\ todo' = [k \in DOMAIN m_arpRequests |-> m_arpRequests[k].ip]
    /\ tick' = "requests"
    /\ UNCHANGED <<m_arpRequests, ifaces, sent, up>>

(* Mutants: one try too many, one too few. *)
ExpiredLate(k) == m_arpRequests[k].nTimesSent > MAX_SENT_TIME
ExpiredEarly(k) == m_arpRequests[k].nTimesSent + 1 >= MAX_SENT_TIME

(* timeSent is set before the ticker sleeps, so it is always more than a second ago. *)
Expired(k) == m_arpRequests[k].nTimesSent >= MAX_SENT_TIME

(* The routing table's lookup throws when it has no entry; an unknown interface is null. *)
CanSendRequest(ip) == ip \in Routed /\ ifaces

(* Mutant: tries are not counted. *)
handleArpRequestUncounted(k) ==
    \/ /\ Expired(k)
       /\ remove(k)
       /\ todo' = <<>>
       /\ UNCHANGED up
    \/ ~Expired(k) /\ todo' = Tail(todo) /\ UNCHANGED <<m_arpRequests, up>>

handleArpRequest(k) ==
    LET ip == m_arpRequests[k].ip
    IN  \/ /\ Expired(k)
           /\ remove(k)
           /\ todo' = <<>>                     \* the loop breaks after a removal
           /\ UNCHANGED up
        \/ /\ ~Expired(k) /\ CanSendRequest(ip)
           /\ m_arpRequests' = [m_arpRequests EXCEPT ![k].nTimesSent = @ + 1]
           /\ todo' = Tail(todo)
           /\ UNCHANGED up
        \/ /\ ~Expired(k) /\ ~CanSendRequest(ip)
           /\ up' = FALSE                      \* nothing catches it on this thread
           /\ UNCHANGED <<m_arpRequests, todo>>

(* One turn of the ticker's loop over the requests. *)
CheckRequest ==
    /\ up /\ tick = "requests" /\ todo # <<>>
    /\ \E k \in RequestFor(Head(todo)) : handleArpRequest(k)
    /\ UNCHANGED <<m_cacheEntries, tick, ifaces, sent>>

(* The request was removed, without m_mutex, under the loop's iterator: anything may follow. *)
CheckRemoved ==
    /\ up /\ tick = "requests" /\ todo # <<>>
    /\ RequestFor(Head(todo)) = {}
    /\ \/ up' = FALSE /\ UNCHANGED todo
       \/ todo' \in {Tail(todo), <<>>} /\ UNCHANGED up
    /\ UNCHANGED <<m_cacheEntries, m_arpRequests, tick, ifaces, sent>>

(* The sequences, one for a finite K, that list the numbers of K upwards. *)
Ascending(K) == {f \in [1..Cardinality(K) -> K] : \A i, j \in DOMAIN f : i < j => f[i] < f[j]}

(* Mutant: entries past their time stay in the list. *)
SweepNone ==
    /\ up /\ tick = "requests" /\ todo = <<>>
    /\ tick' = "asleep"
    /\ UNCHANGED <<m_cacheEntries, m_arpRequests, todo, ifaces, sent, up>>

(* The loop is over: entries that are no longer valid are removed, m_mutex is released. *)
Sweep ==
    /\ up /\ tick = "requests" /\ todo = <<>>
    /\ \E kept \in Ascending({k \in DOMAIN m_cacheEntries : m_cacheEntries[k].isValid}) :
         m_cacheEntries' = [i \in DOMAIN kept |-> m_cacheEntries[kept[i]]]
    /\ tick' = "asleep"
    /\ UNCHANGED <<m_arpRequests, todo, ifaces, sent, up>>
=============================================================================
