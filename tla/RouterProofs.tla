---------------------------- MODULE RouterProofs ----------------------------
(***************************************************************************)
(* Theorems about the simple router, for any hosts, packets and routes,    *)
(* any number of tries and any lifetime of an entry.  TypeOK and           *)
(* InductiveInv are proved inductive together, one lemma for each step of  *)
(* the ticker and of the handler.                                          *)
(***************************************************************************)
EXTENDS RouterInv, SequenceTheorems, FiniteSetTheorems, TLAPS

-----------------------------------------------------------------------------
(* Lists. *)

(* What is left of a list when its element k is removed. *)
LEMMA RemoveAtElements ==
  ASSUME NEW S, NEW s \in Seq(S), NEW k \in DOMAIN s
  PROVE  /\ RemoveAt(s, k) \in Seq(S)
         /\ Len(RemoveAt(s, k)) = Len(s) - 1
         /\ \A j \in 1..(Len(s) - 1) : RemoveAt(s, k)[j] = IF j < k THEN s[j] ELSE s[j + 1]
<1>0. k \in 1..Len(s) /\ Len(s) \in Nat /\ \A i \in 1..Len(s) : s[i] \in S
  BY LenProperties
<1> DEFINE u == SubSeq(s, 1, k - 1)
           v == SubSeq(s, k + 1, Len(s))
<1>1. /\ u \in Seq(S) /\ Len(u) = k - 1
      /\ \A i \in 1..(k - 1) : u[i] = s[i]
  <2>1. \A i \in 1..(k - 1) : s[i] \in S
    BY <1>0
  <2>. QED BY <1>0, <2>1, SubSeqProperties
<1>2. /\ v \in Seq(S) /\ Len(v) = Len(s) - k
      /\ \A i \in 1..(Len(s) - k) : v[i] = s[k + i]
  <2>1. \A i \in (k + 1)..Len(s) : s[i] \in S
    BY <1>0
  <2>. QED BY <1>0, <2>1, SubSeqProperties
<1> HIDE DEF u, v
<1>3. /\ u \o v \in Seq(S)
      /\ Len(u \o v) = Len(u) + Len(v)
      /\ \A j \in 1..(Len(u) + Len(v)) :
           (u \o v)[j] = IF j <= Len(u) THEN u[j] ELSE v[j - Len(u)]
  BY <1>1, <1>2, ConcatProperties
<1>4. RemoveAt(s, k) = u \o v
  BY DEF RemoveAt, u, v
<1>5. Len(u) + Len(v) = Len(s) - 1
  BY <1>0, <1>1, <1>2
<1>6. ASSUME NEW j \in 1..(Len(s) - 1)
      PROVE  (u \o v)[j] = IF j < k THEN s[j] ELSE s[j + 1]
  <2>1. CASE j < k
    BY <1>0, <1>1, <1>3, <1>5, <2>1
  <2>2. CASE ~(j < k)
    <3>1. (u \o v)[j] = v[j - Len(u)]
      <4>1. j \in 1..(Len(u) + Len(v))
        BY <1>5
      <4>2. ~(j <= Len(u))
        BY <1>0, <1>1, <2>2
      <4>. QED BY <1>3, <4>1, <4>2
    <3>2. j - Len(u) \in 1..(Len(s) - k) /\ k + (j - Len(u)) = j + 1
      BY <1>0, <1>1, <2>2
    <3>3. v[j - Len(u)] = s[k + (j - Len(u))]
      BY <1>2, <3>2
    <3>. QED BY <3>1, <3>2, <3>3, <2>2
  <2>. QED BY <2>1, <2>2
<1>. QED BY <1>3, <1>4, <1>5, <1>6

(***************************************************************************)
(* A list t is thinned from s if its elements are elements of s at         *)
(* different places.                                                       *)
(***************************************************************************)
Thinned(s, t) ==
    \E f \in [DOMAIN t -> DOMAIN s] :
        /\ \A i \in DOMAIN t : t[i] = s[f[i]]
        /\ \A i, j \in DOMAIN t : f[i] = f[j] => i = j

(* A removal thins the list, and takes away only the element removed. *)
LEMMA RemoveAtThins ==
  ASSUME NEW S, NEW s \in Seq(S), NEW k \in DOMAIN s
  PROVE  /\ Thinned(s, RemoveAt(s, k))
         /\ \A j \in DOMAIN s \ {k} : \E i \in DOMAIN RemoveAt(s, k) : RemoveAt(s, k)[i] = s[j]
         /\ \A i \in DOMAIN RemoveAt(s, k) : \E j \in DOMAIN s \ {k} : RemoveAt(s, k)[i] = s[j]
<1> DEFINE t == RemoveAt(s, k)
           f == [j \in DOMAIN t |-> IF j < k THEN j ELSE j + 1]
<1>1. /\ t \in Seq(S) /\ Len(t) = Len(s) - 1
      /\ \A j \in 1..(Len(s) - 1) : t[j] = IF j < k THEN s[j] ELSE s[j + 1]
  BY RemoveAtElements
<1> HIDE DEF t
<1>2. DOMAIN s = 1..Len(s) /\ Len(s) \in Nat /\ DOMAIN t = 1..(Len(s) - 1) /\ k \in 1..Len(s)
  BY <1>1, LenProperties
<1>3. /\ f \in [DOMAIN t -> DOMAIN s]
      /\ \A i \in DOMAIN t : t[i] = s[f[i]] /\ f[i] # k
      /\ \A i, j \in DOMAIN t : f[i] = f[j] => i = j
  BY <1>1, <1>2
<1>4. Thinned(s, t)
  BY <1>3 DEF Thinned
<1>5. ASSUME NEW j \in DOMAIN s \ {k}
      PROVE  \E i \in DOMAIN t : t[i] = s[j]
  <2>1. CASE j < k
    BY <1>1, <1>2, <2>1
  <2>2. CASE j > k
    <3>1. j - 1 \in DOMAIN t /\ t[j - 1] = s[j]
      BY <1>1, <1>2, <2>2
    <3>. QED BY <3>1
  <2>. QED BY <1>2, <2>1, <2>2
<1>6. \A i \in DOMAIN t : \E j \in DOMAIN s \ {k} : t[i] = s[j]
  BY <1>3
<1>. QED BY <1>4, <1>5, <1>6 DEF t

(* A function on 1..n is a list. *)
LEMMA FunctionIsSeq ==
  ASSUME NEW S, NEW n \in Nat, NEW f \in [1..n -> S]
  PROVE  f \in Seq(S) /\ DOMAIN f = 1..n
BY SeqDef

-----------------------------------------------------------------------------
(* Frames. *)

(* The fields of a frame, by its kind. *)
LEMMA FrameFields ==
  ASSUME NEW f \in Frames
  PROVE  /\ f.kind \in {"arp_request", "arp_reply", "ip"}
         /\ f.kind = "ip" => f.pkt \in Packets
         /\ f.kind # "ip" => f.ip \in Ips
         /\ f # NoFrame
         /\ Sender(f) \in Ips
BY AddressAssumption DEF Frames, NoFrame, Sender

(* Every step but the first and those of a reset has a frame. *)
LEMMA HasFrame ==
  ASSUME TypeOK, FrameInv, pc \notin {"idle", "clear", "reset"}
  PROVE  frame \in Frames
BY DEF TypeOK, FrameInv

(* The fields of a request. *)
LEMMA RequestFields ==
  ASSUME TypeOK, NEW k \in DOMAIN m_arpRequests
  PROVE  /\ m_arpRequests[k] \in ArpRequest
         /\ m_arpRequests[k].ip \in Ips
         /\ m_arpRequests[k].nTimesSent \in 0..MAX_SENT_TIME
         /\ m_arpRequests[k].packets \in Seq(Packets)
<1>1. m_arpRequests[k] \in ArpRequest
  BY DEF TypeOK
<1>. QED BY <1>1 DEF ArpRequest

(* Counting a try. *)
LEMMA CountTry ==
  ASSUME NEW r \in ArpRequest, r.nTimesSent < MAX_SENT_TIME
  PROVE  /\ [r EXCEPT !.nTimesSent = @ + 1] \in ArpRequest
         /\ [r EXCEPT !.nTimesSent = @ + 1].ip = r.ip
         /\ [r EXCEPT !.nTimesSent = @ + 1].packets = r.packets
<1>1. r.nTimesSent \in 0..MAX_SENT_TIME
  BY DEF ArpRequest
<1>2. r.nTimesSent + 1 \in 0..MAX_SENT_TIME
  BY <1>1, TimesAssumption
<1>. QED BY <1>2 DEF ArpRequest

(* Adding a packet. *)
LEMMA AddPacket ==
  ASSUME NEW r \in ArpRequest, NEW p \in Packets
  PROVE  /\ [r EXCEPT !.packets = Append(@, p)] \in ArpRequest
         /\ [r EXCEPT !.packets = Append(@, p)].ip = r.ip
         /\ [r EXCEPT !.packets = Append(@, p)].packets = Append(r.packets, p)
<1>1. r.packets \in Seq(Packets)
  BY DEF ArpRequest
<1>2. Append(r.packets, p) \in Seq(Packets)
  BY <1>1
<1>. QED BY <1>2 DEF ArpRequest

-----------------------------------------------------------------------------
(* The initial states satisfy the invariant. *)
LEMMA InitInv == Init => TypeOK /\ InductiveInv
<1> SUFFICES ASSUME Init PROVE TypeOK /\ InductiveInv
  OBVIOUS
<1> USE DEF Init, CacheInit, HandlerInit
<1>1. TypeOK
  <2>1. ifaces \in BOOLEAN /\ up \in BOOLEAN /\ pc \in Steps
    BY Zenon DEF Steps
  <2>2. /\ m_cacheEntries \in Seq(ArpEntry) /\ m_arpRequests \in Seq(ArpRequest) /\ todo \in Seq(Ips)
        /\ sent \in [Packets -> Nat]
    OBVIOUS
  <2>. QED BY <2>1, <2>2 DEF TypeOK
<1>2. FrameInv /\ AgeInv /\ InsertInv /\ QueueInv /\ SentInv
  BY DEF FrameInv, AgeInv, InsertInv, QueueInv, SentInv, NoFrame
<1>3. ResetInv
  BY DEF ResetInv
<1>4. PacketInv
  BY DEF PacketInv, NoFrame
<1>5. OneEntry /\ OneRequest /\ SentOnce
  BY DEF OneEntry, OneRequest, SentOnce
<1>. QED BY <1>1, <1>2, <1>3, <1>4, <1>5 DEF InductiveInv

-----------------------------------------------------------------------------
(* The ticker. *)

(***************************************************************************)
(* Steps that make entries invalid, age them or remove them keep what is   *)
(* said of valid entries.                                                  *)
(***************************************************************************)
LEMMA FewerEntries ==
  ASSUME OneEntry, InsertInv, UNCHANGED handlerVars,
         NEW f \in [DOMAIN m_cacheEntries' -> DOMAIN m_cacheEntries],
         \A i, j \in DOMAIN m_cacheEntries' : f[i] = f[j] => i = j,
         \A i \in DOMAIN m_cacheEntries' :
            /\ m_cacheEntries'[i].ip = m_cacheEntries[f[i]].ip
            /\ m_cacheEntries'[i].isValid => m_cacheEntries[f[i]].isValid
  PROVE  OneEntry' /\ InsertInv'
<1>1. OneEntry'
  BY DEF OneEntry
<1>2. InsertInv'
  BY DEF InsertInv, lookup, handlerVars
<1>. QED BY <1>1, <1>2

(* Waking up: entries age. *)
LEMMA WakeInv ==
  ASSUME TypeOK, InductiveInv, Wake, UNCHANGED handlerVars
  PROVE  TypeOK' /\ InductiveInv'
<1> DEFINE n == Len(m_cacheEntries)
<1>1. PICK limit \in [DOMAIN m_cacheEntries -> SR_ARPCACHE_TO..(SR_ARPCACHE_TO + 1)] :
        m_cacheEntries' = [k \in DOMAIN m_cacheEntries |-> Aged(m_cacheEntries[k], limit[k])]
  BY DEF Wake
<1>2. DOMAIN m_cacheEntries = 1..n /\ n \in Nat
  BY DEF TypeOK
<1>3. ASSUME NEW k \in DOMAIN m_cacheEntries
      PROVE  /\ m_cacheEntries'[k] \in ArpEntry
             /\ m_cacheEntries'[k].ip = m_cacheEntries[k].ip
             /\ m_cacheEntries'[k].isValid => m_cacheEntries[k].isValid
             /\ m_cacheEntries'[k].isValid => m_cacheEntries'[k].age <= SR_ARPCACHE_TO
  <2> DEFINE e == m_cacheEntries[k]
  <2>1. m_cacheEntries'[k] = Aged(e, limit[k])
    BY <1>1
  <2>2. e \in ArpEntry /\ e.isValid /\ e.age <= SR_ARPCACHE_TO
    BY DEF TypeOK, Wake, InductiveInv, AgeInv
  <2>3. limit[k] \in SR_ARPCACHE_TO..(SR_ARPCACHE_TO + 1) /\ SR_ARPCACHE_TO \in Nat
    BY TimesAssumption
  <2> HIDE DEF e
  <2>4. Aged(e, limit[k]).isValid => e.age + 1 < limit[k]
    BY DEF Aged
  <2>5. Aged(e, limit[k]).isValid \in BOOLEAN
    BY DEF Aged
  <2>6. Aged(e, limit[k]) = [ip |-> e.ip, age |-> e.age + 1, isValid |-> Aged(e, limit[k]).isValid]
    BY DEF Aged
  <2>7. Aged(e, limit[k]).ip = e.ip /\ Aged(e, limit[k]).age = e.age + 1
    BY DEF Aged
  <2>8. Aged(e, limit[k]) \in ArpEntry
    BY <2>2, <2>3, <2>5, <2>6 DEF ArpEntry
  <2>. QED BY <2>1, <2>2, <2>3, <2>4, <2>7, <2>8 DEF ArpEntry, e
<1>4. m_cacheEntries' \in Seq(ArpEntry) /\ DOMAIN m_cacheEntries' = DOMAIN m_cacheEntries
  <2>1. m_cacheEntries' \in [1..n -> ArpEntry]
    BY <1>1, <1>2, <1>3
  <2>. QED BY <2>1, <1>2, FunctionIsSeq
<1>5. todo' \in Seq(Ips)
  <2>1. m_arpRequests \in Seq(ArpRequest) /\ Len(m_arpRequests) \in Nat
    BY DEF TypeOK
  <2>2. todo' \in [1..Len(m_arpRequests) -> Ips]
    <3>1. todo' = [k \in DOMAIN m_arpRequests |-> m_arpRequests[k].ip]
      BY DEF Wake
    <3>. QED BY <2>1, <3>1, RequestFields
  <2>. QED BY <2>1, <2>2, FunctionIsSeq
<1>6. TypeOK'
  BY <1>4, <1>5 DEF TypeOK, Wake, handlerVars
<1>7. OneEntry' /\ InsertInv'
  <2> DEFINE f == [k \in DOMAIN m_cacheEntries' |-> k]
  <2>1. f \in [DOMAIN m_cacheEntries' -> DOMAIN m_cacheEntries]
    BY <1>4
  <2>2. OneEntry /\ InsertInv
    BY DEF InductiveInv
  <2>3. \A i, j \in DOMAIN m_cacheEntries' : f[i] = f[j] => i = j
    OBVIOUS
  <2>4. \A i \in DOMAIN m_cacheEntries' :
            /\ m_cacheEntries'[i].ip = m_cacheEntries[f[i]].ip
            /\ m_cacheEntries'[i].isValid => m_cacheEntries[f[i]].isValid
    BY <1>3, <1>4
  <2> HIDE DEF f
  <2>. QED BY <2>1, <2>2, <2>3, <2>4, FewerEntries
<1>8. AgeInv'
  BY <1>3, <1>4 DEF AgeInv, Wake
<1>9. FrameInv' /\ ResetInv' /\ QueueInv' /\ PacketInv' /\ SentInv' /\ OneRequest' /\ SentOnce'
  BY DEF InductiveInv, Wake, handlerVars, FrameInv, ResetInv, QueueInv, PacketInv, SentInv,
         OneRequest, SentOnce, Queued
<1>. QED BY <1>6, <1>7, <1>8, <1>9 DEF InductiveInv

(* The end of a tick: invalid entries are removed. *)
LEMMA SweepInv ==
  ASSUME TypeOK, InductiveInv, Sweep, UNCHANGED handlerVars
  PROVE  TypeOK' /\ InductiveInv'
<1> DEFINE K == {k \in DOMAIN m_cacheEntries : m_cacheEntries[k].isValid}
<1>1. PICK f \in Ascending(K) :
        m_cacheEntries' = [i \in DOMAIN f |-> m_cacheEntries[f[i]]]
  BY DEF Sweep
<1>2. Cardinality(K) \in Nat
  <2>1. DOMAIN m_cacheEntries = 1..Len(m_cacheEntries) /\ Len(m_cacheEntries) \in Nat
    BY DEF TypeOK
  <2>2. IsFiniteSet(DOMAIN m_cacheEntries)
    BY <2>1, FS_Interval
  <2>3. IsFiniteSet(K)
    BY <2>2, FS_Subset
  <2>. QED BY <2>3, FS_CardinalityType
<1> DEFINE n == Cardinality(K)
<1> HIDE DEF n
<1>3. f \in [1..n -> K] /\ \A i, j \in 1..n : i < j => f[i] < f[j]
  BY <1>1 DEF Ascending, n
<1> HIDE DEF K
<1>4. K \subseteq DOMAIN m_cacheEntries /\ \A k \in K : m_cacheEntries[k].isValid /\ k \in Nat
  BY DEF K, TypeOK
<1>5. n \in Nat
  BY <1>2 DEF n
<1>6. \A i, j \in 1..n : f[i] = f[j] => i = j
  BY <1>3, <1>4, <1>5
<1>7. /\ DOMAIN m_cacheEntries' = 1..n
      /\ \A i \in 1..n : m_cacheEntries'[i] = m_cacheEntries[f[i]] /\ f[i] \in K
  BY <1>1, <1>3
<1>8. m_cacheEntries' \in Seq(ArpEntry)
  <2>1. m_cacheEntries' \in [1..n -> ArpEntry]
    BY <1>1, <1>3, <1>4, <1>7 DEF TypeOK
  <2>. QED BY <2>1, <1>5, FunctionIsSeq
<1>9. TypeOK'
  BY <1>8 DEF TypeOK, Sweep, handlerVars
<1>10. OneEntry' /\ InsertInv'
  <2>1. f \in [DOMAIN m_cacheEntries' -> DOMAIN m_cacheEntries]
    BY <1>3, <1>4, <1>7
  <2>2. \A i, j \in DOMAIN m_cacheEntries' : f[i] = f[j] => i = j
    BY <1>6, <1>7
  <2>3. OneEntry /\ InsertInv
    BY DEF InductiveInv
  <2>4. \A i \in DOMAIN m_cacheEntries' :
            /\ m_cacheEntries'[i].ip = m_cacheEntries[f[i]].ip
            /\ m_cacheEntries'[i].isValid => m_cacheEntries[f[i]].isValid
    BY <1>7
  <2>. QED BY <2>1, <2>2, <2>3, <2>4, FewerEntries
<1>11. AgeInv'
  BY <1>4, <1>7 DEF InductiveInv, AgeInv
<1>12. FrameInv' /\ ResetInv' /\ QueueInv' /\ PacketInv' /\ SentInv' /\ OneRequest' /\ SentOnce'
  BY DEF InductiveInv, Sweep, handlerVars, FrameInv, ResetInv, QueueInv, PacketInv, SentInv,
         OneRequest, SentOnce, Queued
<1>. QED BY <1>9, <1>10, <1>11, <1>12 DEF InductiveInv

(***************************************************************************)
(* Steps that remove requests, or change no more than how often they were  *)
(* sent, keep what is said of the packets that wait.                       *)
(***************************************************************************)
LEMMA FewerRequests ==
  ASSUME QueueInv, OneRequest,
         NEW f \in [DOMAIN m_arpRequests' -> DOMAIN m_arpRequests],
         \A i, j \in DOMAIN m_arpRequests' : f[i] = f[j] => i = j,
         \A i \in DOMAIN m_arpRequests' :
            /\ m_arpRequests'[i].ip = m_arpRequests[f[i]].ip
            /\ m_arpRequests'[i].packets = m_arpRequests[f[i]].packets
  PROVE  /\ QueueInv' /\ OneRequest'
         /\ \A p : Queued(p)' => Queued(p)
         /\ PacketInv /\ SentInv /\ UNCHANGED <<sent, handlerVars>> => PacketInv' /\ SentInv'
<1>1. QueueInv'
  BY DEF QueueInv
<1>2. OneRequest'
  BY DEF OneRequest
<1>3. \A p : Queued(p)' => Queued(p)
  BY DEF Queued
<1>4. ASSUME PacketInv, SentInv, UNCHANGED <<sent, handlerVars>>
      PROVE  PacketInv' /\ SentInv'
  <2>1. PacketInv'
    BY <1>3, <1>4 DEF PacketInv, handlerVars
  <2>2. SentInv'
    BY <1>4 DEF SentInv, handlerVars
  <2>. QED BY <2>1, <2>2
<1>. QED BY <1>1, <1>2, <1>3, <1>4

(* A request is removed, and the handler and its packets stay as they are. *)
LEMMA RemoveInv ==
  ASSUME TypeOK, InductiveInv, NEW k \in DOMAIN m_arpRequests, remove(k)
  PROVE  /\ m_arpRequests' \in Seq(ArpRequest)
         /\ QueueInv' /\ OneRequest'
         /\ \A p : Queued(p)' => Queued(p)
         /\ UNCHANGED <<sent, handlerVars>> => PacketInv' /\ SentInv'
         /\ m_arpRequests = <<>> => m_arpRequests' = <<>>
<1>1. m_arpRequests \in Seq(ArpRequest)
  BY DEF TypeOK
<1>2. m_arpRequests' \in Seq(ArpRequest) /\ Thinned(m_arpRequests, m_arpRequests')
  BY <1>1, RemoveAtElements, RemoveAtThins DEF remove
<1>3. PICK f \in [DOMAIN m_arpRequests' -> DOMAIN m_arpRequests] :
        /\ \A i \in DOMAIN m_arpRequests' : m_arpRequests'[i] = m_arpRequests[f[i]]
        /\ \A i, j \in DOMAIN m_arpRequests' : f[i] = f[j] => i = j
  BY <1>2 DEF Thinned
<1>4. QueueInv /\ OneRequest /\ PacketInv /\ SentInv
  BY DEF InductiveInv
<1>5. /\ QueueInv' /\ OneRequest'
      /\ \A p : Queued(p)' => Queued(p)
      /\ UNCHANGED <<sent, handlerVars>> => PacketInv' /\ SentInv'
  BY <1>3, <1>4, FewerRequests
<1>6. m_arpRequests # <<>>
  BY <1>1, EmptySeq
<1>. QED BY <1>2, <1>5, <1>6

(* One turn of the ticker's loop: a request is given up, sent again, or ends the process. *)
LEMMA CheckRequestInv ==
  ASSUME TypeOK, InductiveInv, CheckRequest, UNCHANGED handlerVars
  PROVE  TypeOK' /\ InductiveInv'
<1>1. PICK k \in RequestFor(Head(todo)) : handleArpRequest(k)
  BY DEF CheckRequest
<1>2. k \in DOMAIN m_arpRequests /\ m_arpRequests \in Seq(ArpRequest)
  BY DEF RequestFor, TypeOK
<1>3. UNCHANGED <<m_cacheEntries, tick, ifaces, sent>> /\ todo # <<>>
  BY DEF CheckRequest
<1>4. ASSUME m_arpRequests' \in Seq(ArpRequest), todo' \in Seq(Ips), up' \in BOOLEAN,
             QueueInv', OneRequest', PacketInv', SentInv'
      PROVE  TypeOK' /\ InductiveInv'
  <2>1. TypeOK'
    BY <1>3, <1>4 DEF TypeOK, handlerVars
  <2>2. FrameInv' /\ AgeInv' /\ InsertInv' /\ OneEntry' /\ SentOnce'
    BY <1>3 DEF InductiveInv, FrameInv, AgeInv, InsertInv, OneEntry, SentOnce, lookup, handlerVars
  <2>3. ResetInv'
    <3>1. m_arpRequests # <<>>
      BY <1>2
    <3>. QED BY <1>3, <3>1 DEF InductiveInv, ResetInv, handlerVars
  <2>. QED BY <1>4, <2>1, <2>2, <2>3 DEF InductiveInv
<1>5. Tail(todo) \in Seq(Ips) /\ <<>> \in Seq(Ips) /\ todo \in Seq(Ips)
  BY <1>3 DEF TypeOK
<1>6. up \in BOOLEAN /\ PacketInv /\ SentInv /\ QueueInv /\ OneRequest
  BY DEF TypeOK, InductiveInv
<1>7. CASE remove(k) /\ todo' = <<>> /\ UNCHANGED up
  BY <1>2, <1>3, <1>4, <1>5, <1>6, <1>7, RemoveInv
<1>8. CASE /\ ~Expired(k)
           /\ m_arpRequests' = [m_arpRequests EXCEPT ![k].nTimesSent = @ + 1]
           /\ todo' = Tail(todo) /\ UNCHANGED up
  <2> DEFINE r == [m_arpRequests[k] EXCEPT !.nTimesSent = @ + 1]
  <2>1. /\ DOMAIN m_arpRequests' = DOMAIN m_arpRequests
        /\ \A i \in DOMAIN m_arpRequests :
             m_arpRequests'[i] = IF i = k THEN r ELSE m_arpRequests[i]
    BY <1>2, <1>8
  <2>2. r \in ArpRequest /\ r.ip = m_arpRequests[k].ip /\ r.packets = m_arpRequests[k].packets
    <3>1. m_arpRequests[k] \in ArpRequest /\ m_arpRequests[k].nTimesSent \in 0..MAX_SENT_TIME
      BY <1>2, RequestFields
    <3>2. m_arpRequests[k].nTimesSent < MAX_SENT_TIME
      BY <1>8, <3>1, TimesAssumption DEF Expired
    <3>. QED BY <3>1, <3>2, CountTry
  <2>3. m_arpRequests' \in Seq(ArpRequest)
    BY <1>2, <1>8, <2>2, ExceptSeq
  <2> HIDE DEF r
  <2>4. \A i \in DOMAIN m_arpRequests :
          /\ m_arpRequests'[i].ip = m_arpRequests[i].ip
          /\ m_arpRequests'[i].packets = m_arpRequests[i].packets
    BY <1>2, <2>1, <2>2
  <2> DEFINE f == [i \in DOMAIN m_arpRequests' |-> i]
  <2>5. /\ f \in [DOMAIN m_arpRequests' -> DOMAIN m_arpRequests]
        /\ \A i, j \in DOMAIN m_arpRequests' : f[i] = f[j] => i = j
        /\ \A i \in DOMAIN m_arpRequests' :
              /\ m_arpRequests'[i].ip = m_arpRequests[f[i]].ip
              /\ m_arpRequests'[i].packets = m_arpRequests[f[i]].packets
    BY <2>1, <2>4
  <2> HIDE DEF f
  <2>6. QueueInv' /\ OneRequest' /\ PacketInv' /\ SentInv'
    BY <1>3, <1>6, <2>5, FewerRequests
  <2>. QED BY <1>4, <1>5, <1>6, <1>8, <2>3, <2>6
<1>9. CASE up' = FALSE /\ UNCHANGED <<m_arpRequests, todo>>
  <2>1. QueueInv' /\ OneRequest' /\ PacketInv' /\ SentInv'
    BY <1>3, <1>6, <1>9 DEF QueueInv, OneRequest, PacketInv, SentInv, Queued, handlerVars
  <2>. QED BY <1>2, <1>4, <1>5, <1>9, <2>1
<1>. QED BY <1>1, <1>7, <1>8, <1>9 DEF handleArpRequest

(* The loop's iterator is gone. *)
LEMMA CheckRemovedInv ==
  ASSUME TypeOK, InductiveInv, CheckRemoved, UNCHANGED handlerVars
  PROVE  TypeOK' /\ InductiveInv'
<1>1. todo \in Seq(Ips) /\ todo # <<>> /\ up \in BOOLEAN
  BY DEF TypeOK, CheckRemoved
<1>2. todo' \in Seq(Ips) /\ up' \in BOOLEAN
  <2>1. Tail(todo) \in Seq(Ips) /\ <<>> \in Seq(Ips)
    BY <1>1
  <2>2. CASE up' = FALSE /\ UNCHANGED todo
    BY <1>1, <2>2
  <2>3. CASE todo' \in {Tail(todo), <<>>} /\ UNCHANGED up
    BY <1>1, <2>1, <2>3, Zenon
  <2>. QED BY <2>2, <2>3 DEF CheckRemoved
<1>3. TypeOK'
  BY <1>2 DEF TypeOK, CheckRemoved, handlerVars
<1>4. FrameInv' /\ AgeInv' /\ InsertInv' /\ ResetInv' /\ OneEntry' /\ SentOnce'
  BY DEF InductiveInv, CheckRemoved, FrameInv, AgeInv, InsertInv, ResetInv, OneEntry, SentOnce,
         lookup, handlerVars
<1>5. QueueInv' /\ PacketInv' /\ SentInv' /\ OneRequest'
  BY DEF InductiveInv, CheckRemoved, QueueInv, PacketInv, SentInv, OneRequest, Queued,
         handlerVars
<1>. QED BY <1>3, <1>4, <1>5 DEF InductiveInv

-----------------------------------------------------------------------------
(* The handler. *)

(* Steps that leave the cache alone. *)
LEMMA SameCache ==
  ASSUME InductiveInv, UNCHANGED cacheVars
  PROVE  /\ AgeInv' /\ QueueInv' /\ OneEntry' /\ OneRequest' /\ SentOnce'
         /\ \A p : Queued(p)' <=> Queued(p)
<1>1. AgeInv' /\ OneEntry' /\ SentOnce'
  BY DEF InductiveInv, cacheVars, AgeInv, OneEntry, SentOnce
<1>2. QueueInv' /\ OneRequest' /\ \A p : Queued(p)' <=> Queued(p)
  BY DEF InductiveInv, cacheVars, QueueInv, OneRequest, Queued
<1>. QED BY <1>1, <1>2

(* After a lookup the handler holds the frame, and what it was told is true. *)
LEMMA AfterLookupInv ==
  ASSUME TypeOK, InductiveInv, NEW f \in Frames, pc = "idle", AfterLookup(f),
         f.kind = "ip" => ~Queued(f.pkt) /\ sent[f.pkt] = 0,
         UNCHANGED cacheVars
  PROVE  TypeOK' /\ InductiveInv'
<1>1. frame' = f /\ pc' \in {"known", "insert"} /\ (pc' = "insert" => ~lookup(Sender(f)))
  BY DEF AfterLookup
<1>2. TypeOK'
  BY <1>1 DEF TypeOK, cacheVars, Steps
<1>3. FrameInv'
  BY <1>1, FrameFields DEF FrameInv
<1>4. InsertInv'
  BY <1>1 DEF InsertInv, lookup, Sender, cacheVars
<1>5. ResetInv'
  BY <1>1 DEF InductiveInv, ResetInv, cacheVars
<1>6. PacketInv'
  BY <1>1, SameCache DEF PacketInv, cacheVars
<1>7. SentInv'
  BY <1>1 DEF InductiveInv, SentInv, cacheVars
<1>. QED BY <1>2, <1>3, <1>4, <1>5, <1>6, <1>7, SameCache DEF InductiveInv

(* An ARP frame comes in. *)
LEMMA RecvArpInv ==
  ASSUME TypeOK, InductiveInv, NEW f \in Frames, RecvArp(f)
  PROVE  TypeOK' /\ InductiveInv'
BY AfterLookupInv DEF RecvArp

(* An IP packet comes in. *)
LEMMA RecvIpInv ==
  ASSUME TypeOK, InductiveInv, NEW f \in Frames, RecvIp(f)
  PROVE  TypeOK' /\ InductiveInv'
<1>1. CASE UNCHANGED vars
  <2>1. TypeOK'
    BY <1>1 DEF TypeOK, vars, cacheVars, handlerVars
  <2>2. UNCHANGED cacheVars
    BY <1>1 DEF vars
  <2>3. FrameInv' /\ InsertInv' /\ ResetInv' /\ PacketInv' /\ SentInv'
    BY <1>1, <2>2, SameCache DEF InductiveInv, FrameInv, InsertInv, ResetInv, PacketInv, SentInv,
       lookup, vars, cacheVars, handlerVars
  <2>. QED BY <2>1, <2>2, <2>3, SameCache DEF InductiveInv
<1>2. CASE AfterLookup(f)
  BY <1>2, AfterLookupInv DEF RecvIp
<1>. QED BY <1>1, <1>2 DEF RecvIp, vars, handlerVars

(* The handler is done with a frame and has not touched the cache. *)
LEMMA DoneInv ==
  ASSUME TypeOK, InductiveInv, Done, pc \notin {"remove", "reset"}, UNCHANGED cacheVars
  PROVE  TypeOK' /\ InductiveInv'
<1>1. pc' = "idle" /\ frame' = NoFrame
  BY DEF Done
<1>2. TypeOK'
  BY <1>1 DEF TypeOK, cacheVars, Steps
<1>3. FrameInv' /\ InsertInv' /\ ResetInv'
  BY <1>1 DEF InductiveInv, FrameInv, InsertInv, ResetInv, cacheVars
<1>4. PacketInv'
  BY <1>1 DEF PacketInv, NoFrame
<1>5. SentInv'
  BY <1>1 DEF InductiveInv, SentInv, cacheVars
<1>. QED BY <1>2, <1>3, <1>4, <1>5, SameCache DEF InductiveInv

(* The sender's address was known. *)
LEMMA KnownInv ==
  ASSUME TypeOK, InductiveInv, Known
  PROVE  TypeOK' /\ InductiveInv'
<1>1. CASE Done
  BY <1>1, DoneInv DEF Known
<1>2. CASE frame.kind = "ip" /\ pc' = "route" /\ UNCHANGED frame
  <2>1. pc = "known" /\ UNCHANGED cacheVars
    BY DEF Known
  <2>2. TypeOK'
    BY <1>2, <2>1 DEF TypeOK, cacheVars, Steps
  <2>3. FrameInv' /\ InsertInv' /\ ResetInv' /\ SentInv'
    BY <1>2, <2>1 DEF InductiveInv, FrameInv, InsertInv, ResetInv, SentInv, cacheVars
  <2>4. PacketInv'
    BY <1>2, <2>1, SameCache DEF InductiveInv, PacketInv, cacheVars
  <2>. QED BY <2>1, <2>2, <2>3, <2>4, SameCache DEF InductiveInv
<1>. QED BY <1>1, <1>2 DEF Known

(* An entry is added for an address that has none. *)
LEMMA InsertEntry ==
  ASSUME TypeOK, OneEntry, AgeInv, NEW ip \in Ips, ~lookup(ip), insertArpEntry(ip)
  PROVE  m_cacheEntries' \in Seq(ArpEntry) /\ OneEntry' /\ (UNCHANGED tick => AgeInv')
<1> DEFINE e == [ip |-> ip, age |-> 0, isValid |-> TRUE]
           n == Len(m_cacheEntries)
<1>1. e \in ArpEntry /\ e.ip = ip /\ e.age = 0
  BY TimesAssumption DEF ArpEntry
<1>2. e.isValid
  OBVIOUS
<1> HIDE DEF e
<1>3. m_cacheEntries \in Seq(ArpEntry) /\ m_cacheEntries' = Append(m_cacheEntries, e)
  BY DEF TypeOK, insertArpEntry, e
<1>4. /\ m_cacheEntries' \in Seq(ArpEntry)
      /\ n \in Nat /\ DOMAIN m_cacheEntries = 1..n /\ DOMAIN m_cacheEntries' = 1..(n + 1)
      /\ \A k \in 1..n : m_cacheEntries'[k] = m_cacheEntries[k]
      /\ m_cacheEntries'[n + 1] = e
  BY <1>1, <1>3
<1> HIDE DEF n
<1>5. \A k \in 1..n : ~(m_cacheEntries[k].isValid /\ m_cacheEntries[k].ip = ip)
  BY <1>4 DEF lookup
<1>6. OneEntry'
  BY <1>1, <1>4, <1>5 DEF OneEntry
<1>7. ASSUME UNCHANGED tick PROVE AgeInv'
  BY <1>1, <1>2, <1>4, <1>7, TimesAssumption DEF AgeInv
<1>. QED BY <1>4, <1>6, <1>7

(* Steps that leave the requests alone. *)
LEMMA SameRequests ==
  ASSUME InductiveInv, UNCHANGED m_arpRequests
  PROVE  QueueInv' /\ OneRequest' /\ \A p : Queued(p)' <=> Queued(p)
BY DEF InductiveInv, QueueInv, OneRequest, Queued

(* The sender's mapping is recorded. *)
LEMMA InsertStepInv ==
  ASSUME TypeOK, InductiveInv, Insert
  PROVE  TypeOK' /\ InductiveInv'
<1>1. /\ pc = "insert" /\ UNCHANGED <<m_arpRequests, tick, todo, ifaces, sent, up>>
      /\ insertArpEntry(Sender(frame)) /\ AfterInsert(frame)
  BY DEF Insert
<1>2. frame \in Frames /\ Sender(frame) \in Ips
  BY <1>1, HasFrame, FrameFields DEF InductiveInv
<1>3. m_cacheEntries' \in Seq(ArpEntry) /\ OneEntry' /\ AgeInv'
  BY <1>1, <1>2, InsertEntry DEF InductiveInv, InsertInv
<1>4. \/ pc' = "idle" /\ frame' = NoFrame
      \/ pc' = "pending" /\ frame' = frame /\ frame.kind = "arp_reply"
      \/ pc' = "route" /\ frame' = frame /\ frame.kind = "ip"
  BY <1>1 DEF AfterInsert, Done
<1>5. TypeOK'
  BY <1>1, <1>3, <1>4 DEF TypeOK, Steps
<1>6. FrameInv' /\ InsertInv' /\ ResetInv' /\ SentInv' /\ SentOnce'
  BY <1>1, <1>2, <1>4 DEF InductiveInv, FrameInv, InsertInv, ResetInv, SentInv, SentOnce
<1>7. PacketInv'
  BY <1>1, <1>4, SameRequests DEF InductiveInv, PacketInv, NoFrame
<1>. QED BY <1>1, <1>3, <1>5, <1>6, <1>7, SameRequests DEF InductiveInv

(* A packet is answered by the router itself. *)
LEMMA AnswerIcmpInv ==
  ASSUME TypeOK, InductiveInv, AnswerIcmp
  PROVE  TypeOK' /\ InductiveInv'
<1>1. /\ pc = "route" /\ UNCHANGED <<m_arpRequests, tick, todo, ifaces, sent, up>>
      /\ pc' = "idle" /\ frame' = NoFrame
  BY DEF AnswerIcmp, Done
<1>2. frame.pkt \in Packets /\ Src[frame.pkt] \in Ips
  BY <1>1, HasFrame, FrameFields, AddressAssumption DEF InductiveInv, FrameInv
<1>3. CASE UNCHANGED m_cacheEntries
  BY <1>1, <1>3, DoneInv DEF cacheVars, Done
<1>4. CASE ~lookup(Src[frame.pkt]) /\ insertArpEntry(Src[frame.pkt])
  <2>1. m_cacheEntries' \in Seq(ArpEntry) /\ OneEntry' /\ AgeInv'
    BY <1>1, <1>2, <1>4, InsertEntry DEF InductiveInv
  <2>2. TypeOK'
    BY <1>1, <2>1 DEF TypeOK, Steps
  <2>3. FrameInv' /\ InsertInv' /\ ResetInv' /\ SentInv' /\ SentOnce'
    BY <1>1 DEF InductiveInv, FrameInv, InsertInv, ResetInv, SentInv, SentOnce
  <2>4. PacketInv'
    BY <1>1, SameRequests DEF InductiveInv, PacketInv, NoFrame
  <2>. QED BY <1>1, <2>1, <2>2, <2>3, <2>4, SameRequests DEF InductiveInv
<1>. QED BY <1>3, <1>4 DEF AnswerIcmp

(* The destination is looked up. *)
LEMMA LookupDstInv ==
  ASSUME TypeOK, InductiveInv, LookupDst
  PROVE  TypeOK' /\ InductiveInv'
<1>1. /\ pc = "route" /\ UNCHANGED <<cacheVars, frame>>
      /\ pc' \in {"forward", "queue"}
      /\ Dst[frame.pkt] # NoIp
  BY DEF LookupDst
<1>2. frame.kind = "ip" /\ frame.pkt \in Packets /\ frame # NoFrame
  BY <1>1, HasFrame, FrameFields DEF InductiveInv, FrameInv
<1>3. TypeOK'
  BY <1>1, <1>2 DEF TypeOK, cacheVars, Steps
<1>4. FrameInv' /\ InsertInv' /\ ResetInv' /\ SentInv'
  BY <1>1, <1>2 DEF InductiveInv, FrameInv, InsertInv, ResetInv, SentInv, cacheVars
<1>5. PacketInv'
  BY <1>1, SameCache DEF InductiveInv, PacketInv, cacheVars
<1>. QED BY <1>1, <1>3, <1>4, <1>5, SameCache DEF InductiveInv

(* A packet is forwarded, dropped, or ends the process. *)
LEMMA ForwardInv ==
  ASSUME TypeOK, InductiveInv, Forward
  PROVE  TypeOK' /\ InductiveInv'
<1> DEFINE p0 == frame.pkt
<1>1. /\ pc = "forward" /\ UNCHANGED <<m_cacheEntries, m_arpRequests, tick, todo, ifaces>>
      /\ pc' = "idle" /\ frame' = NoFrame
  BY DEF Forward, Done
<1>2. p0 \in Packets /\ frame.kind = "ip"
  BY <1>1, HasFrame, FrameFields DEF InductiveInv, FrameInv
<1>3. up' \in BOOLEAN /\ (UNCHANGED sent \/ Transmit({p0}))
  BY DEF Forward, TypeOK
<1>4. sent[p0] = 0 /\ ~Queued(p0)
  BY <1>2 DEF InductiveInv, PacketInv
<1>5. /\ sent' \in [Packets -> Nat] /\ sent'[p0] \in {0, 1}
      /\ \A p \in Packets \ {p0} : sent'[p] = sent[p]
  <2>1. sent \in [Packets -> Nat]
    BY DEF TypeOK
  <2>. QED BY <1>2, <1>3, <1>4, <2>1 DEF Transmit
<1> HIDE DEF p0
<1>6. TypeOK'
  BY <1>1, <1>3, <1>5 DEF TypeOK, Steps
<1>7. FrameInv' /\ AgeInv' /\ InsertInv' /\ ResetInv' /\ OneEntry'
  BY <1>1 DEF InductiveInv, FrameInv, AgeInv, InsertInv, ResetInv, OneEntry
<1>8. SentOnce'
  BY <1>2, <1>5 DEF InductiveInv, SentOnce
<1>9. PacketInv'
  BY <1>1 DEF PacketInv, NoFrame
<1>10. SentInv'
  <2>1. \A k \in DOMAIN m_arpRequests : \A p \in ToSet(m_arpRequests[k].packets) :
          p \in Packets /\ p # p0
    BY <1>4, RequestFields DEF Queued, ToSet
  <2>. QED BY <1>1, <1>5, <2>1 DEF InductiveInv, SentInv
<1>. QED BY <1>1, <1>6, <1>7, <1>8, <1>9, <1>10, SameRequests DEF InductiveInv

(* A packet joins the queue. *)
LEMMA QueueRequestInv ==
  ASSUME TypeOK, QueueInv, OneRequest, NEW p \in Packets, Dst[p] \in Ips, ~Queued(p),
         queueRequest(Dst[p], p)
  PROVE  /\ m_arpRequests' \in Seq(ArpRequest) /\ QueueInv' /\ OneRequest'
         /\ \A k \in DOMAIN m_arpRequests' : \A q \in ToSet(m_arpRequests'[k].packets) :
              \/ q = p
              \/ \E j \in DOMAIN m_arpRequests : q \in ToSet(m_arpRequests[j].packets)
<1> DEFINE n == Len(m_arpRequests)
<1>0. m_arpRequests \in Seq(ArpRequest) /\ n \in Nat /\ DOMAIN m_arpRequests = 1..n
  BY DEF TypeOK
<1>1. CASE \E k \in RequestFor(Dst[p]) :
             m_arpRequests' = [m_arpRequests EXCEPT ![k].packets = Append(@, p)]
  <2>1. PICK k \in RequestFor(Dst[p]) :
          m_arpRequests' = [m_arpRequests EXCEPT ![k].packets = Append(@, p)]
    BY <1>1
  <2> DEFINE r == [m_arpRequests[k] EXCEPT !.packets = Append(@, p)]
             ps == m_arpRequests[k].packets
  <2>2. k \in 1..n /\ m_arpRequests[k].ip = Dst[p]
    BY <1>0 DEF RequestFor
  <2>3. m_arpRequests[k] \in ArpRequest /\ ps \in Seq(Packets)
    BY <1>0, <2>2, RequestFields
  <2>4. r \in ArpRequest /\ r.ip = Dst[p] /\ r.packets = Append(ps, p)
    BY <2>2, <2>3, AddPacket
  <2>5. /\ DOMAIN m_arpRequests' = 1..n
        /\ \A i \in 1..n : m_arpRequests'[i] = IF i = k THEN r ELSE m_arpRequests[i]
        /\ m_arpRequests' \in Seq(ArpRequest)
    BY <1>0, <2>1, <2>2, <2>4, ExceptSeq
  <2>6. /\ DOMAIN r.packets = 1..(Len(ps) + 1) /\ DOMAIN ps = 1..Len(ps) /\ Len(ps) \in Nat
        /\ \A i \in 1..Len(ps) : r.packets[i] = ps[i]
        /\ r.packets[Len(ps) + 1] = p
    BY <2>3, <2>4
  <2>7. \A i \in 1..Len(ps) : ps[i] # p
    BY <1>0, <2>2, <2>6 DEF Queued, ToSet
  <2>8. /\ \A i \in DOMAIN r.packets : Dst[r.packets[i]] = r.ip
        /\ \A i, j \in DOMAIN r.packets : r.packets[i] = r.packets[j] => i = j
    <3>1. /\ \A i \in DOMAIN ps : Dst[ps[i]] = Dst[p]
          /\ \A i, j \in DOMAIN ps : ps[i] = ps[j] => i = j
      BY <1>0, <2>2 DEF QueueInv
    <3> HIDE DEF r, ps
    <3>. QED BY <2>4, <2>6, <2>7, <3>1
  <2>9. ToSet(r.packets) \subseteq ToSet(ps) \cup {p}
    BY <2>6 DEF ToSet
  <2> HIDE DEF r, ps, n
  <2>10. QueueInv'
    BY <1>0, <2>5, <2>8 DEF QueueInv
  <2>11. OneRequest'
    BY <1>0, <2>2, <2>4, <2>5 DEF OneRequest
  <2>12. ASSUME NEW i \in DOMAIN m_arpRequests', NEW q \in ToSet(m_arpRequests'[i].packets)
         PROVE  q = p \/ \E j \in DOMAIN m_arpRequests : q \in ToSet(m_arpRequests[j].packets)
    <3>1. CASE i = k
      <4>1. q \in ToSet(ps) \cup {p}
        BY <2>2, <2>5, <2>9, <3>1
      <4>. QED BY <1>0, <2>2, <4>1 DEF ps
    <3>2. CASE i # k
      BY <1>0, <2>5, <3>2
    <3>. QED BY <3>1, <3>2
  <2>. QED BY <2>5, <2>10, <2>11, <2>12
<1>2. CASE /\ RequestFor(Dst[p]) = {}
           /\ m_arpRequests' = Append(m_arpRequests, [ip |-> Dst[p], nTimesSent |-> 0, packets |-> <<p>>])
  <2> DEFINE r == [ip |-> Dst[p], nTimesSent |-> 0, packets |-> <<p>>]
  <2>1. <<p>> \in Seq(Packets) /\ DOMAIN <<p>> = {1} /\ <<p>>[1] = p /\ ToSet(<<p>>) = {p}
    BY DEF ToSet
  <2>2. r \in ArpRequest /\ r.ip = Dst[p] /\ r.packets = <<p>>
    BY <2>1, TimesAssumption DEF ArpRequest
  <2> HIDE DEF r
  <2>3. /\ m_arpRequests' \in Seq(ArpRequest) /\ DOMAIN m_arpRequests' = 1..(n + 1)
        /\ \A i \in 1..n : m_arpRequests'[i] = m_arpRequests[i]
        /\ m_arpRequests'[n + 1] = r
    BY <1>0, <1>2, <2>2 DEF r
  <2> HIDE DEF n
  <2>4. \A i \in 1..n : m_arpRequests[i].ip # Dst[p]
    BY <1>0, <1>2 DEF RequestFor
  <2>5. QueueInv'
    <3>1. /\ \A i \in DOMAIN r.packets : Dst[r.packets[i]] = r.ip
          /\ \A i, j \in DOMAIN r.packets : r.packets[i] = r.packets[j] => i = j
      BY <2>1, <2>2
    <3>. QED BY <1>0, <2>3, <3>1 DEF QueueInv
  <2>6. OneRequest'
    BY <1>0, <2>2, <2>3, <2>4 DEF OneRequest
  <2>7. ASSUME NEW i \in DOMAIN m_arpRequests', NEW q \in ToSet(m_arpRequests'[i].packets)
        PROVE  q = p \/ \E j \in DOMAIN m_arpRequests : q \in ToSet(m_arpRequests[j].packets)
    <3>1. CASE i = n + 1
      BY <2>1, <2>2, <2>3, <3>1
    <3>2. CASE i \in 1..n
      BY <1>0, <2>3, <3>2
    <3>. QED BY <1>0, <2>3, <3>1, <3>2
  <2>. QED BY <2>3, <2>5, <2>6, <2>7
<1>. QED BY <1>1, <1>2 DEF queueRequest

(* The handler queues its packet, or ends the process. *)
LEMMA QueueStepInv ==
  ASSUME TypeOK, InductiveInv, Queue
  PROVE  TypeOK' /\ InductiveInv'
<1> DEFINE p0 == frame.pkt
<1>1. /\ pc = "queue" /\ UNCHANGED <<m_cacheEntries, tick, todo, ifaces, sent>>
      /\ pc' = "idle" /\ frame' = NoFrame
  BY DEF Queue, Done
<1>2. p0 \in Packets /\ frame.kind = "ip" /\ Dst[p0] \in Ips
  BY <1>1, HasFrame, FrameFields, AddressAssumption DEF InductiveInv, FrameInv
<1>3. sent[p0] = 0 /\ ~Queued(p0)
  BY <1>2 DEF InductiveInv, PacketInv
<1>4. /\ m_arpRequests' \in Seq(ArpRequest) /\ QueueInv' /\ OneRequest' /\ up' \in BOOLEAN
      /\ \A k \in DOMAIN m_arpRequests' : \A q \in ToSet(m_arpRequests'[k].packets) :
            \/ q = p0
            \/ \E j \in DOMAIN m_arpRequests : q \in ToSet(m_arpRequests[j].packets)
  <2>1. CASE queueRequest(Dst[p0], p0) /\ UNCHANGED up
    <3>1. QueueInv /\ OneRequest /\ up' \in BOOLEAN
      BY <2>1 DEF InductiveInv, TypeOK
    <3>. QED BY <1>2, <1>3, <2>1, <3>1, QueueRequestInv
  <2>2. CASE up' = FALSE /\ UNCHANGED m_arpRequests
    BY <2>2, SameRequests DEF TypeOK
  <2>. QED BY <2>1, <2>2 DEF Queue
<1> HIDE DEF p0
<1>5. TypeOK'
  BY <1>1, <1>4 DEF TypeOK, Steps
<1>6. FrameInv' /\ AgeInv' /\ InsertInv' /\ OneEntry' /\ SentOnce'
  BY <1>1 DEF InductiveInv, FrameInv, AgeInv, InsertInv, OneEntry, SentOnce
<1>7. ResetInv'
  BY <1>1 DEF InductiveInv, ResetInv
<1>8. PacketInv'
  BY <1>1 DEF PacketInv, NoFrame
<1>9. SentInv'
  BY <1>1, <1>3, <1>4 DEF InductiveInv, SentInv
<1>. QED BY <1>4, <1>5, <1>6, <1>7, <1>8, <1>9 DEF InductiveInv

(***************************************************************************)
(* The packets that wait for the address of a reply are sent: each of them *)
(* was unsent, and no other request holds it.                              *)
(***************************************************************************)
LEMMA SendPendingInv ==
  ASSUME TypeOK, InductiveInv, SendPending
  PROVE  TypeOK' /\ InductiveInv'
<1>1. pc = "pending" /\ UNCHANGED <<m_cacheEntries, m_arpRequests, tick, todo, ifaces, up>>
  BY DEF SendPending
<1>2. CASE Done /\ UNCHANGED sent
  BY <1>1, <1>2, DoneInv DEF cacheVars
<1>3. CASE Transmit(Pending(frame.ip)) /\ pc' = "remove" /\ UNCHANGED frame
  <2> DEFINE P == Pending(frame.ip)
  <2>1. ASSUME NEW p \in P PROVE p \in Packets /\ sent[p] = 0 /\ Queued(p)
    <3>1. PICK k \in DOMAIN m_arpRequests : p \in ToSet(m_arpRequests[k].packets)
      BY <2>1 DEF Pending, RequestFor
    <3>2. sent[p] = 0
      BY <1>1, <3>1 DEF InductiveInv, SentInv
    <3>3. p \in Packets
      BY <3>1, RequestFields DEF ToSet
    <3>. QED BY <3>1, <3>2, <3>3 DEF Queued
  <2>2. ASSUME NEW k \in DOMAIN m_arpRequests, NEW p \in ToSet(m_arpRequests[k].packets)
        PROVE  p \in Packets /\ (p \in P <=> m_arpRequests[k].ip = frame.ip)
    <3>1. p \in Packets
      BY RequestFields DEF ToSet
    <3>2. ASSUME m_arpRequests[k].ip = frame.ip PROVE p \in P
      BY <3>2 DEF Pending, RequestFor
    <3>3. ASSUME p \in P PROVE m_arpRequests[k].ip = frame.ip
      <4>1. PICK j \in DOMAIN m_arpRequests :
              m_arpRequests[j].ip = frame.ip /\ p \in ToSet(m_arpRequests[j].packets)
        BY <3>3 DEF Pending, RequestFor
      <4>2. Dst[p] = m_arpRequests[j].ip /\ Dst[p] = m_arpRequests[k].ip
        BY <4>1 DEF InductiveInv, QueueInv, ToSet
      <4>. QED BY <4>1, <4>2
    <3>. QED BY <3>1, <3>2, <3>3
  <2> HIDE DEF P
  <2>3. sent \in [Packets -> Nat] /\ sent' = [p \in Packets |-> IF p \in P THEN sent[p] + 1 ELSE sent[p]]
    BY <1>3 DEF TypeOK, Transmit, P
  <2>4. sent' \in [Packets -> Nat] /\ \A p \in Packets : sent'[p] = IF p \in P THEN 1 ELSE sent[p]
    BY <2>1, <2>3
  <2>5. TypeOK'
    BY <1>1, <1>3, <2>4 DEF TypeOK, Steps
  <2>6. FrameInv' /\ AgeInv' /\ InsertInv' /\ ResetInv' /\ OneEntry'
    BY <1>1, <1>3 DEF InductiveInv, FrameInv, AgeInv, InsertInv, ResetInv, OneEntry
  <2>7. SentOnce'
    BY <2>4 DEF InductiveInv, SentOnce
  <2>8. PacketInv'
    <3>1. frame.kind = "arp_reply"
      BY <1>1 DEF InductiveInv, FrameInv
    <3>. QED BY <1>3, <3>1 DEF PacketInv
  <2>9. SentInv'
    BY <1>1, <1>3, <2>2, <2>4 DEF InductiveInv, SentInv
  <2>. QED BY <1>1, <2>5, <2>6, <2>7, <2>8, <2>9, SameRequests DEF InductiveInv
<1>. QED BY <1>2, <1>3 DEF SendPending

(* Nothing for the address is queued once its request has been removed. *)
LEMMA RemovedAll ==
  ASSUME TypeOK, OneRequest, NEW k \in DOMAIN m_arpRequests, remove(k)
  PROVE  \A i \in DOMAIN m_arpRequests' : \E j \in DOMAIN m_arpRequests \ {k} :
            m_arpRequests'[i] = m_arpRequests[j] /\ m_arpRequests[j].ip # m_arpRequests[k].ip
<1>1. m_arpRequests \in Seq(ArpRequest)
  BY DEF TypeOK
<1>2. \A i \in DOMAIN m_arpRequests' : \E j \in DOMAIN m_arpRequests \ {k} :
        m_arpRequests'[i] = m_arpRequests[j]
  BY <1>1, RemoveAtThins DEF remove
<1>. QED BY <1>2 DEF OneRequest

(* The request whose packets were sent is removed. *)
LEMMA RemoveRequestInv ==
  ASSUME TypeOK, InductiveInv, RemoveRequest
  PROVE  TypeOK' /\ InductiveInv'
<1>1. /\ pc = "remove" /\ UNCHANGED <<m_cacheEntries, tick, todo, ifaces, sent, up>>
      /\ pc' = "idle" /\ frame' = NoFrame
  BY DEF RemoveRequest, Done
<1>2. /\ m_arpRequests' \in Seq(ArpRequest) /\ QueueInv' /\ OneRequest'
      /\ \A p : Queued(p)' => Queued(p)
      /\ \A i \in DOMAIN m_arpRequests' : \E j \in DOMAIN m_arpRequests :
            m_arpRequests'[i] = m_arpRequests[j] /\ m_arpRequests[j].ip # frame.ip
  <2>1. CASE \E k \in RequestFor(frame.ip) : remove(k)
    <3>1. PICK k \in DOMAIN m_arpRequests : m_arpRequests[k].ip = frame.ip /\ remove(k)
      BY <2>1 DEF RequestFor
    <3>2. OneRequest
      BY DEF InductiveInv
    <3>. QED BY <3>1, <3>2, RemoveInv, RemovedAll
  <2>2. CASE RequestFor(frame.ip) = {} /\ UNCHANGED m_arpRequests
    BY <2>2, SameRequests DEF TypeOK, RequestFor
  <2>. QED BY <2>1, <2>2 DEF RemoveRequest
<1>3. TypeOK'
  BY <1>1, <1>2 DEF TypeOK, Steps
<1>4. FrameInv' /\ AgeInv' /\ InsertInv' /\ OneEntry' /\ SentOnce'
  BY <1>1 DEF InductiveInv, FrameInv, AgeInv, InsertInv, OneEntry, SentOnce
<1>5. ResetInv'
  BY <1>1 DEF InductiveInv, ResetInv
<1>6. PacketInv'
  BY <1>1 DEF PacketInv, NoFrame
<1>7. SentInv'
  BY <1>1, <1>2 DEF InductiveInv, SentInv
<1>. QED BY <1>2, <1>3, <1>4, <1>5, <1>6, <1>7 DEF InductiveInv

(* The cache is cleared. *)
LEMMA ResetStepInv ==
  ASSUME TypeOK, InductiveInv, Reset
  PROVE  TypeOK' /\ InductiveInv'
<1>1. /\ pc = "idle" /\ pc' = "clear" /\ UNCHANGED <<tick, todo, ifaces, sent, up, frame>>
      /\ m_cacheEntries' = <<>> /\ m_arpRequests' = <<>>
  BY DEF Reset, clear
<1>2. TypeOK'
  <2>1. <<>> \in Seq(ArpEntry) /\ <<>> \in Seq(ArpRequest)
    OBVIOUS
  <2>. QED BY <1>1, <2>1 DEF TypeOK, Steps
<1>3. FrameInv' /\ AgeInv' /\ InsertInv' /\ QueueInv' /\ SentInv'
  BY <1>1 DEF InductiveInv, FrameInv, AgeInv, InsertInv, QueueInv, SentInv
<1>4. ResetInv'
  BY <1>1 DEF InductiveInv, ResetInv
<1>5. PacketInv'
  BY <1>1 DEF InductiveInv, FrameInv, PacketInv, NoFrame
<1>6. OneEntry' /\ OneRequest' /\ SentOnce'
  BY <1>1 DEF InductiveInv, OneEntry, OneRequest, SentOnce
<1>. QED BY <1>2, <1>3, <1>4, <1>5, <1>6 DEF InductiveInv

(* The interfaces go, when no request is left, and come back. *)
LEMMA ResetIfacesInv ==
  ASSUME TypeOK, InductiveInv, ClearIfaces \/ ResetIfaces
  PROVE  TypeOK' /\ InductiveInv'
<1>1. /\ \/ pc = "clear" /\ pc' = "reset" /\ ifaces' = FALSE
         \/ pc = "reset" /\ pc' = "idle" /\ ifaces' = TRUE
      /\ UNCHANGED <<m_cacheEntries, m_arpRequests, tick, todo, sent, up, frame>>
  BY DEF ClearIfaces, ResetIfaces
<1>2. TypeOK'
  BY <1>1 DEF TypeOK, Steps
<1>3. FrameInv' /\ AgeInv' /\ InsertInv' /\ SentInv' /\ OneEntry' /\ SentOnce'
  BY <1>1 DEF InductiveInv, FrameInv, AgeInv, InsertInv, SentInv, OneEntry, SentOnce
<1>4. ResetInv'
  BY <1>1 DEF InductiveInv, ResetInv
<1>5. PacketInv'
  BY <1>1, SameRequests DEF InductiveInv, PacketInv
<1>. QED BY <1>1, <1>2, <1>3, <1>4, <1>5, SameRequests DEF InductiveInv

(* A data race ends the process. *)
LEMMA RaceInv ==
  ASSUME TypeOK, InductiveInv, Race
  PROVE  TypeOK' /\ InductiveInv'
<1>1. /\ UNCHANGED <<m_cacheEntries, m_arpRequests, tick, todo, ifaces, sent, pc, frame>>
      /\ up' = FALSE
  BY DEF Race, handlerVars
<1>2. TypeOK'
  BY <1>1 DEF TypeOK
<1>3. FrameInv' /\ AgeInv' /\ InsertInv' /\ ResetInv' /\ SentInv' /\ OneEntry' /\ SentOnce'
  BY <1>1 DEF InductiveInv, FrameInv, AgeInv, InsertInv, ResetInv, SentInv, OneEntry, SentOnce, lookup
<1>4. PacketInv'
  BY <1>1, SameRequests DEF InductiveInv, PacketInv, NoFrame
<1>. QED BY <1>1, <1>2, <1>3, <1>4, SameRequests DEF InductiveInv

(* Every step of the router keeps the invariant. *)
LEMMA NextInv ==
  ASSUME TypeOK, InductiveInv, [Next]_vars
  PROVE  TypeOK' /\ InductiveInv'
<1>1. CASE UNCHANGED vars
  <2>1. TypeOK'
    BY <1>1 DEF TypeOK, vars, cacheVars, handlerVars
  <2>2. UNCHANGED cacheVars
    BY <1>1 DEF vars
  <2>3. FrameInv' /\ InsertInv' /\ ResetInv' /\ PacketInv' /\ SentInv'
    BY <1>1, <2>2, SameCache DEF InductiveInv, FrameInv, InsertInv, ResetInv, PacketInv, SentInv,
       lookup, vars, cacheVars, handlerVars
  <2>. QED BY <2>1, <2>2, <2>3, SameCache DEF InductiveInv
<1>2. CASE Ticker
  BY <1>2, WakeInv, CheckRequestInv, CheckRemovedInv, SweepInv DEF Ticker
<1>3. CASE Handler
  <2>1. ASSUME NEW f \in Frames, RecvArp(f) \/ RecvIp(f)
        PROVE  TypeOK' /\ InductiveInv'
    BY <2>1, RecvArpInv, RecvIpInv
  <2>2. CASE Known \/ Insert \/ AnswerIcmp \/ LookupDst \/ Forward \/ Queue
    BY <2>2, KnownInv, InsertStepInv, AnswerIcmpInv, LookupDstInv, ForwardInv, QueueStepInv
  <2>3. CASE SendPending \/ RemoveRequest \/ Reset \/ ClearIfaces \/ ResetIfaces
    BY <2>3, SendPendingInv, RemoveRequestInv, ResetStepInv, ResetIfacesInv
  <2>. QED BY <1>3, <2>1, <2>2, <2>3 DEF Handler
<1>4. CASE Race
  BY <1>4, RaceInv
<1>. QED BY <1>1, <1>2, <1>3, <1>4 DEF Next

(* The invariant holds in every reachable state. *)
THEOREM RouterInvariant == Spec => [](TypeOK /\ InductiveInv)
BY InitInv, NextInv, PTL DEF Spec

(* Every variable of the router keeps its type: no count or age leaves its range. *)
THEOREM RouterTypes == Spec => []TypeOK
BY RouterInvariant, PTL

(* The cache never holds two valid entries for an address. *)
THEOREM OneEntryHolds == Spec => []OneEntry
<1>1. InductiveInv => OneEntry
  BY DEF InductiveInv
<1>. QED BY <1>1, RouterInvariant, PTL

(* No address ever has two requests. *)
THEOREM OneRequestHolds == Spec => []OneRequest
<1>1. InductiveInv => OneRequest
  BY DEF InductiveInv
<1>. QED BY <1>1, RouterInvariant, PTL

(* There is no request for the ticker to send while the interfaces are missing. *)
THEOREM IfacesForRequestsHolds == Spec => []IfacesForRequests
<1>1. InductiveInv => IfacesForRequests
  BY DEF InductiveInv, ResetInv, IfacesForRequests
<1>. QED BY <1>1, RouterInvariant, PTL

(* No packet leaves the router twice. *)
THEOREM SentOnceHolds == Spec => []SentOnce
<1>1. InductiveInv => SentOnce
  BY DEF InductiveInv
<1>. QED BY <1>1, RouterInvariant, PTL

-----------------------------------------------------------------------------
(* What leaves the queue. *)

(* A packet's tries are those of the one request that holds it. *)
LEMMA TriesOfRequest ==
  ASSUME QueueInv, OneRequest, NEW p, NEW k \in DOMAIN m_arpRequests,
         p \in ToSet(m_arpRequests[k].packets)
  PROVE  Tries(p) = m_arpRequests[k].nTimesSent
<1>1. \A j \in DOMAIN m_arpRequests : p \in ToSet(m_arpRequests[j].packets) => j = k
  BY DEF QueueInv, OneRequest, ToSet
<1>2. (CHOOSE j \in DOMAIN m_arpRequests : p \in ToSet(m_arpRequests[j].packets)) = k
  BY <1>1
<1>. QED BY <1>2 DEF Tries

(* A packet that leaves the queue with a removal was in the request removed. *)
LEMMA RemovedPacket ==
  ASSUME TypeOK, NEW k \in DOMAIN m_arpRequests, remove(k), NEW p, Queued(p), ~Queued(p)'
  PROVE  p \in ToSet(m_arpRequests[k].packets)
<1>1. m_arpRequests \in Seq(ArpRequest)
  BY DEF TypeOK
<1>2. \A j \in DOMAIN m_arpRequests \ {k} : \E i \in DOMAIN m_arpRequests' :
        m_arpRequests'[i] = m_arpRequests[j]
  BY <1>1, RemoveAtThins DEF remove
<1>. QED BY <1>2 DEF Queued

(* A packet that joins the queue drives none out. *)
LEMMA QueueKeeps ==
  ASSUME TypeOK, NEW q \in Packets, queueRequest(Dst[q], q), Dst[q] \in Ips, NEW p, Queued(p)
  PROVE  Queued(p)'
<1>1. PICK j \in DOMAIN m_arpRequests : p \in ToSet(m_arpRequests[j].packets)
  BY DEF Queued
<1>2. m_arpRequests \in Seq(ArpRequest) /\ DOMAIN m_arpRequests = 1..Len(m_arpRequests)
  BY DEF TypeOK
<1>3. CASE \E k \in RequestFor(Dst[q]) :
             m_arpRequests' = [m_arpRequests EXCEPT ![k].packets = Append(@, q)]
  <2>1. PICK k \in RequestFor(Dst[q]) :
          m_arpRequests' = [m_arpRequests EXCEPT ![k].packets = Append(@, q)]
    BY <1>3
  <2> DEFINE r == [m_arpRequests[k] EXCEPT !.packets = Append(@, q)]
             ps == m_arpRequests[k].packets
  <2>2. k \in DOMAIN m_arpRequests
    BY DEF RequestFor
  <2>3. ps \in Seq(Packets) /\ r.packets = Append(ps, q)
    BY <2>2, RequestFields, AddPacket
  <2>4. ToSet(ps) \subseteq ToSet(r.packets)
    BY <2>3 DEF ToSet
  <2>5. /\ DOMAIN m_arpRequests' = DOMAIN m_arpRequests
        /\ m_arpRequests'[j] = IF j = k THEN r ELSE m_arpRequests[j]
    BY <1>2, <2>1, <2>2
  <2> HIDE DEF r
  <2>6. p \in ToSet(m_arpRequests'[j].packets)
    BY <1>1, <2>4, <2>5
  <2>. QED BY <2>5, <2>6 DEF Queued
<1>4. CASE m_arpRequests' = Append(m_arpRequests, [ip |-> Dst[q], nTimesSent |-> 0, packets |-> <<q>>])
  <2>1. j \in DOMAIN m_arpRequests' /\ m_arpRequests'[j] = m_arpRequests[j]
    BY <1>2, <1>4
  <2>. QED BY <1>1, <2>1 DEF Queued
<1>. QED BY <1>3, <1>4 DEF queueRequest

(* A step that takes a packet from the queue has a reason. *)
LEMMA DropStep ==
  ASSUME TypeOK, InductiveInv, Next, NEW p \in Packets, Queued(p), ~Queued(p)'
  PROVE  sent[p] = 1 \/ Tries(p) = MAX_SENT_TIME \/ pc' = "clear"
<1>1. ~UNCHANGED m_arpRequests
  BY DEF Queued
<1>2. CheckRequest \/ Queue \/ RemoveRequest \/ Reset
  BY <1>1 DEF Next, Ticker, Handler, Race, Wake, CheckRemoved, Sweep, RecvArp, RecvIp, Known, Insert,
     AnswerIcmp, LookupDst, Forward, SendPending, ClearIfaces, ResetIfaces, cacheVars
<1>3. CASE CheckRequest
  <2>1. PICK k \in DOMAIN m_arpRequests : handleArpRequest(k)
    BY <1>3 DEF CheckRequest, RequestFor
  <2>2. CASE Expired(k) /\ remove(k)
    <3>1. p \in ToSet(m_arpRequests[k].packets)
      BY <2>2, RemovedPacket
    <3>2. Tries(p) = m_arpRequests[k].nTimesSent
      BY <3>1, TriesOfRequest DEF InductiveInv
    <3>3. m_arpRequests[k].nTimesSent = MAX_SENT_TIME
      BY <2>2, RequestFields, TimesAssumption DEF Expired
    <3>. QED BY <3>2, <3>3
  <2>3. CASE m_arpRequests' = [m_arpRequests EXCEPT ![k].nTimesSent = @ + 1]
    <3>1. m_arpRequests[k] \in ArpRequest
      BY RequestFields
    <3>2. [m_arpRequests[k] EXCEPT !.nTimesSent = @ + 1].packets = m_arpRequests[k].packets
      BY <3>1 DEF ArpRequest
    <3>3. /\ DOMAIN m_arpRequests' = DOMAIN m_arpRequests
          /\ \A j \in DOMAIN m_arpRequests : m_arpRequests'[j].packets = m_arpRequests[j].packets
      BY <2>3, <3>2 DEF TypeOK
    <3>. QED BY <3>3 DEF Queued
  <2>. QED BY <1>1, <2>1, <2>2, <2>3 DEF handleArpRequest
<1>4. CASE Queue
  <2>1. frame.pkt \in Packets /\ Dst[frame.pkt] \in Ips
    BY <1>4, HasFrame, FrameFields, AddressAssumption DEF Queue, InductiveInv, FrameInv
  <2>2. queueRequest(Dst[frame.pkt], frame.pkt)
    BY <1>1, <1>4 DEF Queue
  <2>. QED BY <2>1, <2>2, QueueKeeps
<1>5. CASE RemoveRequest
  <2>1. PICK k \in DOMAIN m_arpRequests : m_arpRequests[k].ip = frame.ip /\ remove(k)
    BY <1>1, <1>5 DEF RemoveRequest, RequestFor
  <2>2. p \in ToSet(m_arpRequests[k].packets)
    BY <2>1, RemovedPacket
  <2>3. sent[p] = 1
    BY <1>5, <2>1, <2>2 DEF RemoveRequest, InductiveInv, SentInv
  <2>. QED BY <2>3
<1>6. CASE Reset
  BY <1>6 DEF Reset
<1>. QED BY <1>2, <1>3, <1>4, <1>5, <1>6

(***************************************************************************)
(* A packet leaves the queue unsent only when its request was sent         *)
(* MAX_SENT_TIME times, or with a reset.                                   *)
(***************************************************************************)
THEOREM TriedBeforeDropHolds == Spec => TriedBeforeDrop
<1> DEFINE Explained == \A p \in Packets : Queued(p) /\ ~Queued(p)'
              => sent[p] = 1 \/ Tries(p) = MAX_SENT_TIME \/ pc' = "clear"
<1>1. TypeOK /\ InductiveInv /\ [Next]_vars => [Explained]_vars
  BY DropStep
<1>2. Spec => [][Explained]_vars
  <2> HIDE DEF Explained
  <2>. QED BY <1>1, RouterInvariant, PTL DEF Spec
<1>. QED BY <1>2 DEF TriedBeforeDrop
=============================================================================
