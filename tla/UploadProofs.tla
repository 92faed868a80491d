---------------------------- MODULE UploadProofs ----------------------------
(***************************************************************************)
(* Theorems about the upload server and its clients, for any number of     *)
(* clients, any files, blocks, queues and descriptor limits.  TypeOK and   *)
(* InductiveInv are proved inductive together, one lemma for each step of  *)
(* main, of a thread, of a client and of the network.                      *)
(***************************************************************************)
EXTENDS UploadInv, SequenceTheorems, FiniteSetTheorems, WellFoundedInduction, TLAPS

-----------------------------------------------------------------------------
(* Numbers. *)

(* A set of naturals that is not empty has a least element, which is its Min. *)
LEMMA LeastNatural ==
  ASSUME NEW S \in SUBSET Nat, S # {}
  PROVE  Min(S) \in S
<1> DEFINE R == {ss \in Nat \X Nat : ss[1] < ss[2]}
<1>1. IsWellFoundedOn(R, Nat)
  BY NatLessThanWellFounded, Zenon DEF OpToRel
<1>2. \E x \in S : \A y \in S : ~(<<y, x>> \in R)
  <2> HIDE DEF R
  <2>. QED BY <1>1, WFMin
<1>3. \A x, y \in Nat : <<y, x>> \in R <=> y < x
  OBVIOUS
<1> HIDE DEF R
<1>4. \E x \in S : \A y \in S : x <= y
  <2>1. PICK x \in S : \A y \in S : ~(<<y, x>> \in R)
    BY <1>2
  <2>2. \A y \in S : ~(y < x)
    BY <1>3, <2>1
  <2>. QED BY <2>2
<1>. QED BY <1>4 DEF Min

(* The lesser of two numbers. *)
LEMMA MinOfTwo ==
  ASSUME NEW a \in Int, NEW b \in Int
  PROVE  Min({a, b}) = IF a <= b THEN a ELSE b
<1>1. \E x \in {a, b} : \A y \in {a, b} : x <= y
  OBVIOUS
<1>2. Min({a, b}) \in {a, b} /\ \A y \in {a, b} : Min({a, b}) <= y
  BY <1>1 DEF Min
<1>. QED BY <1>2

(* The greater of two numbers. *)
LEMMA MaxOfTwo ==
  ASSUME NEW a \in Int, NEW b \in Int
  PROVE  Max({a, b}) = IF a >= b THEN a ELSE b
<1>1. \E x \in {a, b} : \A y \in {a, b} : x >= y
  OBVIOUS
<1>2. Max({a, b}) \in {a, b} /\ \A y \in {a, b} : Max({a, b}) >= y
  BY <1>1 DEF Max
<1>. QED BY <1>2

(* There are as many threads as clients. *)
LEMMA ThreadsType == Cardinality(Clients) \in Nat /\ Threads = 1..Cardinality(Clients)
BY TcpAssumption, FS_CardinalityType DEF Threads

-----------------------------------------------------------------------------
(* Descriptors, connections and files. *)

(* A list of accepted connections of different clients is no longer than the clients are many. *)
LEMMA DistinctClients ==
  ASSUME NEW F, NEW s \in Seq([client : Clients, fd : F]),
         \A i, j \in DOMAIN s : s[i].client = s[j].client => i = j
  PROVE  Len(s) <= Cardinality(Clients) /\ DOMAIN s \subseteq Threads
<1> DEFINE f == [i \in 1..Len(s) |-> s[i].client]
<1>1. Len(s) \in Nat /\ DOMAIN s = 1..Len(s) /\ \A i \in 1..Len(s) : s[i].client \in Clients
  <2>1. \A i \in 1..Len(s) : s[i] \in [client : Clients, fd : F]
    BY ElementOfSeq
  <2>. QED BY <2>1, LenProperties
<1>2. f \in Injection(1..Len(s), Clients)
  BY <1>1 DEF Injection, IsInjective
<1>3. Cardinality(1..Len(s)) = Len(s)
  <2> HIDE DEF f
  <2>1. PICK n \in Nat : n = Len(s)
    BY <1>1
  <2>2. Cardinality(1..n) = IF 1 > n THEN 0 ELSE (n - 1) + 1
    BY FS_Interval
  <2>3. Cardinality(1..n) = n
    BY <2>2
  <2>. QED BY <2>1, <2>3
<1> HIDE DEF f
<1>4. Cardinality(1..Len(s)) <= Cardinality(Clients)
  BY <1>2, TcpAssumption, FS_Injection
<1>. QED BY <1>1, <1>3, <1>4, ThreadsType

(* Descriptors are numbered from 1. *)
LEMMA FdsType ==
  ASSUME TypeOK
  PROVE  /\ Fds \subseteq Nat \ {0} /\ IsFiniteSet(Fds)
         /\ fds \in [Fds -> Clients \cup {Free}]
<1>1. PICK n \in FdLimits : fds \in [1..n -> Clients \cup {Free}]
  BY DEF TypeOK
<1>2. n \in Nat
  BY FdAssumption
<1>. QED BY <1>1, <1>2, FS_Interval DEF Fds

(* A descriptor is assigned or freed. *)
LEMMA SetFd ==
  ASSUME TypeOK, NEW f \in Fds, NEW x \in Clients \cup {Free}, fds' = [fds EXCEPT ![f] = x]
  PROVE  /\ \E n \in FdLimits : fds' \in [1..n -> Clients \cup {Free}]
         /\ Fds' = Fds
         /\ \A g \in Fds : fds'[g] = IF g = f THEN x ELSE fds[g]
<1>1. PICK n \in FdLimits : fds \in [1..n -> Clients \cup {Free}]
  BY DEF TypeOK
<1>2. fds' \in [1..n -> Clients \cup {Free}]
  BY <1>1 DEF Fds
<1>. QED BY <1>1, <1>2 DEF Fds

(* A connection that was accepted. *)
LEMMA AcceptedFields ==
  ASSUME TypeOK, NEW t \in DOMAIN accepted
  PROVE  accepted[t].client \in Clients /\ accepted[t].fd \in Fds
<1>1. accepted[t] \in [client : Clients, fd : Fds]
  <2>1. accepted \in Seq([client : Clients, fd : Fds])
    BY DEF TypeOK
  <2>. QED BY <2>1, ElementOfSeq, LenProperties
<1>. QED BY <1>1

(* The numbers of the threads that were started, and of the connections accepted. *)
LEMMA AcceptedThreads ==
  ASSUME TypeOK, InductiveInv
  PROVE  /\ Len(accepted) \in Nat /\ DOMAIN accepted = 1..Len(accepted)
         /\ Len(accepted) <= Cardinality(Clients) /\ DOMAIN accepted \subseteq Threads
         /\ connection_num \in Nat /\ connection_num <= Len(accepted)
         /\ \A t \in Threads : tpc[t] # "none" => t \in DOMAIN accepted /\ connection_num \in Threads
<1>1. /\ Len(accepted) \in Nat /\ DOMAIN accepted = 1..Len(accepted)
      /\ Len(accepted) <= Cardinality(Clients) /\ DOMAIN accepted \subseteq Threads
  <2>1. accepted \in Seq([client : Clients, fd : Fds])
    BY DEF TypeOK
  <2>2. Len(accepted) <= Cardinality(Clients) /\ DOMAIN accepted \subseteq Threads
    BY <2>1, DistinctClients DEF InductiveInv, ConnectionInv
  <2>. QED BY <2>1, <2>2
<1>2. connection_num \in Nat /\ connection_num <= Len(accepted)
  <2>1. connection_num = Len(accepted) \/ connection_num = Len(accepted) - 1
    BY DEF InductiveInv, MainInv
  <2>2. connection_num \in 0..Cardinality(Clients)
    BY DEF TypeOK
  <2>3. connection_num \in Nat
    BY <2>2, ThreadsType
  <2>4. Len(accepted) \in Nat
    BY <1>1
  <2>. QED BY <2>1, <2>3, <2>4
<1>3. \A t \in Threads : tpc[t] # "none" => t \in DOMAIN accepted /\ connection_num \in Threads
  <2>1. \A t \in Threads : tpc[t] # "none" => t <= connection_num
    BY DEF InductiveInv, MainInv
  <2>. QED BY <1>1, <1>2, <2>1, ThreadsType
<1>. QED BY <1>1, <1>2, <1>3

(* While no thread was overtaken, a thread past its start has what was meant for it. *)
LEMMA OwnThread ==
  ASSUME TypeOK, InductiveInv, ~Raced, NEW t \in Threads, tpc[t] \notin {"none", "name", "sock"}
  PROVE  /\ t \in DOMAIN accepted /\ ServesOwn(t)
         /\ num[t] = t /\ sock[t] = accepted[t].fd /\ sock[t] \in Fds
         /\ accepted[t].client \in Clients /\ accepted[t].client # Free
         /\ tpc[t] \notin {"reopen", "ended"} => Peer(t) = accepted[t].client
<1>1. t \in DOMAIN accepted
  BY AcceptedThreads
<1>2. ServesOwn(t)
  BY <1>1 DEF InductiveInv, OwnInv
<1>3. num[t] # 0 /\ sock[t] \in Fds /\ sock[t] # 0
  BY ThreadsType, FdsType DEF InductiveInv, ThreadInv
<1>4. num[t] = t /\ sock[t] = accepted[t].fd
  BY <1>3 DEF Raced
<1>5. accepted[t].client \in Clients /\ accepted[t].client # Free
  BY <1>1, AcceptedFields, FdAssumption
<1>6. tpc[t] \notin {"reopen", "ended"} => Peer(t) = accepted[t].client
  BY <1>2, <1>4 DEF ServesOwn, Peer
<1>. QED BY <1>1, <1>2, <1>3, <1>4, <1>5, <1>6

(* The file with nothing in it, and its length. *)
LEMMA FileFacts ==
  ASSUME NEW c \in Clients, NEW n \in Nat
  PROVE  /\ File(c, n) \in Seq(Bytes \cup {Error, Hole}) /\ Len(File(c, n)) = n
         /\ File(c, 0) = <<>>
         /\ \A i \in 1..n : File(c, n)[i] = <<c, i>>
<1>1. File(c, n) \in [1..n -> Bytes \cup {Error, Hole}]
  BY DEF File, Bytes
<1>2. File(c, n) \in Seq(Bytes \cup {Error, Hole}) /\ DOMAIN File(c, n) = 1..n
  BY <1>1, SeqDef
<1>3. File(c, 0) = <<>>
  BY DEF File
<1>. QED BY <1>2, <1>3 DEF File

-----------------------------------------------------------------------------
(* The initial states satisfy the invariant. *)
LEMMA InitInv == Init => TypeOK /\ InductiveInv
<1> SUFFICES ASSUME Init PROVE TypeOK /\ InductiveInv
  OBVIOUS
<1>1. /\ link = [c \in Clients |-> "none"] /\ backlog = <<>> /\ fin = {}
      /\ sent = [c \in Clients |-> 0] /\ rcvd = [c \in Clients |-> 0]
      /\ status = "up" /\ mainpc = "boot" /\ connection_num = 0 /\ clientSockfd = 0
      /\ accepted = <<>> /\ tpc = [t \in Threads |-> "none"]
      /\ num = [t \in Threads |-> 0] /\ sock = [t \in Threads |-> 0]
      /\ pos = [t \in Threads |-> 0] /\ files = [t \in Threads |-> <<>>]
      /\ cpc = [c \in Clients |-> "start"]
  BY DEF Init, TcpInit, ServerInit, ClientInit
<1>2. PICK n \in FdLimits : fds = [f \in 1..n |-> Free]
  BY DEF Init, ServerInit
<1>3. TypeOK
  <2>1. fds \in [1..n -> Clients \cup {Free}]
    BY <1>2
  <2>2. <<>> \in Seq(Clients) /\ Len(<<>>) = 0 /\ <<>> \in Seq([client : Clients, fd : Fds])
        /\ <<>> \in Seq(Bytes \cup {Error, Hole})
    OBVIOUS
  <2>3. 0 \in 0..Cardinality(Clients) /\ 0 <= Backlog
    BY ThreadsType, TcpAssumption
  <2>4. link \in [Clients -> Links] /\ cpc \in [Clients -> {"start", "connecting", "opening", "sending"} \cup Ended]
    BY <1>1 DEF Links
  <2>5. /\ tpc \in [Threads -> {"none", "name", "sock", "fopen", "select", "reopen", "recv", "ended"}]
        /\ num \in [Threads -> 0..Cardinality(Clients)] /\ sock \in [Threads -> {0} \cup Fds]
        /\ pos \in [Threads -> Nat] /\ files \in [Threads -> Seq(Bytes \cup {Error, Hole})]
    BY <1>1, <2>2, <2>3
  <2>6. sent \in [Clients -> Nat] /\ rcvd \in [Clients -> Nat]
    BY <1>1
  <2>. QED BY <1>1, <2>1, <2>2, <2>3, <2>4, <2>5, <2>6 DEF TypeOK
<1>4. ConnectionInv /\ ClientInv /\ RefusedNoticed /\ ErrorExplained
  BY <1>1 DEF ConnectionInv, ClientInv, RefusedNoticed, ErrorExplained
<1>5. MainInv /\ ThreadInv
  BY <1>1 DEF MainInv, ThreadInv
<1>6. OwnInv /\ Stored
  BY <1>1 DEF OwnInv, Stored, StoredBy
<1>. QED BY <1>3, <1>4, <1>5, <1>6 DEF InductiveInv

-----------------------------------------------------------------------------
(* The clients and the network. *)

(* Steps of a host or of the network take nothing away from what a thread may rely on. *)
LEMMA HostInv ==
  ASSUME TypeOK, InductiveInv, UNCHANGED <<serverVars, rcvd>>,
         link' \in [Clients -> Links], sent' \in [Clients -> Nat], fin' \subseteq Clients,
         backlog' \in Seq(Clients), Len(backlog') <= Backlog,
         cpc' \in [Clients -> {"start", "connecting", "opening", "sending"} \cup Ended],
         ConnectionInv', ClientInv', fin \subseteq fin',
         \A c \in Clients : link[c] = "reset" => link'[c] = "reset",
         \A c \in Clients : sent[c] <= sent'[c] /\ (c \in fin => sent'[c] = sent[c])
  PROVE  TypeOK' /\ InductiveInv'
<1> USE DEF serverVars, threadVars
<1>1. TypeOK'
  BY DEF TypeOK, Fds
<1>2. MainInv' /\ ThreadInv'
  BY DEF InductiveInv, MainInv, ThreadInv, Fds
<1>3. Raced' = Raced
  BY DEF Raced
<1>4. RefusedNoticed'
  BY DEF ClientInv, RefusedNoticed, Unconnected
<1>5. ErrorExplained'
  BY <1>3 DEF InductiveInv, ErrorExplained
<1>6. ASSUME NEW c \in Clients, Readable(c) PROVE Readable(c)'
  <2>1. sent[c] \in Nat /\ sent'[c] \in Nat /\ rcvd[c] \in Nat /\ sent[c] <= sent'[c]
    BY DEF TypeOK
  <2>. QED BY <1>6, <2>1 DEF Readable, InFlight
<1>7. OwnInv'
  <2>1. ASSUME ~Raced, NEW t \in DOMAIN accepted PROVE ServesOwn(t)'
    <3>1. ServesOwn(t) /\ accepted[t].client \in Clients
      BY <2>1, AcceptedFields DEF InductiveInv, OwnInv
    <3>. QED BY <1>6, <3>1 DEF ServesOwn
  <2>2. ASSUME ~Raced PROVE \A c \in Clients : (\A t \in DOMAIN accepted : accepted[t].client # c) => rcvd'[c] = 0
    BY <2>2 DEF InductiveInv, OwnInv
  <2>. QED BY <1>3, <2>1, <2>2 DEF OwnInv
<1>8. Stored'
  <2>1. SUFFICES ASSUME ~Raced, NEW t \in Threads, tpc[t] \in {"select", "recv", "ended"}
        PROVE  LET c == accepted[t].client
               IN  \/ tpc[t] # "ended" /\ files[t] = File(c, rcvd[c])
                   \/ tpc[t] = "ended" /\ files[t] = <<Error>>
                   \/ /\ tpc[t] = "ended" /\ c \in fin'
                      /\ files[t] = File(c, sent'[c])
                      /\ cpc'[c] = "done" => Len(files[t]) = FileLen[c]
    BY <1>3 DEF Stored, StoredBy
  <2> DEFINE c == accepted[t].client
  <2>2. c \in Clients
    BY <2>1, AcceptedThreads, AcceptedFields
  <2> HIDE DEF c
  <2>3. \/ tpc[t] # "ended" /\ files[t] = File(c, rcvd[c])
        \/ tpc[t] = "ended" /\ files[t] = <<Error>>
        \/ tpc[t] = "ended" /\ c \in fin /\ files[t] = File(c, sent[c])
    BY <2>1 DEF InductiveInv, Stored, StoredBy, c
  <2>4. sent'[c] \in Nat /\ Len(File(c, sent'[c])) = sent'[c] /\ (cpc'[c] = "done" => sent'[c] = FileLen[c])
    BY <2>2, FileFacts DEF ClientInv
  <2>5. c \in fin => c \in fin' /\ sent'[c] = sent[c]
    BY <2>2
  <2>. QED BY <2>3, <2>4, <2>5 DEF c
<1>. QED BY <1>1, <1>2, <1>4, <1>5, <1>7, <1>8 DEF InductiveInv

(* A step that changes nothing but what belongs to one client. *)
OnlyClient(c) ==
    /\ link' \in [Clients -> Links] /\ sent' \in [Clients -> Nat]
    /\ cpc' \in [Clients -> {"start", "connecting", "opening", "sending"} \cup Ended]
    /\ \A d \in Clients \ {c} : link'[d] = link[d] /\ sent'[d] = sent[d] /\ cpc'[d] = cpc[d]
    /\ fin' = fin \/ fin' = fin \cup {c}
    /\ UNCHANGED <<rcvd, backlog>>

(* Steps of one client: the facts to show are about that client only. *)
LEMMA ClientStepInv ==
  ASSUME TypeOK, InductiveInv, UNCHANGED serverVars, NEW c \in Clients, OnlyClient(c),
         link[c] \notin Unconnected => link'[c] \notin Unconnected,
         link[c] = "reset" => link'[c] = "reset",
         sent[c] <= sent'[c], c \in fin => sent'[c] = sent[c],
         cpc'[c] = "start" => link'[c] = "none",
         link'[c] \in Unconnected => sent'[c] = 0,
         c \in fin' => cpc'[c] \in {"done", "failed"},
         cpc'[c] = "done" => sent'[c] = FileLen[c]
  PROVE  TypeOK' /\ InductiveInv'
<1> USE DEF OnlyClient
<1>1. /\ link \in [Clients -> Links] /\ sent \in [Clients -> Nat] /\ fin \subseteq Clients
      /\ rcvd \in [Clients -> Nat]
      /\ backlog \in Seq(Clients) /\ Len(backlog) <= Backlog
  BY DEF TypeOK
<1>2. fin' \subseteq Clients /\ fin \subseteq fin' /\ \A d \in fin' : d = c \/ d \in fin
  BY <1>1
<1>3. ConnectionInv'
  <2>1. \A d \in Clients : link[d] \notin Unconnected => link'[d] \notin Unconnected
    OBVIOUS
  <2>2. UNCHANGED <<accepted, backlog>>
    BY DEF serverVars
  <2>3. \A j \in DOMAIN backlog : backlog[j] \in Clients
    BY <1>1
  <2>. QED BY <2>1, <2>2, <2>3, AcceptedFields DEF InductiveInv, ConnectionInv
<1>4. ClientInv'
  <2>1. ASSUME NEW d \in Clients
        PROVE  /\ rcvd[d] <= sent[d] /\ rcvd[d] \in Nat /\ sent[d] \in Nat /\ sent'[d] \in Nat
               /\ cpc[d] = "start" => link[d] = "none"
               /\ link[d] \in Unconnected => sent[d] = 0
               /\ d \in fin => cpc[d] \in {"done", "failed"}
               /\ cpc[d] = "done" => sent[d] = FileLen[d]
    BY <1>1 DEF InductiveInv, ClientInv
  <2>2. ASSUME NEW d \in Clients
        PROVE  /\ rcvd'[d] <= sent'[d]
               /\ cpc'[d] = "start" => link'[d] = "none"
               /\ link'[d] \in Unconnected => sent'[d] = 0
               /\ d \in fin' => cpc'[d] \in {"done", "failed"}
               /\ cpc'[d] = "done" => sent'[d] = FileLen[d]
    <3>1. CASE d = c
      <4>1. rcvd'[c] <= sent'[c]
        BY <2>1
      <4>. QED BY <3>1, <4>1
    <3>2. CASE d # c
      BY <1>2, <2>1, <3>2
    <3>. QED BY <3>1, <3>2
  <2>. QED BY <2>2 DEF ClientInv
<1>5. \A d \in Clients : link[d] = "reset" => link'[d] = "reset"
  OBVIOUS
<1>6. \A d \in Clients : sent[d] <= sent'[d] /\ (d \in fin => sent'[d] = sent[d])
  BY <1>1
<1>7. UNCHANGED <<serverVars, rcvd>> /\ UNCHANGED backlog
  OBVIOUS
<1>. QED BY <1>1, <1>2, <1>3, <1>4, <1>5, <1>6, <1>7, HostInv

(* Every step of a client process and of its host. *)
LEMMA ClientsInv ==
  ASSUME TypeOK, InductiveInv, NEW c \in Clients, UNCHANGED serverVars,
         Client(c) \/ Vanish(c) \/ PeerReset(c)
  PROVE  TypeOK' /\ InductiveInv'
<1>1. /\ link \in [Clients -> Links] /\ sent \in [Clients -> Nat]
      /\ cpc \in [Clients -> {"start", "connecting", "opening", "sending"} \cup Ended]
  BY DEF TypeOK
<1>2. /\ cpc[c] = "start" => link[c] = "none"
      /\ link[c] \in Unconnected => sent[c] = 0
      /\ c \in fin => cpc[c] \in {"done", "failed"}
      /\ cpc[c] = "done" => sent[c] = FileLen[c]
      /\ sent[c] \in Nat
  BY <1>1 DEF InductiveInv, ClientInv
<1>5. {"none", "waiting", "reset"} \subseteq Links /\ {"done", "failed", "gone"} = Ended
  BY DEF Links, Ended
<1>6. CASE Connect(c)
  <2>1. cpc[c] = "start" /\ UNCHANGED <<backlog, sent, rcvd>>
    BY <1>6 DEF Connect
  <2>2. CASE Step(c, "start", "connecting") /\ link' = [link EXCEPT ![c] = "waiting"] /\ UNCHANGED fin
    <3>1. OnlyClient(c) /\ link'[c] = "waiting" /\ sent'[c] = sent[c] /\ cpc'[c] = "connecting"
      BY <1>1, <1>5, <2>1, <2>2 DEF OnlyClient, Step
    <3>. QED BY <1>2, <2>1, <2>2, <3>1, ClientStepInv DEF Unconnected
  <2>3. CASE Quit(c, "failed") /\ UNCHANGED link
    <3>1. OnlyClient(c) /\ link'[c] = link[c] /\ sent'[c] = sent[c] /\ cpc'[c] = "failed"
      BY <1>1, <1>5, <2>1, <2>3 DEF OnlyClient, Quit
    <3>. QED BY <1>2, <3>1, ClientStepInv
  <2>. QED BY <1>6, <2>2, <2>3 DEF Connect
<1>7. CASE Connected(c)
  <2>1. /\ OnlyClient(c) /\ link'[c] = link[c] /\ sent'[c] = sent[c] /\ cpc'[c] = "opening"
        /\ cpc[c] = "connecting" /\ fin' = fin
    BY <1>1, <1>7 DEF OnlyClient, Connected, Step, tcpVars
  <2>. QED BY <1>2, <2>1, ClientStepInv
<1>8. CASE ConnectTimeout(c)
  <2>1. /\ OnlyClient(c) /\ link'[c] = "none" /\ sent'[c] = sent[c] /\ cpc'[c] = "failed"
        /\ link[c] = "waiting"
    BY <1>1, <1>5, <1>8 DEF OnlyClient, ConnectTimeout, Quit
  <2>. QED BY <1>2, <2>1, ClientStepInv DEF Unconnected
<1>9. CASE OpenFile(c)
  <2>1. cpc[c] = "opening" /\ UNCHANGED <<link, backlog, sent, rcvd>>
    BY <1>9 DEF OpenFile
  <2>2. CASE Step(c, "opening", "sending") /\ UNCHANGED fin
    <3>1. OnlyClient(c) /\ link'[c] = link[c] /\ sent'[c] = sent[c] /\ cpc'[c] = "sending"
      BY <1>1, <2>1, <2>2 DEF OnlyClient, Step
    <3>. QED BY <1>2, <2>1, <2>2, <3>1, ClientStepInv
  <2>3. CASE Quit(c, "failed")
    <3>1. OnlyClient(c) /\ link'[c] = link[c] /\ sent'[c] = sent[c] /\ cpc'[c] = "failed"
      BY <1>1, <1>5, <2>1, <2>3 DEF OnlyClient, Quit
    <3>. QED BY <1>2, <3>1, ClientStepInv
  <2>. QED BY <1>9, <2>2, <2>3 DEF OpenFile
<1>10. CASE SendBlock(c)
  <2>1. cpc[c] = "sending" /\ sent[c] < FileLen[c] /\ UNCHANGED <<link, backlog, rcvd>>
    BY <1>10 DEF SendBlock, Sending
  <2>2. CASE /\ link[c] \in {"open", "closed"} /\ UNCHANGED <<cpc, fin>>
             /\ sent' = [sent EXCEPT ![c] = @ + Min({BUF, FileLen[c] - @})]
    <3> DEFINE m == sent[c] + Min({BUF, FileLen[c] - sent[c]})
    <3>1. m \in Nat /\ sent[c] <= m
      <4>1. BUF \in Nat /\ FileLen[c] - sent[c] \in Nat
        BY <1>2, <2>1, TcpAssumption, FileAssumption
      <4>2. Min({BUF, FileLen[c] - sent[c]}) \in Nat
        BY <4>1, MinOfTwo
      <4>. QED BY <1>2, <4>2
    <3>2. sent' = [sent EXCEPT ![c] = m]
      BY <2>2
    <3> HIDE DEF m
    <3>3. OnlyClient(c) /\ link'[c] = link[c] /\ sent'[c] = m /\ cpc'[c] = "sending"
      BY <1>1, <2>1, <2>2, <3>1, <3>2 DEF OnlyClient
    <3>. QED BY <1>2, <2>1, <2>2, <3>1, <3>3, ClientStepInv DEF Unconnected
  <2>3. CASE Quit(c, "failed") /\ UNCHANGED sent
    <3>1. OnlyClient(c) /\ link'[c] = link[c] /\ sent'[c] = sent[c] /\ cpc'[c] = "failed"
      BY <1>1, <1>5, <2>1, <2>3 DEF OnlyClient, Quit
    <3>. QED BY <1>2, <3>1, ClientStepInv
  <2>. QED BY <1>10, <2>2, <2>3 DEF SendBlock
<1>11. CASE Finish(c)
  <2>1. /\ OnlyClient(c) /\ link'[c] = link[c] /\ sent'[c] = sent[c] /\ cpc'[c] = "done"
        /\ sent[c] = FileLen[c]
    BY <1>1, <1>5, <1>11 DEF OnlyClient, Finish, Quit
  <2>. QED BY <1>2, <2>1, ClientStepInv
<1>12. CASE SendTimeout(c)
  <2>1. OnlyClient(c) /\ link'[c] = link[c] /\ sent'[c] = sent[c] /\ cpc'[c] = "failed"
    BY <1>1, <1>5, <1>12 DEF OnlyClient, SendTimeout, Quit
  <2>. QED BY <1>2, <2>1, ClientStepInv
<1>13. CASE Vanish(c)
  <2>1. /\ OnlyClient(c) /\ link'[c] = link[c] /\ sent'[c] = sent[c] /\ cpc'[c] = "gone"
        /\ fin' = fin /\ cpc[c] \notin {"done", "failed"}
    BY <1>1, <1>5, <1>13 DEF OnlyClient, Vanish, tcpVars
  <2>. QED BY <1>2, <2>1, ClientStepInv
<1>14. CASE PeerReset(c)
  <2>1. /\ OnlyClient(c) /\ link'[c] = "reset" /\ sent'[c] = sent[c] /\ cpc'[c] = "gone"
        /\ fin' = fin /\ cpc[c] = "gone"
    BY <1>1, <1>5, <1>14 DEF OnlyClient, PeerReset
  <2>. QED BY <1>2, <2>1, ClientStepInv DEF Unconnected
<1>. QED BY <1>6, <1>7, <1>8, <1>9, <1>10, <1>11, <1>12, <1>13, <1>14 DEF Client

(* A handshake: the connection is refused, or joins those that wait for accept. *)
LEMMA HandshakeInv ==
  ASSUME TypeOK, InductiveInv, NEW c \in Clients, Handshake(c, Listening), UNCHANGED <<serverVars, cpc>>
  PROVE  TypeOK' /\ InductiveInv'
<1>1. /\ link \in [Clients -> Links] /\ sent \in [Clients -> Nat] /\ fin \subseteq Clients
      /\ backlog \in Seq(Clients) /\ Len(backlog) <= Backlog
      /\ cpc \in [Clients -> {"start", "connecting", "opening", "sending"} \cup Ended]
  BY DEF TypeOK
<1>2. link[c] = "waiting" /\ UNCHANGED <<sent, rcvd, fin, cpc>>
  BY DEF Handshake
<1>3. /\ cpc[c] # "start" /\ sent[c] = 0 /\ sent = [sent EXCEPT ![c] = sent[c]]
      /\ c \in fin => cpc[c] \in {"done", "failed"}
      /\ cpc[c] = "done" => sent[c] = FileLen[c]
  BY <1>1, <1>2 DEF InductiveInv, ClientInv, Unconnected
<1>4. CASE link' = [link EXCEPT ![c] = "refused"] /\ UNCHANGED backlog
  <2>1. OnlyClient(c) /\ link'[c] = "refused" /\ sent'[c] = sent[c] /\ cpc'[c] = cpc[c]
    BY <1>1, <1>2, <1>4 DEF OnlyClient, Links
  <2>. QED BY <1>1, <1>2, <1>3, <2>1, ClientStepInv DEF Unconnected
<1>5. CASE Len(backlog) < Backlog /\ link' = [link EXCEPT ![c] = "open"] /\ backlog' = Append(backlog, c)
  <2>1. /\ link' \in [Clients -> Links]
        /\ \A d \in Clients : link'[d] = IF d = c THEN "open" ELSE link[d]
    BY <1>1, <1>5 DEF Links
  <2>2. /\ backlog' \in Seq(Clients) /\ Len(backlog') = Len(backlog) + 1 /\ Len(backlog) \in Nat
        /\ DOMAIN backlog = 1..Len(backlog) /\ DOMAIN backlog' = 1..(Len(backlog) + 1)
        /\ \A i \in 1..Len(backlog) : backlog'[i] = backlog[i] /\ backlog[i] \in Clients
        /\ backlog'[Len(backlog) + 1] = c
    BY <1>1, <1>5
  <2>3. Len(backlog') <= Backlog
    BY <1>5, <2>2, TcpAssumption
  <2>4. ConnectionInv'
    <3>1. UNCHANGED accepted
      BY DEF serverVars
    <3>2. /\ \A i \in DOMAIN accepted : accepted[i].client # c
          /\ \A j \in DOMAIN backlog : backlog[j] # c
      BY <1>2 DEF InductiveInv, ConnectionInv, Unconnected
    <3>3. \A d \in Clients : link[d] \notin Unconnected => link'[d] \notin Unconnected
      BY <2>1 DEF Unconnected
    <3>4. link'[c] \notin Unconnected
      BY <2>1 DEF Unconnected
    <3>5. \A i, j \in DOMAIN backlog' : backlog'[i] = backlog'[j] => i = j
      BY <2>2, <3>2 DEF InductiveInv, ConnectionInv
    <3>0. ASSUME NEW j \in DOMAIN backlog'
          PROVE  backlog'[j] = c \/ (j \in DOMAIN backlog /\ backlog'[j] = backlog[j] /\ backlog[j] \in Clients)
      <4>1. j = Len(backlog) + 1 \/ j \in 1..Len(backlog)
        BY <2>2
      <4>. QED BY <2>2, <4>1
    <3>6. \A i \in DOMAIN accepted, j \in DOMAIN backlog' : accepted[i].client # backlog'[j]
      BY <3>0, <3>2 DEF InductiveInv, ConnectionInv
    <3>7. \A i \in DOMAIN accepted : link'[accepted[i].client] \notin Unconnected
      BY <3>3, AcceptedFields DEF InductiveInv, ConnectionInv
    <3>8. \A j \in DOMAIN backlog' : link'[backlog'[j]] \notin Unconnected
      BY <3>0, <3>3, <3>4 DEF InductiveInv, ConnectionInv
    <3>. QED BY <3>1, <3>5, <3>6, <3>7, <3>8 DEF InductiveInv, ConnectionInv
  <2>5. ClientInv'
    BY <1>2, <1>3, <2>1 DEF InductiveInv, ClientInv, Unconnected
  <2>6. \A d \in Clients : link[d] = "reset" => link'[d] = "reset"
    BY <1>2, <2>1
  <2>7. \A d \in Clients : sent[d] <= sent'[d] /\ (d \in fin => sent'[d] = sent[d])
    BY <1>1, <1>2
  <2>. QED BY <1>1, <1>2, <2>1, <2>2, <2>3, <2>4, <2>5, <2>6, <2>7, HostInv
<1>. QED BY <1>4, <1>5 DEF Handshake

-----------------------------------------------------------------------------
(* The server: how its process ends, and what its threads have in common. *)

(* Closing connections makes no connection out of none and hides no reset. *)
LinksKept ==
    /\ link' \in [Clients -> Links]
    /\ \A c \in Clients :
         /\ link'[c] \in Unconnected <=> link[c] \in Unconnected
         /\ link'[c] = "reset" <=> link[c] = "reset"
         /\ link'[c] = "none" <=> link[c] = "none"

(* Closing, or not touching, the connections keeps them in that sense. *)
LEMMA CloseKeeps ==
  ASSUME TypeOK, UNCHANGED link \/ \E cs : CloseLinks(cs)
  PROVE  LinksKept
<1>1. CASE UNCHANGED link
  BY <1>1 DEF TypeOK, LinksKept
<1>2. CASE \E cs : CloseLinks(cs)
  <2>1. PICK cs : link' = [c \in Clients |-> IF c \in cs /\ link[c] = "open" THEN "closed" ELSE link[c]]
    BY <1>2 DEF CloseLinks
  <2>. QED BY <2>1 DEF TypeOK, LinksKept, Unconnected, Links
<1>. QED BY <1>1, <1>2

(* What is said of clients and connections depends on no more than that of the connections. *)
LEMMA LinksKeptInv ==
  ASSUME TypeOK, InductiveInv, LinksKept, UNCHANGED <<sent, fin, cpc, backlog, accepted>>
  PROVE  /\ UNCHANGED rcvd => ClientInv'
         /\ ConnectionInv'
<1>1. ASSUME UNCHANGED rcvd PROVE ClientInv'
  BY <1>1 DEF InductiveInv, LinksKept, ClientInv
<1>2. ConnectionInv'
  <2>1. \A j \in DOMAIN backlog : backlog[j] \in Clients
    BY DEF TypeOK
  <2>. QED BY <2>1, AcceptedFields DEF InductiveInv, LinksKept, ConnectionInv
<1>. QED BY <1>1, <1>2

(* A client that ended well without a connection had nothing to send. *)
LEMMA ClientRefused == ClientInv => RefusedNoticed
BY DEF ClientInv, RefusedNoticed, Unconnected

(* The process exits, with an error only if the error is explained. *)
LEMMA ExitInv ==
  ASSUME TypeOK, InductiveInv, UNCHANGED cpc, NEW why \in {"signal", "limit", "error"}, Exit(why),
         why = "error" => Raced \/ \E c \in Clients : link[c] = "reset"
  PROVE  TypeOK' /\ InductiveInv'
<1>1. /\ status' = why /\ CloseLinks(Clients)
      /\ UNCHANGED <<mainpc, connection_num, clientSockfd, fds, accepted, tpc, num, sock, pos, files,
                     backlog, sent, rcvd, fin>>
  BY DEF Exit, threadVars
<1>2. LinksKept
  BY <1>1, CloseKeeps
<1>3. TypeOK'
  BY <1>1, <1>2 DEF TypeOK, LinksKept, Fds
<1>4. MainInv' /\ ThreadInv'
  BY <1>1 DEF InductiveInv, MainInv, ThreadInv, Fds
<1>5. ClientInv' /\ ConnectionInv' /\ RefusedNoticed'
  BY <1>1, <1>2, LinksKeptInv, ClientRefused DEF ClientInv, RefusedNoticed, Unconnected
<1>6. Raced' = Raced
  BY <1>1 DEF Raced
<1>7. ErrorExplained'
  BY <1>1, <1>2, <1>6 DEF ErrorExplained, LinksKept
<1>8. OwnInv'
  BY <1>1, <1>2, <1>6, AcceptedFields
     DEF InductiveInv, OwnInv, ServesOwn, Readable, InFlight, LinksKept
<1>9. Stored'
  BY <1>1, <1>6 DEF InductiveInv, Stored, StoredBy
<1>. QED BY <1>3, <1>4, <1>5, <1>7, <1>8, <1>9 DEF InductiveInv

(* A thread that was overtaken stays so. *)
LEMMA RacedStays ==
  ASSUME \A s \in Threads : /\ num[s] # 0 => num'[s] = num[s]
                            /\ sock[s] # 0 => sock'[s] = sock[s] /\ accepted'[s] = accepted[s],
         Raced
  PROVE  Raced'
BY DEF Raced

(***************************************************************************)
(* A step of thread t keeps the invariant if, as long as no thread was     *)
(* overtaken, it leaves the files, the streams and the descriptors of the  *)
(* other threads alone and does its own work right.                        *)
(***************************************************************************)
LEMMA ThreadStepInv ==
  ASSUME TypeOK, InductiveInv, NEW t \in Threads, NEW step, Goto(t, step),
         status = "up", tpc[t] # "none", step # "none",
         UNCHANGED <<backlog, sent, fin, cpc>>, LinksKept,
         TypeOK', ThreadInv', ClientInv',
         Raced => Raced',
         ~Raced /\ ~Raced' =>
            /\ ServesOwn(t)' /\ StoredBy(t)'
            /\ \A s \in Threads \ {t} : files'[s] = files[s] /\ pos'[s] = pos[s]
            /\ \A s \in DOMAIN accepted \ {t} : tpc[s] \notin {"reopen", "ended"}
                  => fds'[accepted[s].fd] = fds[accepted[s].fd]
            /\ \A c \in Clients : c # accepted[t].client => rcvd'[c] = rcvd[c]
  PROVE  InductiveInv'
<1>1. /\ tpc' = [tpc EXCEPT ![t] = step]
      /\ UNCHANGED <<status, mainpc, connection_num, clientSockfd, accepted>>
  BY DEF Goto
<1>2. \A s \in Threads : tpc'[s] = IF s = t THEN step ELSE tpc[s]
  BY <1>1 DEF TypeOK
<1>3. MainInv'
  <2>1. accepted # <<>> => Len(accepted) \in Threads
    <3>1. accepted \in Seq([client : Clients, fd : Fds])
      BY DEF TypeOK
    <3>. QED BY <3>1, AcceptedThreads
  <2>. QED BY <1>1, <1>2, <2>1 DEF InductiveInv, MainInv
<1>4. ConnectionInv' /\ RefusedNoticed'
  BY <1>1, LinksKeptInv, ClientRefused DEF ClientInv, RefusedNoticed, Unconnected
<1>5. ErrorExplained'
  BY <1>1 DEF ErrorExplained
<1>6. t \in DOMAIN accepted /\ DOMAIN accepted \subseteq Threads
  BY AcceptedThreads
<1>7. ASSUME NEW s \in DOMAIN accepted, s # t
      PROVE  accepted[s].client # accepted[t].client /\ accepted[s].client \in Clients
  BY <1>6, <1>7, AcceptedFields DEF InductiveInv, ConnectionInv
<1>8. OwnInv'
  <2>1. SUFFICES ASSUME ~Raced'
        PROVE  /\ \A s \in DOMAIN accepted : ServesOwn(s)'
               /\ \A c \in Clients : (\A s \in DOMAIN accepted : accepted[s].client # c) => rcvd'[c] = 0
    BY <1>1 DEF OwnInv
  <2>2. ~Raced
    BY <2>1
  <2>3. ASSUME NEW s \in DOMAIN accepted, s # t PROVE ServesOwn(s)'
    <3>1. ServesOwn(s) /\ s \in Threads
      BY <1>6, <2>2 DEF InductiveInv, OwnInv
    <3>2. /\ tpc'[s] = tpc[s] /\ pos'[s] = pos[s] /\ accepted' = accepted
          /\ rcvd'[accepted[s].client] = rcvd[accepted[s].client]
          /\ tpc[s] \notin {"reopen", "ended"} => fds'[accepted[s].fd] = fds[accepted[s].fd]
      BY <1>1, <1>2, <1>7, <2>1, <2>2, <2>3, <3>1
    <3>3. Readable(accepted[s].client) => Readable(accepted[s].client)'
      BY <1>1, <1>7, <2>3, <3>2 DEF Readable, InFlight, LinksKept
    <3>. QED BY <3>1, <3>2, <3>3 DEF ServesOwn
  <2>4. ASSUME NEW c \in Clients, \A s \in DOMAIN accepted : accepted[s].client # c PROVE rcvd'[c] = 0
    <3>1. rcvd[c] = 0
      BY <2>2, <2>4 DEF InductiveInv, OwnInv
    <3>. QED BY <1>6, <2>1, <2>2, <2>4, <3>1
  <2>. QED BY <2>1, <2>2, <2>3, <2>4
<1>9. Stored'
  <2>1. SUFFICES ASSUME ~Raced', NEW s \in Threads PROVE StoredBy(s)'
    BY DEF Stored
  <2>2. ~Raced
    BY <2>1
  <2>3. CASE s = t
    BY <2>1, <2>2, <2>3
  <2>4. CASE s # t /\ tpc[s] # "none"
    <3>1. s \in DOMAIN accepted
      BY <2>4, AcceptedThreads
    <3>2. rcvd'[accepted[s].client] = rcvd[accepted[s].client] /\ files'[s] = files[s] /\ tpc'[s] = tpc[s]
      BY <1>2, <1>7, <2>1, <2>2, <2>4, <3>1
    <3>3. StoredBy(s)
      BY <2>2 DEF InductiveInv, Stored
    <3>. QED BY <1>1, <3>2, <3>3 DEF StoredBy
  <2>5. CASE s # t /\ tpc[s] = "none"
    BY <1>2, <2>5 DEF StoredBy
  <2>. QED BY <2>3, <2>4, <2>5
<1>. QED BY <1>3, <1>4, <1>5, <1>8, <1>9 DEF InductiveInv

-----------------------------------------------------------------------------
(* main *)

(* The next states of main differ from the last in a few variables only. *)
LEMMA ListenInv ==
  ASSUME TypeOK, InductiveInv, Listen, UNCHANGED cpc
  PROVE  TypeOK' /\ InductiveInv'
<1>1. CASE Exit("limit")
  BY <1>1, ExitInv
<1>2. CASE /\ mainpc' = "accept"
           /\ UNCHANGED <<status, connection_num, clientSockfd, fds, accepted, tpc, threadVars, tcpVars>>
  <2> USE DEF threadVars, tcpVars
  <2>1. mainpc = "boot"
    BY DEF Listen
  <2>2. TypeOK' /\ Raced' = Raced
    BY <1>2 DEF TypeOK, Fds, Raced
  <2>3. MainInv' /\ ThreadInv' /\ ClientInv' /\ ConnectionInv' /\ RefusedNoticed'
    BY <1>2, <2>1 DEF InductiveInv, MainInv, ThreadInv, ClientInv, ConnectionInv, RefusedNoticed, Fds
  <2>4. OwnInv' /\ Stored' /\ ErrorExplained'
    BY <1>2, <2>2 DEF InductiveInv, OwnInv, ServesOwn, Readable, InFlight, Stored, StoredBy, ErrorExplained
  <2>. QED BY <2>2, <2>3, <2>4 DEF InductiveInv
<1>. QED BY <1>1, <1>2 DEF Listen

(* The connection that was accepted last is counted. *)
LEMMA CountInv ==
  ASSUME TypeOK, InductiveInv, Count, UNCHANGED cpc
  PROVE  TypeOK' /\ InductiveInv'
<1> USE DEF threadVars, tcpVars
<1>1. /\ mainpc = "count" /\ mainpc' = "spawn" /\ connection_num' = connection_num + 1
      /\ UNCHANGED <<status, clientSockfd, fds, accepted, tpc, threadVars, tcpVars, cpc>>
  BY DEF Count
<1>2. connection_num' = Len(accepted) /\ connection_num <= connection_num'
  <2>1. connection_num = Len(accepted) - 1
    BY <1>1 DEF InductiveInv, MainInv
  <2>. QED BY <1>1, <2>1, AcceptedThreads
<1>3. connection_num' \in 0..Cardinality(Clients)
  BY <1>2, AcceptedThreads, ThreadsType
<1>4. TypeOK' /\ Raced' = Raced
  BY <1>1, <1>3 DEF TypeOK, Fds, Raced
<1>5. MainInv'
  <2>1. \A t \in Threads : tpc[t] # "none" => t <= connection_num
    BY DEF InductiveInv, MainInv
  <2>2. \A t \in Threads : tpc[t] # "none" => t <= connection_num'
    BY <1>2, <2>1, AcceptedThreads, ThreadsType
  <2>. QED BY <1>1, <1>2, <2>2 DEF InductiveInv, MainInv
<1>6. ThreadInv' /\ ClientInv' /\ ConnectionInv' /\ RefusedNoticed'
  BY <1>1 DEF InductiveInv, ThreadInv, ClientInv, ConnectionInv, RefusedNoticed, Fds
<1>7. OwnInv' /\ Stored' /\ ErrorExplained'
  BY <1>1, <1>4 DEF InductiveInv, OwnInv, ServesOwn, Readable, InFlight, Stored, StoredBy, ErrorExplained
<1>. QED BY <1>4, <1>5, <1>6, <1>7 DEF InductiveInv

(* Its thread is started. *)
LEMMA SpawnInv ==
  ASSUME TypeOK, InductiveInv, Spawn, UNCHANGED cpc
  PROVE  TypeOK' /\ InductiveInv'
<1>1. CASE Exit("limit")
  BY <1>1, ExitInv
<1>2. CASE /\ tpc' = [tpc EXCEPT ![Len(accepted)] = "name"] /\ mainpc' = "accept"
           /\ UNCHANGED <<status, connection_num, clientSockfd, fds, accepted, threadVars, tcpVars>>
  <2> USE DEF threadVars, tcpVars
  <2> DEFINE n == Len(accepted)
  <2>1. /\ mainpc = "spawn" /\ accepted # <<>> /\ tpc[n] = "none" /\ connection_num = n
    BY DEF Spawn, InductiveInv, MainInv
  <2>2. n \in Threads /\ n \in DOMAIN accepted
    <3>1. accepted \in Seq([client : Clients, fd : Fds])
      BY DEF TypeOK
    <3>. QED BY <2>1, <3>1, AcceptedThreads
  <2>3. tpc' = [tpc EXCEPT ![n] = "name"]
    BY <1>2
  <2>4. n = Len(accepted) /\ n = Len(accepted)'
    BY <1>2
  <2> HIDE DEF n
  <2>5. \A t \in Threads : tpc'[t] = IF t = n THEN "name" ELSE tpc[t]
    BY <2>3 DEF TypeOK
  <2>6. TypeOK' /\ Raced' = Raced
    BY <1>2, <2>2, <2>3 DEF TypeOK, Fds, Raced
  <2>7. MainInv'
    <3>1. n <= connection_num
      BY <2>1, <2>2, ThreadsType
    <3>2. \A t \in Threads : tpc'[t] # "none" => t <= connection_num
      BY <2>5, <3>1 DEF InductiveInv, MainInv
    <3>. QED BY <1>2, <2>1, <2>4, <3>2 DEF InductiveInv, MainInv
  <2>8. ThreadInv'
    BY <1>2, <2>1, <2>2, <2>5 DEF InductiveInv, ThreadInv, Fds
  <2>9. ClientInv' /\ ConnectionInv' /\ RefusedNoticed' /\ ErrorExplained'
    BY <1>2, <2>6 DEF InductiveInv, ClientInv, ConnectionInv, RefusedNoticed, ErrorExplained
  <2>10. OwnInv'
    <3>1. ASSUME ~Raced, NEW t \in DOMAIN accepted PROVE ServesOwn(t)'
      <4>1. ServesOwn(t) /\ t \in Threads
        BY <3>1, AcceptedThreads DEF InductiveInv, OwnInv
      <4>. QED BY <1>2, <2>1, <2>5, <4>1 DEF ServesOwn, Readable, InFlight
    <3>. QED BY <1>2, <2>6, <3>1 DEF InductiveInv, OwnInv
  <2>11. Stored'
    BY <1>2, <2>5, <2>6 DEF InductiveInv, Stored, StoredBy
  <2>. QED BY <2>6, <2>7, <2>8, <2>9, <2>10, <2>11 DEF InductiveInv
<1>. QED BY <1>1, <1>2 DEF Spawn

(* accept finds a descriptor that is free, the least one. *)
LEMMA FreeFd ==
  ASSUME TypeOK, ~Full
  PROVE  Min(FreeFds) \in Fds /\ fds[Min(FreeFds)] = Free
<1>1. FreeFds \subseteq Fds /\ FreeFds \subseteq Nat
  BY FdsType DEF FreeFds
<1>2. FreeFds # {}
  <2>1. SUFFICES ASSUME FreeFds = {} PROVE FALSE
    OBVIOUS
  <2>2. Cardinality(FreeFds) = 0
    BY <2>1, FS_EmptySet
  <2>3. Streaming \subseteq Threads /\ IsFiniteSet(Threads)
    BY ThreadsType, FS_Interval DEF Streaming
  <2>4. Cardinality(Streaming) \in Nat
    BY <2>3, FS_Subset, FS_CardinalityType
  <2>. QED BY <2>2, <2>4 DEF Full
<1>3. Min(FreeFds) \in FreeFds
  BY <1>1, <1>2, LeastNatural
<1>. QED BY <1>3 DEF FreeFds

(* A connection is accepted: the thread that will serve it finds its own descriptor. *)
LEMMA AcceptInv ==
  ASSUME TypeOK, InductiveInv, Accept, UNCHANGED cpc
  PROVE  TypeOK' /\ InductiveInv'
<1>1. CASE Full /\ Exit("limit")
  BY <1>1, ExitInv
<1>2. CASE ~Full /\ ~(Full /\ Exit("limit"))
  <2> DEFINE fd == Min(FreeFds)
             c == Head(backlog)
  <2>1. /\ mainpc = "accept" /\ backlog # <<>>
        /\ clientSockfd' = fd /\ fds' = [fds EXCEPT ![fd] = c]
        /\ accepted' = Append(accepted, [client |-> c, fd |-> fd])
        /\ backlog' = Tail(backlog) /\ mainpc' = "count"
        /\ UNCHANGED <<status, connection_num, tpc, num, sock, pos, files, link, sent, rcvd, fin, cpc>>
    BY <1>2 DEF Accept, threadVars
  <2>2. fd \in Fds /\ fds[fd] = Free
    BY <1>2, FreeFd
  <2>3. /\ c \in Clients /\ c = backlog[1] /\ 1 \in DOMAIN backlog
        /\ backlog' \in Seq(Clients) /\ Len(backlog') <= Backlog
        /\ \A j \in DOMAIN backlog' : /\ j + 1 \in DOMAIN backlog /\ j + 1 # 1
                                      /\ backlog'[j] = backlog[j + 1]
    <3>1. backlog \in Seq(Clients) /\ Len(backlog) <= Backlog /\ Backlog \in Nat
      BY TcpAssumption DEF TypeOK
    <3>. QED BY <2>1, <3>1
  <2>4. /\ \E m \in FdLimits : fds' \in [1..m -> Clients \cup {Free}]
        /\ Fds' = Fds
        /\ \A g \in Fds : fds'[g] = IF g = fd THEN c ELSE fds[g]
    <3>1. fds' = [fds EXCEPT ![fd] = c] /\ fd \in Fds /\ c \in Clients \cup {Free}
      BY <2>1, <2>2, <2>3
    <3> HIDE DEF fd, c
    <3>. QED BY <3>1, SetFd
  <2>5. Len(accepted) \in Nat /\ DOMAIN accepted = 1..Len(accepted)
    BY AcceptedThreads
  <2>n. PICK n : n = Len(accepted) + 1
    OBVIOUS
  <2> DEFINE r == [client |-> c, fd |-> fd]
  <2>6. r \in [client : Clients, fd : Fds] /\ r.client = c /\ r.fd = fd
    BY <2>2, <2>3
  <2>7. accepted' = Append(accepted, r) /\ accepted \in Seq([client : Clients, fd : Fds])
    BY <2>1 DEF TypeOK
  <2> HIDE DEF r, fd, c
  <2>8. /\ accepted' \in Seq([client : Clients, fd : Fds])
        /\ Len(accepted') = n /\ DOMAIN accepted' = 1..n
        /\ accepted'[n] = r
        /\ \A i \in 1..Len(accepted) : accepted'[i] = accepted[i]
    BY <2>5, <2>6, <2>7, <2>n
  <2>9. n \in Nat /\ n \notin DOMAIN accepted /\ DOMAIN accepted' = DOMAIN accepted \cup {n}
    BY <2>5, <2>8, <2>n
  <2>10. \A i \in DOMAIN accepted : accepted'[i] = accepted[i]
    BY <2>5, <2>8
  <2>11. accepted'[n].client = c /\ accepted'[n].fd = fd
    BY <2>6, <2>8
  <2>12. n = Len(accepted') /\ n - 1 = Len(accepted) /\ accepted' # <<>>
    BY <2>5, <2>8, <2>n
  <2>13. ConnectionInv'
    <3>0. /\ \A i, j \in DOMAIN accepted : accepted[i].client = accepted[j].client => i = j
          /\ \A i, j \in DOMAIN backlog : backlog[i] = backlog[j] => i = j
          /\ \A i \in DOMAIN accepted, j \in DOMAIN backlog : accepted[i].client # backlog[j]
          /\ \A i \in DOMAIN accepted : link[accepted[i].client] \notin Unconnected
          /\ \A j \in DOMAIN backlog : link[backlog[j]] \notin Unconnected
      BY DEF InductiveInv, ConnectionInv
    <3>1. \A i \in DOMAIN accepted : accepted[i].client # c
      BY <2>3, <3>0
    <3>2. \A i, j \in DOMAIN accepted' : accepted'[i].client = accepted'[j].client => i = j
      BY <2>9, <2>10, <2>11, <3>0, <3>1
    <3>3. \A i, j \in DOMAIN backlog' : backlog'[i] = backlog'[j] => i = j
      <4>1. \A j \in DOMAIN backlog' : j \in Int
        BY <2>3
      <4>2. ASSUME NEW i \in DOMAIN backlog', NEW j \in DOMAIN backlog', backlog'[i] = backlog'[j]
            PROVE  i = j
        <5>1. i + 1 = j + 1
          BY <2>3, <3>0, <4>2
        <5>. QED BY <4>1, <5>1
      <4>. QED BY <4>2
    <3>4. \A j \in DOMAIN backlog' : backlog'[j] # c /\ \E k \in DOMAIN backlog : backlog'[j] = backlog[k]
      BY <2>3, <3>0
    <3>5. \A i \in DOMAIN accepted', j \in DOMAIN backlog' : accepted'[i].client # backlog'[j]
      BY <2>9, <2>10, <2>11, <3>0, <3>4
    <3>6. \A i \in DOMAIN accepted' : link[accepted'[i].client] \notin Unconnected
      BY <2>3, <2>9, <2>10, <2>11, <3>0
    <3>7. \A j \in DOMAIN backlog' : link[backlog'[j]] \notin Unconnected
      BY <3>0, <3>4
    <3>. QED BY <2>1, <3>2, <3>3, <3>5, <3>6, <3>7 DEF ConnectionInv
  <2>14. n \in Threads
    <3>0. \A i, j \in DOMAIN accepted' : accepted'[i].client = accepted'[j].client => i = j
      BY <2>13 DEF ConnectionInv
    <3>1. n <= Cardinality(Clients)
      <4>1. Len(accepted') <= Cardinality(Clients)
        BY <2>8, <3>0, DistinctClients
      <4>. QED BY <2>12, <4>1
    <3>2. n \in 1..n
      BY <2>8, <2>12
    <3>. QED BY <2>9, <3>1, <3>2, ThreadsType
  <2>15. TypeOK'
    <3>1. clientSockfd' \in {0} \cup Fds' /\ accepted' \in Seq([client : Clients, fd : Fds'])
      BY <2>1, <2>2, <2>4, <2>8
    <3>2. sock' \in [Threads -> {0} \cup Fds']
      BY <2>1, <2>4 DEF TypeOK
    <3>. QED BY <2>1, <2>3, <2>4, <3>1, <3>2 DEF TypeOK
  <2>16. connection_num = n - 1 /\ tpc[n] = "none"
    <3>1. connection_num = n - 1
      BY <2>1, <2>12 DEF InductiveInv, MainInv
    <3>2. ~(n <= connection_num)
      BY <2>9, <3>1
    <3>. QED BY <2>14, <3>1, <3>2 DEF InductiveInv, MainInv
  <2>17. MainInv'
    BY <2>1, <2>11, <2>12, <2>16 DEF InductiveInv, MainInv
  <2>18. ThreadInv' /\ ClientInv' /\ RefusedNoticed'
    BY <2>1, <2>4 DEF InductiveInv, ThreadInv, ClientInv, RefusedNoticed
  <2>19. \A t \in Threads : tpc[t] # "none" => t \in DOMAIN accepted
    BY AcceptedThreads
  <2>20. Raced' = Raced
    <3>1. \A t \in Threads : sock[t] # 0 => t \in DOMAIN accepted
      BY <2>19 DEF InductiveInv, ThreadInv
    <3>. QED BY <2>1, <2>10, <3>1 DEF Raced
  <2>21. ErrorExplained'
    BY <2>1, <2>20 DEF InductiveInv, ErrorExplained
  <2>22. Stored'
    BY <2>1, <2>10, <2>19, <2>20 DEF InductiveInv, Stored, StoredBy
  <2>23. OwnInv'
    <3>1. ASSUME ~Raced, NEW t \in DOMAIN accepted PROVE ServesOwn(t)'
      <4>1. ServesOwn(t)
        BY <3>1 DEF InductiveInv, OwnInv
      <4>2. accepted[t].client \in Clients /\ accepted[t].client # Free /\ accepted[t].fd \in Fds
        BY AcceptedFields, FdAssumption
      <4>3. tpc[t] \notin {"reopen", "ended"} => fds'[accepted[t].fd] = accepted[t].client
        BY <2>2, <2>4, <4>1, <4>2 DEF ServesOwn
      <4>. QED BY <2>1, <2>10, <4>1, <4>3 DEF ServesOwn, Readable, InFlight
    <3>2. ASSUME ~Raced PROVE ServesOwn(n)'
      <4>1. rcvd[c] = 0
        BY <2>3, <3>2 DEF InductiveInv, OwnInv, ConnectionInv
      <4>. QED BY <2>1, <2>2, <2>4, <2>11, <2>16, <4>1 DEF ServesOwn
    <3>3. ASSUME ~Raced, NEW d \in Clients, \A t \in DOMAIN accepted' : accepted'[t].client # d
          PROVE  rcvd'[d] = 0
      BY <2>1, <2>9, <2>10, <3>3 DEF InductiveInv, OwnInv
    <3>. QED BY <2>9, <2>20, <3>1, <3>2, <3>3 DEF OwnInv
  <2>. QED BY <2>13, <2>15, <2>17, <2>18, <2>21, <2>22, <2>23 DEF InductiveInv
<1>. QED BY <1>1, <1>2 DEF Accept

-----------------------------------------------------------------------------
(* The threads *)

(* A thread takes its number: its own, unless main is already further. *)
LEMMA NameInv ==
  ASSUME TypeOK, InductiveInv, NEW t \in Threads, Name(t), UNCHANGED cpc
  PROVE  TypeOK' /\ InductiveInv'
<1> USE DEF tcpVars
<1>1. /\ status = "up" /\ tpc[t] = "name" /\ Goto(t, "sock")
      /\ num' = [num EXCEPT ![t] = connection_num]
      /\ UNCHANGED <<fds, sock, pos, files, tcpVars, cpc>>
  BY DEF Name, At
<1>2. connection_num \in Threads /\ connection_num \in 0..Cardinality(Clients)
  BY <1>1, AcceptedThreads DEF TypeOK
<1>3. LinksKept
  BY <1>1, CloseKeeps
<1>4. /\ tpc' = [tpc EXCEPT ![t] = "sock"]
      /\ UNCHANGED <<status, mainpc, connection_num, clientSockfd, accepted>>
  BY <1>1 DEF Goto
<1>5. TypeOK'
  BY <1>1, <1>2, <1>4 DEF TypeOK, Fds
<1>6. ThreadInv' /\ ClientInv'
  <2>1. \A s \in Threads : /\ tpc'[s] = IF s = t THEN "sock" ELSE tpc[s]
                           /\ num'[s] = IF s = t THEN connection_num ELSE num[s]
    BY <1>1, <1>4 DEF TypeOK
  <2>. QED BY <1>1, <1>2, <2>1 DEF InductiveInv, ThreadInv, ClientInv, Fds
<1>7. num[t] = 0
  BY <1>1 DEF InductiveInv, ThreadInv
<1>8. Raced => Raced'
  BY <1>1, <1>4, <1>7, RacedStays DEF TypeOK
<1>9. ASSUME ~Raced PROVE ServesOwn(t)' /\ StoredBy(t)'
  <2>1. tpc'[t] = "sock"
    BY <1>4 DEF TypeOK
  <2>2. ServesOwn(t)
    BY <1>1, <1>9, AcceptedThreads DEF InductiveInv, OwnInv
  <2>. QED BY <1>1, <1>4, <2>1, <2>2 DEF ServesOwn, StoredBy
<1>. QED BY <1>1, <1>3, <1>5, <1>6, <1>8, <1>9, ThreadStepInv

(* A thread takes its descriptor: its own, unless main is already further. *)
LEMMA SockInv ==
  ASSUME TypeOK, InductiveInv, NEW t \in Threads, Sock(t), UNCHANGED cpc
  PROVE  TypeOK' /\ InductiveInv'
<1> USE DEF tcpVars
<1>1. /\ status = "up" /\ tpc[t] = "sock" /\ Goto(t, "fopen")
      /\ sock' = [sock EXCEPT ![t] = clientSockfd]
      /\ UNCHANGED <<fds, num, pos, files, tcpVars, cpc>>
  BY DEF Sock, At
<1>2. clientSockfd \in Fds
  <2>1. t \in DOMAIN accepted /\ DOMAIN accepted = 1..Len(accepted) /\ Len(accepted) \in Nat
    BY <1>1, AcceptedThreads
  <2>2. accepted # <<>> /\ Len(accepted) \in DOMAIN accepted
    BY <2>1
  <2>. QED BY <2>2, AcceptedFields DEF InductiveInv, MainInv
<1>3. LinksKept
  BY <1>1, CloseKeeps
<1>4. /\ tpc' = [tpc EXCEPT ![t] = "fopen"]
      /\ UNCHANGED <<status, mainpc, connection_num, clientSockfd, accepted>>
  BY <1>1 DEF Goto
<1>5. TypeOK'
  BY <1>1, <1>2, <1>4 DEF TypeOK, Fds
<1>6. ThreadInv' /\ ClientInv'
  <2>1. \A s \in Threads : /\ tpc'[s] = IF s = t THEN "fopen" ELSE tpc[s]
                           /\ sock'[s] = IF s = t THEN clientSockfd ELSE sock[s]
    BY <1>1, <1>4 DEF TypeOK
  <2>. QED BY <1>1, <1>2, <2>1 DEF InductiveInv, ThreadInv, ClientInv, Fds
<1>7. sock[t] = 0
  BY <1>1 DEF InductiveInv, ThreadInv
<1>8. Raced => Raced'
  BY <1>1, <1>4, <1>7, RacedStays DEF TypeOK
<1>9. ASSUME ~Raced PROVE ServesOwn(t)' /\ StoredBy(t)'
  <2>1. tpc'[t] = "fopen"
    BY <1>4 DEF TypeOK
  <2>2. ServesOwn(t)
    BY <1>1, <1>9, AcceptedThreads DEF InductiveInv, OwnInv
  <2>. QED BY <1>1, <1>4, <2>1, <2>2 DEF ServesOwn, StoredBy
<1>. QED BY <1>1, <1>3, <1>5, <1>6, <1>8, <1>9, ThreadStepInv

(* A thread past its start has a number and a descriptor, whoever they were meant for. *)
LEMMA StartedThread ==
  ASSUME TypeOK, InductiveInv, NEW t \in Threads, tpc[t] \notin {"none", "name", "sock"}
  PROVE  num[t] \in Threads /\ sock[t] \in Fds /\ Peer(t) \in Clients \cup {Free}
<1>1. num[t] \in Threads /\ sock[t] \in Fds
  BY DEF InductiveInv, ThreadInv
<1>. QED BY <1>1, FdsType DEF Peer

(***************************************************************************)
(* A step of a thread that has its number and descriptor, and that closes  *)
(* no connection but perhaps its own.                                      *)
(***************************************************************************)
LEMMA StartedStepInv ==
  ASSUME TypeOK, InductiveInv, NEW t \in Threads,
         NEW step \in {"select", "reopen", "recv", "ended"}, Goto(t, step),
         status = "up", tpc[t] \notin {"none", "name", "sock"},
         UNCHANGED <<num, sock, backlog, sent, fin, cpc>>, LinksKept,
         Fds' = Fds, \E n \in FdLimits : fds' \in [1..n -> Clients \cup {Free}],
         pos' \in [Threads -> Nat], files' \in [Threads -> Seq(Bytes \cup {Error, Hole})],
         rcvd' \in [Clients -> Nat], \A c \in Clients : rcvd'[c] <= sent[c],
         \A s \in Threads \ {t} : pos'[s] = pos[s],
         ~Raced =>
            /\ ServesOwn(t)' /\ StoredBy(t)'
            /\ \A s \in Threads \ {t} : files'[s] = files[s]
            /\ \A s \in DOMAIN accepted \ {t} : tpc[s] \notin {"reopen", "ended"}
                  => fds'[accepted[s].fd] = fds[accepted[s].fd]
            /\ \A c \in Clients : c # accepted[t].client => rcvd'[c] = rcvd[c]
  PROVE  TypeOK' /\ InductiveInv'
<1>1. /\ tpc' = [tpc EXCEPT ![t] = step]
      /\ UNCHANGED <<status, mainpc, connection_num, clientSockfd, accepted>>
  BY DEF Goto
<1>2. \A s \in Threads : tpc'[s] = IF s = t THEN step ELSE tpc[s]
  BY <1>1 DEF TypeOK
<1>3. TypeOK'
  BY <1>1 DEF TypeOK, LinksKept
<1>4. ThreadInv'
  <2>1. num[t] \in Threads /\ sock[t] \in Fds
    BY StartedThread
  <2>. QED BY <1>2, <2>1 DEF InductiveInv, ThreadInv
<1>5. ClientInv'
  BY DEF InductiveInv, LinksKept, ClientInv
<1>6. Raced' = Raced
  BY <1>1 DEF Raced
<1>7. tpc[t] # "none" /\ step # "none"
  OBVIOUS
<1>. QED BY <1>3, <1>4, <1>5, <1>6, <1>7, ThreadStepInv

(* A thread empties its file, or the process ends. *)
LEMMA FopenInv ==
  ASSUME TypeOK, InductiveInv, NEW t \in Threads, Fopen(t), UNCHANGED cpc
  PROVE  TypeOK' /\ InductiveInv'
<1>1. status = "up" /\ tpc[t] = "fopen"
  BY DEF Fopen, At
<1>2. CASE Exit("limit")
  BY <1>2, ExitInv
<1>3. CASE Peer(t) = Free /\ Exit("error")
  <2>1. Raced
    BY <1>1, <1>3, OwnThread
  <2>. QED BY <1>3, <2>1, ExitInv
<1>4. CASE /\ files' = [files EXCEPT ![num[t]] = <<>>] /\ Goto(t, "select")
           /\ UNCHANGED <<fds, num, sock, pos, tcpVars>>
  <2> USE DEF tcpVars
  <2>1. num[t] \in Threads
    BY <1>1, StartedThread
  <2>2. files' \in [Threads -> Seq(Bytes \cup {Error, Hole})]
    <3>1. <<>> \in Seq(Bytes \cup {Error, Hole})
      OBVIOUS
    <3>. QED BY <1>4, <2>1, <3>1 DEF TypeOK
  <2>3. LinksKept
    BY <1>4, CloseKeeps
  <2>4. ASSUME ~Raced
        PROVE  /\ ServesOwn(t)' /\ StoredBy(t)'
               /\ \A s \in Threads \ {t} : files'[s] = files[s]
    <3>1. num[t] = t /\ ServesOwn(t) /\ accepted[t].client \in Clients
      BY <1>1, <2>4, OwnThread
    <3>2. /\ files'[t] = <<>> /\ \A s \in Threads \ {t} : files'[s] = files[s]
          /\ tpc'[t] = "select" /\ accepted' = accepted
      BY <1>4, <3>1 DEF TypeOK, Goto
    <3>3. rcvd[accepted[t].client] = 0 /\ pos[t] = 0
      BY <1>1, <3>1 DEF ServesOwn, InductiveInv, ThreadInv
    <3>4. ServesOwn(t)'
      BY <1>1, <1>4, <3>1, <3>2, <3>3 DEF ServesOwn
    <3>5. StoredBy(t)'
      <4>1. files'[t] = File(accepted[t].client, 0)
        BY <3>1, <3>2, FileFacts
      <4>. QED BY <1>4, <3>2, <3>3, <4>1 DEF StoredBy
    <3>. QED BY <3>2, <3>4, <3>5
  <2>5. /\ Fds' = Fds /\ \E n \in FdLimits : fds' \in [1..n -> Clients \cup {Free}]
        /\ pos' \in [Threads -> Nat] /\ rcvd' \in [Clients -> Nat] /\ \A c \in Clients : rcvd'[c] <= sent[c]
    BY <1>4 DEF TypeOK, Fds, InductiveInv, ClientInv
  <2>. QED BY <1>1, <1>4, <2>2, <2>3, <2>4, <2>5, StartedStepInv
<1>. QED BY <1>2, <1>3, <1>4 DEF Fopen

(* A thread goes on without a change to any file or descriptor. *)
LEMMA GoOnInv ==
  ASSUME TypeOK, InductiveInv, NEW t \in Threads, NEW step \in {"recv", "ended"}, Goto(t, step),
         status = "up", tpc[t] \in {"select", "recv"},
         UNCHANGED <<fds, threadVars, tcpVars, cpc>>,
         ~Raced /\ step = "recv" => Readable(accepted[t].client),
         ~Raced /\ step = "ended" => StoredBy(t)'
  PROVE  TypeOK' /\ InductiveInv'
<1> USE DEF tcpVars, threadVars
<1>1. LinksKept
  BY CloseKeeps
<1>2. ASSUME ~Raced PROVE ServesOwn(t)' /\ StoredBy(t)'
  <2>1. ServesOwn(t) /\ accepted[t].client \in Clients
    BY <1>2, OwnThread
  <2>2. tpc'[t] = step /\ accepted' = accepted
    BY DEF Goto, TypeOK
  <2>3. ServesOwn(t)'
    BY <1>2, <2>1, <2>2 DEF ServesOwn, Readable, InFlight
  <2>4. StoredBy(t)
    BY <1>2 DEF InductiveInv, Stored
  <2>5. StoredBy(t)'
    BY <1>2, <2>2, <2>4 DEF StoredBy
  <2>. QED BY <2>3, <2>5
<1>3. /\ Fds' = Fds /\ \E n \in FdLimits : fds' \in [1..n -> Clients \cup {Free}]
      /\ pos' \in [Threads -> Nat] /\ files' \in [Threads -> Seq(Bytes \cup {Error, Hole})]
      /\ rcvd' \in [Clients -> Nat] /\ \A c \in Clients : rcvd'[c] <= sent[c]
  BY DEF TypeOK, Fds, InductiveInv, ClientInv
<1>. QED BY <1>1, <1>2, <1>3, StartedStepInv

(* select says that there is something to receive. *)
LEMMA SelectReadyInv ==
  ASSUME TypeOK, InductiveInv, NEW t \in Threads, SelectReady(t), UNCHANGED cpc
  PROVE  TypeOK' /\ InductiveInv'
<1>1. status = "up" /\ tpc[t] = "select"
  BY DEF SelectReady, At
<1>2. ~Raced => Peer(t) = accepted[t].client /\ Peer(t) # Free
  BY <1>1, OwnThread
<1>3. CASE Peer(t) = Free /\ Exit("error")
  BY <1>2, <1>3, ExitInv
<1>4. CASE Readable(Peer(t)) /\ Goto(t, "recv") /\ UNCHANGED <<fds, threadVars, tcpVars>>
  <2>1. ~Raced => Readable(accepted[t].client)
    BY <1>2, <1>4
  <2>2. tpc[t] \in {"select", "recv"} /\ status = "up" /\ "recv" \in {"recv", "ended"}
    BY <1>1
  <2>3. UNCHANGED <<fds, threadVars, tcpVars, cpc>>
    BY <1>4
  <2>. QED BY <1>4, <2>1, <2>2, <2>3, GoOnInv
<1>. QED BY <1>3, <1>4 DEF SelectReady

(* The end of what the client sent: the thread has it all. *)
LEMMA RecvEndInv ==
  ASSUME TypeOK, InductiveInv, NEW t \in Threads, RecvEnd(t), UNCHANGED cpc
  PROVE  TypeOK' /\ InductiveInv'
<1> USE DEF tcpVars, threadVars
<1>1. /\ status = "up" /\ tpc[t] = "recv" /\ Goto(t, "ended")
      /\ InFlight(Peer(t)) = 0 /\ Peer(t) \in fin
      /\ UNCHANGED <<fds, threadVars, tcpVars, cpc>>
  BY DEF RecvEnd, At
<1>2. ASSUME ~Raced PROVE StoredBy(t)'
  <2> DEFINE c == accepted[t].client
  <2>1. c \in Clients /\ Peer(t) = c
    BY <1>1, <1>2, OwnThread
  <2>2. files[t] = File(c, rcvd[c])
    BY <1>1, <1>2 DEF InductiveInv, Stored, StoredBy
  <2>3. sent[c] \in Nat /\ rcvd[c] = sent[c]
    BY <1>1, <2>1 DEF InFlight, TypeOK
  <2>4. Len(files[t]) = sent[c] /\ (cpc[c] = "done" => sent[c] = FileLen[c])
    BY <2>1, <2>2, <2>3, FileFacts DEF InductiveInv, ClientInv
  <2>5. tpc'[t] = "ended" /\ accepted' = accepted
    BY <1>1 DEF Goto, TypeOK
  <2>. QED BY <1>1, <2>1, <2>2, <2>3, <2>4, <2>5 DEF StoredBy
<1>. QED BY <1>1, <1>2, GoOnInv

(* recv fails only after a thread was overtaken, or when the connection was reset. *)
LEMMA RecvErrorInv ==
  ASSUME TypeOK, InductiveInv, NEW t \in Threads, RecvError(t), UNCHANGED cpc
  PROVE  TypeOK' /\ InductiveInv'
<1>1. status = "up" /\ tpc[t] = "recv" /\ Exit("error")
  BY DEF RecvError, At
<1>2. ASSUME ~Raced PROVE \E c \in Clients : link[c] = "reset"
  <2> DEFINE c == accepted[t].client
  <2>1. c \in Clients /\ c # Free /\ Peer(t) = c /\ ServesOwn(t)
    BY <1>1, <1>2, OwnThread
  <2>2. Readable(c)
    BY <1>1, <2>1 DEF ServesOwn
  <2> HIDE DEF c
  <2>3. link[c] = "reset" \/ (InFlight(c) = 0 /\ c \notin fin)
    BY <2>1 DEF RecvError
  <2>. QED BY <2>1, <2>2, <2>3 DEF Readable
<1>. QED BY <1>1, <1>2, ExitInv

(* The file cannot be written. *)
LEMMA WriteErrorInv ==
  ASSUME TypeOK, InductiveInv, NEW t \in Threads, WriteError(t), UNCHANGED cpc
  PROVE  TypeOK' /\ InductiveInv'
BY ExitInv DEF WriteError

(* Nothing came in time: the thread closes its connection and no other. *)
LEMMA SelectTimeoutInv ==
  ASSUME TypeOK, InductiveInv, NEW t \in Threads, SelectTimeout(t), UNCHANGED cpc
  PROVE  TypeOK' /\ InductiveInv'
<1> USE DEF threadVars
<1>1. /\ status = "up" /\ tpc[t] = "select" /\ Goto(t, "reopen")
      /\ fds' = [fds EXCEPT ![sock[t]] = Free] /\ CloseLinks({Peer(t)})
      /\ UNCHANGED <<threadVars, backlog, sent, rcvd, fin, cpc>>
  BY DEF SelectTimeout, At
<1>2. sock[t] \in Fds
  BY <1>1, StartedThread
<1>3. /\ \E n \in FdLimits : fds' \in [1..n -> Clients \cup {Free}]
      /\ Fds' = Fds
      /\ \A g \in Fds : fds'[g] = IF g = sock[t] THEN Free ELSE fds[g]
  <2>1. fds' = [fds EXCEPT ![sock[t]] = Free] /\ Free \in Clients \cup {Free}
    BY <1>1
  <2>. QED BY <1>2, <2>1, SetFd
<1>4. LinksKept
  BY <1>1, CloseKeeps
<1>5. ASSUME ~Raced
      PROVE  /\ ServesOwn(t)' /\ StoredBy(t)'
             /\ \A s \in DOMAIN accepted \ {t} : tpc[s] \notin {"reopen", "ended"}
                   => fds'[accepted[s].fd] = fds[accepted[s].fd]
  <2>1. t \in DOMAIN accepted /\ ServesOwn(t) /\ sock[t] = accepted[t].fd
    BY <1>1, <1>5, OwnThread
  <2>2. tpc'[t] = "reopen" /\ accepted' = accepted
    BY <1>1 DEF Goto, TypeOK
  <2>3. ServesOwn(t)' /\ StoredBy(t)'
    BY <2>2 DEF ServesOwn, StoredBy
  <2>4. fds[accepted[t].fd] = accepted[t].client
    BY <1>1, <2>1 DEF ServesOwn
  <2>5. ASSUME NEW s \in DOMAIN accepted \ {t}, tpc[s] \notin {"reopen", "ended"}
        PROVE  fds'[accepted[s].fd] = fds[accepted[s].fd]
    <3>1. ServesOwn(s) /\ accepted[s].fd \in Fds
      BY <1>5, AcceptedFields DEF InductiveInv, OwnInv
    <3>2. accepted[s].client # accepted[t].client
      BY <2>1 DEF InductiveInv, ConnectionInv
    <3>3. fds[accepted[s].fd] = accepted[s].client
      BY <2>5, <3>1 DEF ServesOwn
    <3>. QED BY <1>3, <2>1, <2>4, <3>1, <3>2, <3>3
  <2>. QED BY <2>3, <2>5
<1>6. /\ pos' \in [Threads -> Nat] /\ files' \in [Threads -> Seq(Bytes \cup {Error, Hole})]
      /\ rcvd' \in [Clients -> Nat] /\ \A c \in Clients : rcvd'[c] <= sent[c]
  BY <1>1 DEF TypeOK, InductiveInv, ClientInv
<1>. QED BY <1>1, <1>3, <1>4, <1>5, <1>6, StartedStepInv

(* The thread writes ERROR into its file. *)
LEMMA ReopenInv ==
  ASSUME TypeOK, InductiveInv, NEW t \in Threads, Reopen(t), UNCHANGED cpc
  PROVE  TypeOK' /\ InductiveInv'
<1>1. status = "up" /\ tpc[t] = "reopen"
  BY DEF Reopen, At
<1>2. CASE Exit("limit")
  BY <1>2, ExitInv
<1>3. CASE /\ files' = [files EXCEPT ![num[t]] = <<Error>>] /\ Goto(t, "ended")
           /\ UNCHANGED <<fds, num, sock, pos, tcpVars>>
  <2> USE DEF tcpVars
  <2>1. num[t] \in Threads
    BY <1>1, StartedThread
  <2>2. files' \in [Threads -> Seq(Bytes \cup {Error, Hole})]
    <3>1. <<Error>> \in Seq(Bytes \cup {Error, Hole})
      OBVIOUS
    <3>. QED BY <1>3, <2>1, <3>1 DEF TypeOK
  <2>3. LinksKept
    BY <1>3, CloseKeeps
  <2>4. ASSUME ~Raced
        PROVE  /\ ServesOwn(t)' /\ StoredBy(t)'
               /\ \A s \in Threads \ {t} : files'[s] = files[s]
    <3>1. num[t] = t
      BY <1>1, <2>4, OwnThread
    <3>2. /\ files'[t] = <<Error>> /\ \A s \in Threads \ {t} : files'[s] = files[s]
          /\ tpc'[t] = "ended" /\ accepted' = accepted
      BY <1>3, <3>1 DEF TypeOK, Goto
    <3>. QED BY <3>2 DEF ServesOwn, StoredBy
  <2>5. /\ Fds' = Fds /\ \E n \in FdLimits : fds' \in [1..n -> Clients \cup {Free}]
        /\ pos' \in [Threads -> Nat] /\ rcvd' \in [Clients -> Nat] /\ \A c \in Clients : rcvd'[c] <= sent[c]
    BY <1>3 DEF TypeOK, Fds, InductiveInv, ClientInv
  <2>. QED BY <1>1, <1>3, <2>2, <2>3, <2>4, <2>5, StartedStepInv
<1>. QED BY <1>2, <1>3 DEF Reopen

(* What fwrite leaves in a file: bytes of clients, errors, and holes if it writes past the end. *)
LEMMA WrittenType ==
  ASSUME NEW B, Hole \in B, NEW file \in Seq(B), NEW at \in Nat, NEW data \in Seq(B)
  PROVE  /\ Written(file, at, data) \in Seq(B)
         /\ DOMAIN Written(file, at, data) = 1..Max({Len(file), at + Len(data)})
<1>1. Len(file) \in Nat /\ Len(data) \in Nat /\ at + Len(data) \in Nat
  BY LenProperties
<1>2. Max({Len(file), at + Len(data)}) \in Nat
  BY <1>1, MaxOfTwo
<1> DEFINE m == Max({Len(file), at + Len(data)})
<1> HIDE DEF m
<1>3. \A i \in 1..m : (IF i \in at + 1..at + Len(data) THEN data[i - at]
                       ELSE IF i <= Len(file) THEN file[i] ELSE Hole) \in B
  <2>1. SUFFICES ASSUME NEW i \in 1..m
        PROVE  /\ i \in at + 1..at + Len(data) => data[i - at] \in B
               /\ i <= Len(file) => file[i] \in B
    OBVIOUS
  <2>2. i \in Nat /\ 1 <= i
    BY <1>2 DEF m
  <2>3. i <= Len(file) => i \in 1..Len(file)
    BY <1>1, <2>2
  <2>4. i \in at + 1..at + Len(data) => i - at \in 1..Len(data)
    BY <1>1, <2>2
  <2>. QED BY <2>3, <2>4, ElementOfSeq
<1>4. Written(file, at, data) \in [1..m -> B]
  BY <1>3 DEF Written, m
<1>. QED BY <1>2, <1>4, SeqDef DEF m

(* Bytes that are written at the end of a file extend it. *)
LEMMA WrittenFile ==
  ASSUME NEW c \in Clients, NEW r \in Nat, NEW n \in Nat
  PROVE  Written(File(c, r), r, [i \in 1..n |-> <<c, r + i>>]) = File(c, r + n)
<1> DEFINE file == File(c, r)
           data == [i \in 1..n |-> <<c, r + i>>]
           W(i) == IF i \in r + 1..r + Len(data) THEN data[i - r]
                   ELSE IF i <= Len(file) THEN file[i] ELSE Hole
<1>1. Len(file) = r /\ \A i \in 1..r : file[i] = <<c, i>>
  BY FileFacts
<1>2. data \in Seq(Clients \X Nat) /\ Len(data) = n
  <2>1. data \in [1..n -> Clients \X Nat]
    OBVIOUS
  <2>2. data \in Seq(Clients \X Nat) /\ DOMAIN data = 1..n
    BY <2>1, SeqDef
  <2>. QED BY <2>2
<1>3. Max({Len(file), r + Len(data)}) = r + n
  BY <1>1, <1>2, MaxOfTwo
<1>4. ASSUME NEW i \in 1..(r + n) PROVE W(i) = <<c, i>>
  <2>1. CASE i <= r
    <3>1. i \in 1..r /\ ~(i \in r + 1..r + n)
      BY <2>1
    <3> HIDE DEF file, data
    <3>. QED BY <1>1, <1>2, <2>1, <3>1
  <2>2. CASE i > r
    <3>1. i \in r + 1..r + n /\ i - r \in 1..n /\ r + (i - r) = i
      BY <2>2
    <3>2. data[i - r] = <<c, i>>
      BY <3>1
    <3> HIDE DEF file, data
    <3>. QED BY <1>2, <3>1, <3>2
  <2> HIDE DEF W
  <2>. QED BY <2>1, <2>2
<1>5. Written(file, r, data) = [i \in 1..Max({Len(file), r + Len(data)}) |-> W(i)]
  BY DEF Written
<1> HIDE DEF W
<1>6. [i \in 1..(r + n) |-> W(i)] = [i \in 1..(r + n) |-> <<c, i>>]
  BY <1>4
<1>. QED BY <1>3, <1>5, <1>6 DEF File

(* Bytes are received, and written where the stream of the thread is. *)
LEMMA RecvDataInv ==
  ASSUME TypeOK, InductiveInv, NEW t \in Threads, RecvData(t), UNCHANGED cpc
  PROVE  TypeOK' /\ InductiveInv'
<1> DEFINE c == Peer(t)
<1>1. /\ status = "up" /\ tpc[t] = "recv" /\ c # Free /\ Goto(t, "select")
      /\ UNCHANGED <<fds, num, sock, link, backlog, sent, fin, cpc>>
  BY DEF RecvData, At
<1>2. num[t] \in Threads /\ c \in Clients
  BY <1>1, StartedThread
<1>3. PICK n \in 1..Min({BUF, InFlight(c)}) :
        /\ files' = [files EXCEPT ![num[t]] =
                        Written(@, pos[t], [i \in 1..n |-> <<c, rcvd[c] + i>>])]
        /\ pos' = [pos EXCEPT ![t] = @ + n]
        /\ rcvd' = [rcvd EXCEPT ![c] = @ + n]
  BY DEF RecvData
<1> DEFINE data == [i \in 1..n |-> <<c, rcvd[c] + i>>]
<1>4. files' = [files EXCEPT ![num[t]] = Written(files[num[t]], pos[t], data)]
  BY <1>3
<1> HIDE DEF c
<1>5. rcvd[c] \in Nat /\ sent[c] \in Nat /\ pos[t] \in Nat /\ files[num[t]] \in Seq(Bytes \cup {Error, Hole})
  BY <1>2 DEF TypeOK
<1>6. n \in Nat /\ rcvd[c] + n <= sent[c]
  <2>1. BUF \in Int /\ InFlight(c) \in Int
    BY <1>5, TcpAssumption DEF InFlight
  <2>2. Min({BUF, InFlight(c)}) \in Int /\ Min({BUF, InFlight(c)}) <= InFlight(c)
    BY <2>1, MinOfTwo
  <2>3. n \in Nat /\ n <= InFlight(c)
    BY <2>1, <2>2
  <2>. QED BY <1>5, <2>3 DEF InFlight
<1>7. files' \in [Threads -> Seq(Bytes \cup {Error, Hole})]
  <2>1. data \in [1..n -> Bytes \cup {Error, Hole}]
    BY <1>2, <1>5, <1>6 DEF Bytes
  <2>2. data \in Seq(Bytes \cup {Error, Hole})
    BY <1>6, <2>1, SeqDef
  <2> HIDE DEF data
  <2>3. Written(files[num[t]], pos[t], data) \in Seq(Bytes \cup {Error, Hole})
    BY <1>5, <2>2, WrittenType
  <2>. QED BY <1>2, <1>4, <2>3 DEF TypeOK
<1>8. /\ rcvd' \in [Clients -> Nat]
      /\ \A d \in Clients : rcvd'[d] = IF d = c THEN rcvd[c] + n ELSE rcvd[d]
  BY <1>2, <1>3, <1>5, <1>6 DEF TypeOK
<1>9. \A d \in Clients : rcvd'[d] <= sent[d]
  BY <1>6, <1>8 DEF InductiveInv, ClientInv
<1>10. /\ pos' \in [Threads -> Nat]
       /\ \A s \in Threads : pos'[s] = IF s = t THEN pos[t] + n ELSE pos[s]
  BY <1>3, <1>5, <1>6 DEF TypeOK
<1>11. LinksKept
  BY <1>1, CloseKeeps
<1>12. Fds' = Fds /\ \E m \in FdLimits : fds' \in [1..m -> Clients \cup {Free}]
  BY <1>1 DEF TypeOK, Fds
<1>13. ASSUME ~Raced
       PROVE  /\ ServesOwn(t)' /\ StoredBy(t)'
              /\ \A s \in Threads \ {t} : files'[s] = files[s]
              /\ \A d \in Clients : d # accepted[t].client => rcvd'[d] = rcvd[d]
  <2>1. num[t] = t /\ ServesOwn(t) /\ c = accepted[t].client
    BY <1>1, <1>13, OwnThread DEF c
  <2>2. files[t] = File(c, rcvd[c]) /\ pos[t] = rcvd[c] /\ fds[accepted[t].fd] = c
    BY <1>1, <1>13, <2>1 DEF ServesOwn, InductiveInv, Stored, StoredBy
  <2>3. Written(files[t], pos[t], data) = File(c, rcvd[c] + n)
    <3>1. rcvd[c] \in Nat /\ n \in Nat
      BY <1>5, <1>6
    <3>2. Written(File(c, rcvd[c]), rcvd[c], data) = File(c, rcvd[c] + n)
      BY <1>2, <3>1, WrittenFile
    <3> HIDE DEF data
    <3>. QED BY <2>2, <3>2
  <2> HIDE DEF data
  <2>4. /\ files'[t] = File(c, rcvd'[c])
        /\ \A s \in Threads \ {t} : files'[s] = files[s]
    BY <1>2, <1>4, <1>8, <2>1, <2>3 DEF TypeOK
  <2>5. tpc'[t] = "select" /\ accepted' = accepted
    BY <1>1 DEF Goto, TypeOK
  <2>6. ServesOwn(t)'
    BY <1>1, <1>2, <1>8, <1>10, <2>1, <2>2, <2>5 DEF ServesOwn
  <2>7. StoredBy(t)'
    BY <2>1, <2>4, <2>5 DEF StoredBy
  <2>. QED BY <1>8, <2>1, <2>4, <2>6, <2>7
<1>. QED BY <1>1, <1>7, <1>8, <1>9, <1>10, <1>11, <1>12, <1>13, StartedStepInv

-----------------------------------------------------------------------------
(* Every step of the server, the network and the hosts keeps the invariant. *)
LEMMA NextInv == TypeOK /\ InductiveInv /\ [Next]_vars => TypeOK' /\ InductiveInv'
<1> SUFFICES ASSUME TypeOK, InductiveInv, [Next]_vars PROVE TypeOK' /\ InductiveInv'
  OBVIOUS
<1>1. CASE Main /\ UNCHANGED cpc
  BY <1>1, ListenInv, AcceptInv, CountInv, SpawnInv DEF Main
<1>2. CASE signal_handler /\ UNCHANGED cpc
  BY <1>2, ExitInv DEF signal_handler
<1>3. CASE (\E t \in Threads : connection_handler(t)) /\ UNCHANGED cpc
  <2>1. PICK t \in Threads : connection_handler(t)
    BY <1>3
  <2>. QED BY <1>3, <2>1, NameInv, SockInv, FopenInv, SelectReadyInv, SelectTimeoutInv, ReopenInv,
              RecvDataInv, WriteErrorInv, RecvEndInv, RecvErrorInv DEF connection_handler
<1>4. CASE Network
  BY <1>4, HandshakeInv DEF Network
<1>5. CASE Hosts
  BY <1>5, ClientsInv DEF Hosts
<1>6. CASE UNCHANGED vars
  <2> USE <1>6 DEF vars, tcpVars, serverVars, threadVars
  <2>1. TypeOK'
    BY DEF TypeOK, Fds
  <2>2. ConnectionInv' /\ MainInv' /\ ThreadInv' /\ ClientInv' /\ RefusedNoticed'
    BY DEF Fds, InductiveInv, ConnectionInv, MainInv, ThreadInv, ClientInv, RefusedNoticed
  <2>3. Raced' = Raced
    BY DEF Raced
  <2>4. OwnInv' /\ ErrorExplained'
    BY <2>3 DEF InductiveInv, OwnInv, ServesOwn, Readable, InFlight, ErrorExplained
  <2>5. Stored'
    BY <2>3 DEF InductiveInv, Stored, StoredBy
  <2>. QED BY <2>1, <2>2, <2>4, <2>5 DEF InductiveInv
<1>. QED BY <1>1, <1>2, <1>3, <1>4, <1>5, <1>6 DEF Next, Server

(***************************************************************************)
(* The inductive invariant holds in every reachable state: main, the       *)
(* threads and the clients agree on which thread serves which connection,  *)
(* and a thread that was not overtaken reads and writes what is its own.   *)
(***************************************************************************)
THEOREM UploadInvariant == Spec => [](TypeOK /\ InductiveInv)
<1>1. Init => TypeOK /\ InductiveInv
  BY InitInv
<1>2. TypeOK /\ InductiveInv /\ [Next]_vars => TypeOK' /\ InductiveInv'
  BY NextInv
<1>. QED BY <1>1, <1>2, PTL DEF Spec

(* Every variable of the server, its clients and the network keeps its type. *)
THEOREM UploadTypes == Spec => []TypeOK
BY UploadInvariant, PTL

(***************************************************************************)
(* As long as no thread was overtaken by main, the file of every thread    *)
(* holds exactly what its own client sent, however the threads interleave  *)
(* and however recv cuts the stream (connection_handler).                  *)
(***************************************************************************)
THEOREM StoredHolds == Spec => []Stored
<1>1. TypeOK /\ InductiveInv => Stored
  BY DEF InductiveInv
<1>. QED BY <1>1, UploadInvariant, PTL

(***************************************************************************)
(* The server exits with an error only after a thread was overtaken or     *)
(* when a client's host resets its connection.                             *)
(***************************************************************************)
THEOREM ErrorExplainedHolds == Spec => []ErrorExplained
<1>1. TypeOK /\ InductiveInv => ErrorExplained
  BY DEF InductiveInv
<1>. QED BY <1>1, UploadInvariant, PTL

(***************************************************************************)
(* A client that took a refused connection for a success and had a byte to *)
(* send does not exit successfully (client.cpp).                           *)
(***************************************************************************)
THEOREM RefusedNoticedHolds == Spec => []RefusedNoticed
<1>1. TypeOK /\ InductiveInv => RefusedNoticed
  BY DEF InductiveInv
<1>. QED BY <1>1, UploadInvariant, PTL
=============================================================================
