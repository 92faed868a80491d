------------------------------- MODULE Upload -------------------------------
(***************************************************************************)
(* The upload server of Project1 with its clients, and what the pair       *)
(* promises.                                                               *)
(***************************************************************************)
EXTENDS FileServer, FileClient

vars == <<tcpVars, serverVars, cpc>>

Init == TcpInit /\ ServerInit /\ ClientInit

Server == (Main \/ signal_handler \/ \E t \in Threads : connection_handler(t)) /\ UNCHANGED cpc

Network == \E c \in Clients : Handshake(c, Listening) /\ UNCHANGED <<serverVars, cpc>>

Hosts == \E c \in Clients : (Client(c) \/ Vanish(c) \/ PeerReset(c)) /\ UNCHANGED serverVars

Next == Server \/ Network \/ Hosts

Spec == Init /\ [][Next]_vars

(* Every thread and every client runs on; a timer fires if nothing else happens. *)
FairSpec ==
    /\ Spec
    /\ WF_vars(Main /\ UNCHANGED cpc)
    /\ \A t \in Threads : WF_vars(connection_handler(t) /\ UNCHANGED cpc)
    /\ \A c \in Clients : WF_vars(Client(c) /\ UNCHANGED serverVars)

-----------------------------------------------------------------------------
(* Types of every variable. *)
TypeOK ==
    /\ link \in [Clients -> Links]
    /\ backlog \in Seq(Clients) /\ Len(backlog) <= Backlog
    /\ sent \in [Clients -> Nat] /\ rcvd \in [Clients -> Nat]
    /\ fin \subseteq Clients
    /\ status \in {"up", "signal", "limit", "error"}
    /\ mainpc \in {"boot", "accept", "count", "spawn"}
    /\ connection_num \in 0..Cardinality(Clients)
    /\ clientSockfd \in {0} \cup Fds
    /\ \E n \in FdLimits : fds \in [1..n -> Clients \cup {Free}]
    /\ accepted \in Seq([client : Clients, fd : Fds])
    /\ tpc \in [Threads -> {"none", "name", "sock", "fopen", "select", "reopen", "recv", "ended"}]
    /\ num \in [Threads -> 0..Cardinality(Clients)]
    /\ sock \in [Threads -> {0} \cup Fds]
    /\ pos \in [Threads -> Nat]
    /\ files \in [Threads -> Seq(Bytes \cup {Error, Hole})]
    /\ cpc \in [Clients -> {"start", "connecting", "opening", "sending"} \cup Ended]

(* A thread took a number or a descriptor that was not meant for it. *)
Raced ==
    \E t \in Threads : \/ num[t] \notin {0, t}
                       \/ sock[t] # 0 /\ sock[t] # accepted[t].fd

File(c, n) == [i \in 1..n |-> <<c, i>>]

(***************************************************************************)
(* As long as no thread was overtaken, the file of a thread holds exactly  *)
(* what its own client has sent it so far; when the thread has ended it    *)
(* holds all the client sent before it closed, which is the whole file if  *)
(* the client ended well, or else nothing but ERROR (connection_handler).  *)
(***************************************************************************)
StoredBy(t) ==
    tpc[t] \in {"select", "recv", "ended"} =>
        LET c == accepted[t].client
            file == files[t]
        IN  \/ tpc[t] # "ended" /\ file = File(c, rcvd[c])
            \/ tpc[t] = "ended" /\ file = <<Error>>
            \/ /\ tpc[t] = "ended" /\ c \in fin
               /\ file = File(c, sent[c])
               /\ cpc[c] = "done" => Len(file) = FileLen[c]
Stored == ~Raced => \A t \in Threads : StoredBy(t)

(***************************************************************************)
(* No connection can end the server: an error of fcntl, select or recv,    *)
(* each of which exits, happens only after a thread was overtaken or when  *)
(* a client's host resets its connection.                                  *)
(***************************************************************************)
ErrorExplained == status = "error" => Raced \/ \E c \in Clients : link[c] = "reset"

(***************************************************************************)
(* A client that "exited successfully" had a connection, although it takes *)
(* a refused connection for a success at first: the first send fails.      *)
(* Only an empty file, which sends nothing, goes unnoticed.                *)
(***************************************************************************)
RefusedNoticed ==
    \A c \in Clients : cpc[c] = "done" => link[c] # "refused" \/ FileLen[c] = 0

(***************************************************************************)
(* Every client process ends, and every connection that was made gets a    *)
(* thread that ends, unless the server exits: neither a client that        *)
(* vanishes nor a thread that was overtaken blocks a thread for ever.      *)
(***************************************************************************)
ServedBy(c) == \E t \in Threads : tpc[t] = "ended" /\ accepted[t].client = c
UploadsEnd ==
    \A c \in Clients : /\ <>(cpc[c] \in Ended)
                       /\ link[c] = "open" ~> ServedBy(c) \/ status # "up"

(***************************************************************************)
(* "The server accepts multiple connections from different clients. ... we *)
(* use multithread method to handle each clients." (Project1/README.md:37):*)
(* each connection is stored in a file of its own.                         *)
(***************************************************************************)
OwnFile ==
    \A s, t \in Threads : s # t /\ num[s] # 0 => num[s] # num[t]
=============================================================================
