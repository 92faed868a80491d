----------------------------- MODULE UploadInv -----------------------------
(***************************************************************************)
(* The inductive invariant behind the theorems of UploadProofs: which      *)
(* thread serves which connection, and, as long as no thread was           *)
(* overtaken, that its descriptor, its stream and its file are its own.    *)
(***************************************************************************)
EXTENDS Upload

Unconnected == {"none", "waiting", "refused"}

(* A client has at most one connection, which waits for accept or was accepted, once. *)
ConnectionInv ==
    /\ \A i, j \in DOMAIN accepted : accepted[i].client = accepted[j].client => i = j
    /\ \A i, j \in DOMAIN backlog : backlog[i] = backlog[j] => i = j
    /\ \A i \in DOMAIN accepted, j \in DOMAIN backlog : accepted[i].client # backlog[j]
    /\ \A i \in DOMAIN accepted : link[accepted[i].client] \notin Unconnected
    /\ \A j \in DOMAIN backlog : link[backlog[j]] \notin Unconnected

(* How far main is: it counts a connection after accept and then starts its thread. *)
MainInv ==
    /\ connection_num = IF mainpc = "count" THEN Len(accepted) - 1 ELSE Len(accepted)
    /\ mainpc \in {"count", "spawn"} => accepted # <<>> /\ tpc[Len(accepted)] = "none"
    /\ accepted # <<>> => clientSockfd = accepted[Len(accepted)].fd
    /\ \A t \in Threads : tpc[t] # "none" => t <= connection_num

(* What a thread has when it reaches a step. *)
ThreadInv ==
    \A t \in Threads :
        /\ IF tpc[t] \in {"none", "name"} THEN num[t] = 0 ELSE num[t] \in Threads
        /\ IF tpc[t] \in {"none", "name", "sock"} THEN sock[t] = 0 ELSE sock[t] \in Fds
        /\ tpc[t] \in {"none", "name", "sock", "fopen"} => pos[t] = 0

(* What a client has sent: nothing without a connection, all of it if it ended well. *)
ClientInv ==
    \A c \in Clients :
        /\ rcvd[c] <= sent[c]
        /\ cpc[c] = "start" => link[c] = "none"
        /\ link[c] \in Unconnected => sent[c] = 0
        /\ c \in fin => cpc[c] \in {"done", "failed"}
        /\ cpc[c] = "done" => sent[c] = FileLen[c]

(* The descriptor, the stream and the data of the thread that serves a connection. *)
ServesOwn(t) ==
    LET c == accepted[t].client
    IN  /\ tpc[t] \notin {"reopen", "ended"} => fds[accepted[t].fd] = c
        /\ tpc[t] \in {"none", "name", "sock", "fopen"} => rcvd[c] = 0
        /\ tpc[t] \in {"select", "recv"} => pos[t] = rcvd[c]
        /\ tpc[t] = "recv" => Readable(c)

OwnInv ==
    ~Raced =>
        /\ \A t \in DOMAIN accepted : ServesOwn(t)
        /\ \A c \in Clients : (\A t \in DOMAIN accepted : accepted[t].client # c) => rcvd[c] = 0

InductiveInv ==
    /\ ConnectionInv /\ MainInv /\ ThreadInv /\ ClientInv /\ OwnInv
    /\ Stored /\ ErrorExplained /\ RefusedNoticed
=============================================================================
