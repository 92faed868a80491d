---------------------------- MODULE FileServer ----------------------------
(***************************************************************************)
(* The upload server (Project1/server.cpp): main accepts connections and   *)
(* starts a thread for each.  A thread reads the global connection_num     *)
(* and, through a pointer, main's variable clientSockfd only after it has  *)
(* started, when main may be one or more connections ahead.                *)
(***************************************************************************)
EXTENDS TcpStream

CONSTANTS
    FdLimits,       \* how many descriptors the process may have for connections and files
    Free, Error, Hole

ASSUME FdAssumption == FdLimits \subseteq Nat /\ Free \notin Clients

VARIABLES
    status,         \* "up", or why the process ended
    mainpc,         \* what main does next
    connection_num,
    clientSockfd,   \* main's variable, which the threads read
    fds,            \* client behind each descriptor
    accepted,       \* history: what accept returned, in order
    tpc,            \* what each thread does next; threads are numbered as they start
    num, sock,      \* a thread's file number and descriptor
    pos,            \* position of its stream
    files           \* contents of target_dir/<n>.file

serverVars == <<status, mainpc, connection_num, clientSockfd, fds, accepted, tpc, num, sock, pos, files>>
threadVars == <<num, sock, pos, files>>

Threads == 1..Cardinality(Clients)
Fds == DOMAIN fds
Bytes == Clients \X Nat

ServerInit ==
    /\ status = "up" /\ mainpc = "boot"
    /\ connection_num = 0
    /\ clientSockfd = 0
    /\ \E n \in FdLimits : fds = [f \in 1..n |-> Free]
    /\ accepted = <<>>
    /\ tpc = [t \in Threads |-> "none"]
    /\ num = [t \in Threads |-> 0]
    /\ sock = [t \in Threads |-> 0]
    /\ pos = [t \in Threads |-> 0]
    /\ files = [n \in Threads |-> <<>>]

(* exit: the kernel closes every connection, those that wait for accept too. *)
Exit(why) ==
    /\ status' = why
    /\ CloseLinks(Clients)
    /\ UNCHANGED <<mainpc, connection_num, clientSockfd, fds, accepted, tpc, threadVars,
                   backlog, sent, rcvd, fin>>

(* Streams count against the limit; their descriptors are otherwise left out. *)
Streaming == {t \in Threads : tpc[t] \in {"select", "recv"}}
FreeFds == {f \in Fds : fds[f] = Free}
Full == Cardinality(FreeFds) <= Cardinality(Streaming)

-----------------------------------------------------------------------------
(* main, up to listen: until then a connection is refused. *)
Listening == status = "up" /\ mainpc # "boot"

Listen ==
    /\ status = "up" /\ mainpc = "boot"
    /\ \/ /\ mainpc' = "accept"
          /\ UNCHANGED <<status, connection_num, clientSockfd, fds, accepted, tpc, threadVars, tcpVars>>
       \/ Exit("limit")

Accept ==
    /\ status = "up" /\ mainpc = "accept" /\ backlog # <<>>
    /\ \/ /\ ~Full
          /\ LET fd == Min(FreeFds)
             IN  /\ clientSockfd' = fd
                 /\ fds' = [fds EXCEPT ![fd] = Head(backlog)]
                 /\ accepted' = Append(accepted, [client |-> Head(backlog), fd |-> fd])
          /\ backlog' = Tail(backlog)
          /\ mainpc' = "count"
          /\ UNCHANGED <<status, connection_num, tpc, threadVars, link, sent, rcvd, fin>>
       \/ Full /\ Exit("limit")

(* Mutant: the connection is counted when it is accepted and again for its thread. *)
CountTwice ==
    /\ status = "up" /\ mainpc = "count"
    /\ connection_num' = connection_num + 2
    /\ mainpc' = "spawn"
    /\ UNCHANGED <<status, clientSockfd, fds, accepted, tpc, threadVars, tcpVars>>

Count ==
    /\ status = "up" /\ mainpc = "count"
    /\ connection_num' = connection_num + 1
    /\ mainpc' = "spawn"
    /\ UNCHANGED <<status, clientSockfd, fds, accepted, tpc, threadVars, tcpVars>>

(* pthread_create may fail for reasons outside the process. *)
Spawn ==
    /\ status = "up" /\ mainpc = "spawn"
    /\ \/ /\ tpc' = [tpc EXCEPT ![Len(accepted)] = "name"]
          /\ mainpc' = "accept"
          /\ UNCHANGED <<status, connection_num, clientSockfd, fds, accepted, threadVars, tcpVars>>
       \/ Exit("limit")

(* SIGQUIT or SIGTERM *)
signal_handler == status = "up" /\ Exit("signal")

-----------------------------------------------------------------------------
(* connection_handler, step by step *)
At(t, step) == status = "up" /\ tpc[t] = step
Goto(t, step) ==
    /\ tpc' = [tpc EXCEPT ![t] = step]
    /\ UNCHANGED <<status, mainpc, connection_num, clientSockfd, accepted>>

Name(t) ==
    /\ At(t, "name")
    /\ num' = [num EXCEPT ![t] = connection_num]
    /\ Goto(t, "sock")
    /\ UNCHANGED <<fds, sock, pos, files, tcpVars>>

Sock(t) ==
    /\ At(t, "sock")
    /\ sock' = [sock EXCEPT ![t] = clientSockfd]
    /\ Goto(t, "fopen")
    /\ UNCHANGED <<fds, num, pos, files, tcpVars>>

Peer(t) == fds[sock[t]]

(* fcntl, which fails if the descriptor is closed, then fopen "wb", which empties the file *)
Fopen(t) ==
    /\ At(t, "fopen")
    /\ \/ /\ Peer(t) # Free /\ ~Full
          /\ files' = [files EXCEPT ![num[t]] = <<>>]
          /\ Goto(t, "select")
          /\ UNCHANGED <<fds, num, sock, pos, tcpVars>>
       \/ Peer(t) # Free /\ Full /\ Exit("limit")
       \/ Peer(t) = Free /\ Exit("error")

(* Mutant: recv is called without waiting for data. *)
SelectReadyAlways(t) ==
    /\ At(t, "select")
    /\ \/ /\ Peer(t) # Free
          /\ Goto(t, "recv")
          /\ UNCHANGED <<fds, threadVars, tcpVars>>
       \/ Peer(t) = Free /\ Exit("error")

SelectReady(t) ==
    /\ At(t, "select")
    /\ \/ /\ Peer(t) # Free /\ Readable(Peer(t))
          /\ Goto(t, "recv")
          /\ UNCHANGED <<fds, threadVars, tcpVars>>
       \/ Peer(t) = Free /\ Exit("error")

(* Mutant: the timeout has passed, but the thread goes on waiting. *)
SelectTimeoutNever(t) == FALSE

(* Nothing arrived for 10 s: what was sent may still be on its way.  close, fclose. *)
SelectTimeout(t) ==
    /\ At(t, "select")
    /\ fds' = [fds EXCEPT ![sock[t]] = Free]
    /\ CloseLinks({Peer(t)})
    /\ Goto(t, "reopen")
    /\ UNCHANGED <<threadVars, backlog, sent, rcvd, fin>>

(* Mutant: the error is appended to what was received. *)
ReopenAppend(t) ==
    /\ At(t, "reopen")
    /\ \/ /\ ~Full
          /\ files' = [files EXCEPT ![num[t]] = Append(@, Error)]
          /\ Goto(t, "ended")
          /\ UNCHANGED <<fds, num, sock, pos, tcpVars>>
       \/ Full /\ Exit("limit")

(* The file is opened again, which empties it, and holds ERROR in the end. *)
Reopen(t) ==
    /\ At(t, "reopen")
    /\ \/ /\ ~Full
          /\ files' = [files EXCEPT ![num[t]] = <<Error>>]
          /\ Goto(t, "ended")
          /\ UNCHANGED <<fds, num, sock, pos, tcpVars>>
       \/ Full /\ Exit("limit")

(* fwrite at the stream's own position, which may be past the end of a file two threads share *)
Written(file, at, data) ==
    [i \in 1..Max({Len(file), at + Len(data)}) |->
        IF i \in at + 1..at + Len(data) THEN data[i - at]
        ELSE IF i <= Len(file) THEN file[i] ELSE Hole]

RecvData(t) ==
    /\ At(t, "recv")
    /\ Peer(t) # Free
    /\ LET c == Peer(t)
       IN  /\ link[c] # "reset"
           /\ \E n \in 1..Min({BUF, InFlight(c)}) :
                /\ files' = [files EXCEPT ![num[t]] =
                                Written(@, pos[t], [i \in 1..n |-> <<c, rcvd[c] + i>>])]
                /\ pos' = [pos EXCEPT ![t] = @ + n]
                /\ rcvd' = [rcvd EXCEPT ![c] = @ + n]
    /\ Goto(t, "select")
    /\ UNCHANGED <<fds, num, sock, link, backlog, sent, fin>>

(* fwrite writes nothing: the whole server ends. *)
WriteError(t) ==
    /\ At(t, "recv")
    /\ Peer(t) # Free
    /\ link[Peer(t)] # "reset" /\ InFlight(Peer(t)) > 0
    /\ Exit("limit")

(* End of file: the stream is closed, the descriptor is not. *)
RecvEnd(t) ==
    /\ At(t, "recv")
    /\ Peer(t) # Free
    /\ link[Peer(t)] # "reset" /\ InFlight(Peer(t)) = 0 /\ Peer(t) \in fin
    /\ Goto(t, "ended")
    /\ UNCHANGED <<fds, threadVars, tcpVars>>

(* An error, or nothing there although select said so: the whole server ends. *)
RecvError(t) ==
    /\ At(t, "recv")
    /\ \/ Peer(t) = Free
       \/ Peer(t) # Free /\ link[Peer(t)] = "reset"
       \/ Peer(t) # Free /\ InFlight(Peer(t)) = 0 /\ Peer(t) \notin fin
    /\ Exit("error")

Main == Listen \/ Accept \/ Count \/ Spawn
connection_handler(t) ==
    \/ Name(t) \/ Sock(t) \/ Fopen(t) \/ SelectReady(t) \/ SelectTimeout(t)
    \/ Reopen(t) \/ RecvData(t) \/ WriteError(t) \/ RecvEnd(t) \/ RecvError(t)
=============================================================================
