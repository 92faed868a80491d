---------------------------- MODULE FileClient ----------------------------
(***************************************************************************)
(* The upload client (Project1/client.cpp): connect without blocking, then *)
(* read the file block by block and send each block when select says that  *)
(* the socket is writable.                                                 *)
(***************************************************************************)
EXTENDS TcpStream

CONSTANT FileLen                \* bytes of each client's file

ASSUME FileAssumption == FileLen \in [Clients -> Nat]

VARIABLE cpc                    \* what each client does next

Ended == {"done", "failed", "gone"}

ClientInit == cpc = [c \in Clients |-> "start"]

(* The process ends, and with it its end of the connection. *)
Quit(c, how) == cpc' = [cpc EXCEPT ![c] = how] /\ fin' = fin \cup {c}

Step(c, from, to) == cpc[c] = from /\ cpc' = [cpc EXCEPT ![c] = to]

(* Arguments, socket and connect, which returns EINPROGRESS or an error *)
Connect(c) ==
    /\ cpc[c] = "start"
    /\ \/ Step(c, "start", "connecting") /\ link' = [link EXCEPT ![c] = "waiting"] /\ UNCHANGED fin
       \/ Quit(c, "failed") /\ UNCHANGED link
    /\ UNCHANGED <<backlog, sent, rcvd>>

(* Writable: the connection stands, or was refused. *)
Connected(c) ==
    /\ link[c] # "waiting"
    /\ Step(c, "connecting", "opening")
    /\ UNCHANGED tcpVars

ConnectTimeout(c) ==
    /\ cpc[c] = "connecting" /\ link[c] = "waiting"
    /\ Quit(c, "failed")
    /\ link' = [link EXCEPT ![c] = "none"]
    /\ UNCHANGED <<backlog, sent, rcvd>>

(* The file may be missing. *)
OpenFile(c) ==
    /\ cpc[c] = "opening"
    /\ \/ Step(c, "opening", "sending") /\ UNCHANGED fin
       \/ Quit(c, "failed")
    /\ UNCHANGED <<link, backlog, sent, rcvd>>

-----------------------------------------------------------------------------
Sending(c) == cpc[c] = "sending" /\ Writable(c)

(* Mutant: the result of send is not looked at. *)
SendBlockUnchecked(c) ==
    /\ Sending(c) /\ sent[c] < FileLen[c]
    /\ sent' = [sent EXCEPT ![c] = @ + Min({BUF, FileLen[c] - @})]
    /\ UNCHANGED <<cpc, fin, link, backlog, rcvd>>

(***************************************************************************)
(* One fread and one send.  After the server closed its end a block may be *)
(* swallowed, until the reset arrives.                                     *)
(***************************************************************************)
SendBlock(c) ==
    /\ Sending(c) /\ sent[c] < FileLen[c]
    /\ \/ /\ link[c] \in {"open", "closed"}
          /\ sent' = [sent EXCEPT ![c] = @ + Min({BUF, FileLen[c] - @})]
          /\ UNCHANGED <<cpc, fin>>
       \/ /\ link[c] \in {"refused", "closed"}
          /\ Quit(c, "failed")
          /\ UNCHANGED sent
    /\ UNCHANGED <<link, backlog, rcvd>>

(* fread returns 0. *)
Finish(c) ==
    /\ Sending(c) /\ sent[c] = FileLen[c]
    /\ Quit(c, "done")
    /\ UNCHANGED <<link, backlog, sent, rcvd>>

SendTimeout(c) ==
    /\ cpc[c] = "sending" /\ ~Writable(c)
    /\ Quit(c, "failed")
    /\ UNCHANGED <<link, backlog, sent, rcvd>>

Client(c) ==
    \/ Connect(c) \/ Connected(c) \/ ConnectTimeout(c) \/ OpenFile(c)
    \/ SendBlock(c) \/ Finish(c) \/ SendTimeout(c)

-----------------------------------------------------------------------------
(* A connected client's host vanishes; later it is back and resets the connection. *)
Vanish(c) ==
    /\ link[c] = "open" /\ cpc[c] \notin Ended
    /\ cpc' = [cpc EXCEPT ![c] = "gone"]
    /\ UNCHANGED tcpVars

PeerReset(c) ==
    /\ link[c] = "open" /\ cpc[c] = "gone"
    /\ link' = [link EXCEPT ![c] = "reset"]
    /\ UNCHANGED <<cpc, backlog, sent, rcvd, fin>>
=============================================================================
