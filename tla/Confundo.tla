------------------------------ MODULE Confundo ------------------------------
(***************************************************************************)
(* The Confundo transport: client processes and one server over UDP.       *)
(***************************************************************************)
EXTENDS ConfundoServer, ConfundoClient

vars == <<net, faults, all_connection, clientVars>>

Init == NetInit /\ ServerInit /\ ClientInit

(* A step of one program leaves the state of the other alone. *)
AtClient(A) == A /\ UNCHANGED all_connection
AtServer(A) == A /\ UNCHANGED clientVars

Next ==
    \/ \E c \in Clients : AtClient(SendSyn(c))
    \/ \E c \in Clients : AtClient(SynTimeout(c))
    \/ \E c \in Clients : AtClient(HandshakeGiveUp(c))
    \/ \E c \in Clients : \E m \in Inbox(c) : AtClient(HandshakeRecv(c, m))
    \/ \E c \in Clients : AtClient(OpenFile(c))
    \/ \E c \in Clients : AtClient(SendNext(c))
    \/ \E c \in Clients : AtClient(SkipSend(c))
    \/ \E c \in Clients : AtClient(Retransmit(c))
    \/ \E c \in Clients : \E m \in Inbox(c) : AtClient(DataRecv(c, m))
    \/ \E c \in Clients : AtClient(DataIdle(c))
    \/ \E c \in Clients : AtClient(DataGiveUp(c))
    \/ \E c \in Clients : AtClient(SendFin(c))
    \/ \E c \in Clients : AtClient(FinTimeout(c))
    \/ \E c \in Clients : AtClient(FinGiveUp(c))
    \/ \E c \in Clients : \E m \in Inbox(c) : AtClient(FinRecv(c, m))
    \/ \E c \in Clients : \E m \in Inbox(c) : AtClient(TimeWaitRecv(c, m))
    \/ \E c \in Clients : AtClient(TimeWaitEnd(c))
    \/ \E m \in Inbox(Server) : AtServer(RecvSyn(m))
    \/ \E m \in Inbox(Server) : AtServer(RecvData(m))
    \/ \E m \in Inbox(Server) : AtServer(RecvFin(m))
    \/ \E m \in net : Lose(m) /\ UNCHANGED <<all_connection, clientVars>>

Spec == Init /\ [][Next]_vars

(***************************************************************************)
(* Fairness.  The programs never stop on their own (WF on their steps), and*)
(* a timer that keeps being consulted expires in the end: the handshake's  *)
(* 10 s timer too, which only an expected packet resets.  A client polls   *)
(* its socket between other steps, so that a packet in flight is read in   *)
(* the end is strong fairness.  The 10 s timers of the data loop and of    *)
(* ending are reset by every packet that arrives and promise nothing.      *)
(***************************************************************************)
ServerReads ==
    \E m \in Inbox(Server) : AtServer(RecvSyn(m) \/ RecvData(m) \/ RecvFin(m))

ClientReads(c) ==
    \E m \in Inbox(c) :
        AtClient(HandshakeRecv(c, m) \/ DataRecv(c, m) \/ FinRecv(c, m) \/ TimeWaitRecv(c, m))

Fairness ==
    /\ WF_vars(ServerReads)
    /\ \A c \in Clients :
         /\ WF_vars(AtClient(SendSyn(c) \/ OpenFile(c) \/ SendFin(c) \/ TimeWaitEnd(c)))
         /\ WF_vars(AtClient(SendNext(c) \/ SkipSend(c) \/ DataIdle(c)))
         /\ WF_vars(AtClient(SynTimeout(c) \/ FinTimeout(c)))
         /\ WF_vars(AtClient(HandshakeGiveUp(c)))
         /\ SF_vars(AtClient(Retransmit(c)))
         /\ SF_vars(ClientReads(c))

FairSpec == Spec /\ Fairness

-----------------------------------------------------------------------------
(* Types of every variable. *)
TypeOK ==
    /\ net \subseteq packet
    /\ faults \in 0..MaxFaults
    /\ all_connection \in [Slots -> connection_info]
    /\ phase \in [Clients -> Phases]
    /\ seq_num \in [Clients -> Nat]
    /\ ack_num \in [Clients -> Nat]
    /\ id_num \in [Clients -> Nat]
    /\ F \in [Clients -> {0, ACK}]
    /\ CWND \in [Clients -> Nat \ {0}]
    /\ SS_THRESH \in [Clients -> Nat]
    /\ CWND_space \in [Clients -> Nat]
    /\ CWND_logs \in [Clients -> Seq(logger)]
    /\ file_pos \in [Clients -> Nat]
    /\ eof \in [Clients -> BOOLEAN]

(* Phases after the handshake, and after the data loop. *)
Connected == {"open", "top", "recv", "fin", "finwait", "timewait", "done"}
Finished == {"fin", "finwait", "timewait", "done"}

ConnOf(c) == all_connection[id_num[c]]

(***************************************************************************)
(* A connected client owns the slot its id names: no two clients are ever  *)
(* given the same id, whatever SYNs and SYN-ACKs are repeated or delayed.  *)
(***************************************************************************)
IdOwnership ==
    \A c \in Clients : phase[c] \in Connected =>
        id_num[c] \in Slots /\ ConnOf(c).src_addr = c /\ ConnOf(c).id = id_num[c]

(***************************************************************************)
(* Whatever is lost, repeated, reordered or sent again, the file in a slot *)
(* is a prefix of the file of the client that opened the slot.             *)
(***************************************************************************)
PrefixDelivered ==
    \A i \in Slots :
        LET con == all_connection[i]
        IN  con.myfile # <<>> =>
                /\ con.src_addr \in Clients
                /\ Len(con.myfile) <= FileLen[con.src_addr]
                /\ con.myfile = Payload(con.src_addr, 0, Len(con.myfile))

(***************************************************************************)
(* A client that has left the data loop ("end of file and all ACKs are     *)
(* received", client.cpp:331) has its whole file on the server.            *)
(***************************************************************************)
FinishedComplete ==
    \A c \in Clients : phase[c] \in Finished => ConnOf(c).myfile = Payload(c, 0, FileLen[c])

(***************************************************************************)
(* Confundo implements FileTransfer: the copy is the file in the slot the  *)
(* client was given, and the client reports when it leaves the data loop.  *)
(***************************************************************************)
Copy == [c \in Clients |-> IF id_num[c] \in Slots THEN ConnOf(c).myfile ELSE <<>>]
Outcome ==
    [c \in Clients |-> CASE phase[c] \in Finished -> "sent"
                         [] phase[c] = "failed" -> "failed"
                         [] OTHER -> "sending"]
FirstBytes(c, n) == Payload(c, 0, n)
Transfer == INSTANCE FileTransfer WITH copy <- Copy, outcome <- Outcome, Content <- FirstBytes
TransferSpec == Transfer!Spec

(***************************************************************************)
(* The sender can always go on: in the data loop there is a packet to send *)
(* or a log whose timeout will make room, never an empty window of size 0. *)
(***************************************************************************)
NeverBlocked ==
    \A c \in Clients : phase[c] \in {"top", "recv"} =>
        CWND_logs[c] # <<>> \/ (CWND_space[c] > 0 /\ ~eof[c])

(***************************************************************************)
(* The client's retransmission is go-back-N over a log whose entries the   *)
(* server may acknowledge in any order: what is read but neither delivered *)
(* nor behind the read position is still logged, so it will be sent again. *)
(***************************************************************************)
Covered(c, p) ==
    \/ p <= Len(ConnOf(c).myfile)
    \/ p > file_pos[c]
    \/ \E k \in DOMAIN CWND_logs[c] :
         /\ CWND_logs[c][k].file_pos < p
         /\ p <= CWND_logs[c][k].file_pos + ReadLen(c, CWND_logs[c][k].file_pos)
NothingForgotten ==
    \A c \in Clients : phase[c] \in {"top", "recv"} => \A p \in 1..FileLen[c] : Covered(c, p)

-----------------------------------------------------------------------------
(***************************************************************************)
(* Every client process comes to an end: the file is delivered and the     *)
(* connection closed, or it gave up, as one that finds no slot free does   *)
(* (main of client.cpp).                                                   *)
(***************************************************************************)
Exited(c) == phase[c] \in {"done", "failed"}
Terminates == \A c \in Clients : <>Exited(c)

(***************************************************************************)
(* One packet lost, duplicated or held back past a timer does not keep a   *)
(* client from its end, wherever in its file go-back-N is thrown back.     *)
(***************************************************************************)
OneFaultEnds == [](faults <= 1) => Terminates
=============================================================================
