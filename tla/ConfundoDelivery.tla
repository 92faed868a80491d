-------------------------- MODULE ConfundoDelivery --------------------------
(***************************************************************************)
(* The second inductive invariant of Confundo, behind the theorems of      *)
(* DeliveryProofs: an acknowledgement in flight is true, and what is read  *)
(* and not delivered is in the logs, in whatever order timeouts have left  *)
(* them.                                                                   *)
(***************************************************************************)
EXTENDS ConfundoInv

(***************************************************************************)
(* The server's echo of a SYN has ack 0, and the client takes it for an    *)
(* acknowledgement of a packet that ends at sequence number 0.  No file    *)
(* shorter than SeqMod - ISN - 1 bytes has such a packet.                  *)
(***************************************************************************)
NoFalseAck == \A c \in Clients : \A p \in Boundaries(c) : SeqAt(p) # 0

FinSent == {"finwait", "timewait", "done", "failed"}

(* How much of its file the server has of a client. *)
Stored(c) == Len(ConnOf(c).myfile)

-----------------------------------------------------------------------------
(* The window is never empty for good. *)
WindowInv ==
    /\ \A c \in Clients : /\ CWND[c] >= MSS
                          /\ phase[c] \in {"start", "synwait", "open"} => ~eof[c]
    /\ NeverBlocked

-----------------------------------------------------------------------------
(* Of the slots a client was given, it uses the one whose id it took. *)
OneCopy ==
    \A i \in Slots :
        LET con == all_connection[i]
        IN  con.myfile # <<>> \/ con.is_FIN = 1 => id_num[con.src_addr] = i

(* A FIN, on its way or received, was sent after the data loop. *)
FinLast ==
    /\ \A m \in net : m.dst = Server /\ m.flags = FIN => phase[m.src] \in FinSent
    /\ \A c \in Clients : HasId(c) /\ ConnOf(c).is_FIN = 1 => phase[c] \in FinSent

(* The server has what it acknowledges, until it answers the FIN. *)
Confirms(m) ==
    /\ HasId(m.dst)
    /\ \/ ConnOf(m.dst).is_FIN = 1
       \/ \E q \in Boundaries(m.dst) : q <= Stored(m.dst) /\ m.ack = SeqAt(q)

AcksTrue ==
    \A m \in net : m.dst \in Clients =>
        /\ m.flags = ACK => Confirms(m)
        /\ m.flags = hton16(SYN) => m.ack = 0

(***************************************************************************)
(* The logs of a client that has read up to pos, of which the server has   *)
(* the first d bytes.  The last log is the last packet sent.  Timeouts go  *)
(* back, so the logs are not in the order of the file; but a packet never  *)
(* starts behind the end of the one sent before it, unless what is between *)
(* them was delivered, and the first packet not delivered is logged.       *)
(***************************************************************************)
LogEnd(c, log) == log.file_pos + ReadLen(c, log.file_pos)

LogsCover(c, logs, pos, d) ==
    IF logs = <<>> THEN pos <= d
    ELSE /\ LogEnd(c, logs[Len(logs)]) = pos
         /\ logs[1].file_pos <= d \/ logs[1].file_pos <= pos
         /\ \E k \in DOMAIN logs : logs[k].file_pos <= d
         /\ \A k \in 1..(Len(logs) - 1) :
              logs[k + 1].file_pos <= d \/ logs[k + 1].file_pos <= LogEnd(c, logs[k])

SenderInv(c) ==
    /\ eof[c] => file_pos[c] = FileLen[c]
    /\ phase[c] \in {"top", "recv"} => LogsCover(c, CWND_logs[c], file_pos[c], Stored(c))

DeliveryInv ==
    /\ WindowInv
    /\ OneCopy /\ FinLast /\ AcksTrue
    /\ \A c \in Clients : SenderInv(c)
    /\ FinishedComplete
=============================================================================
