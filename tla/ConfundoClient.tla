--------------------------- MODULE ConfundoClient ---------------------------
(***************************************************************************)
(* The Confundo client (client.cpp): handshake, sliding-window transfer of *)
(* one file, ending.  Every client process is one thread, so its steps are *)
(* atomic between two socket reads.  A 0.5 s timer fires when nothing of   *)
(* the client is in flight, or at the cost of a network fault; the 2 s and *)
(* 10 s timers may fire at any moment.  Variables are indexed by client    *)
(* and keep the program's names.                                           *)
(***************************************************************************)
EXTENDS ConfundoNet

CONSTANTS
    FileLen,        \* length of each client's file, -1 when it cannot be opened
    MaxFileSize,    \* max_file_size (100 MB in the code)
    InitThresh      \* the initial SS_THRESH (10000 in the code)

ASSUME FileLenAssumption == FileLen \in [Clients -> Nat \cup {-1}]
ASSUME MaxFileSizeAssumption == MaxFileSize \in Nat
ASSUME ThreshAssumption == InitThresh \in Nat

VARIABLES
    phase,          \* where the client's single thread is, see Phases
    seq_num, ack_num, id_num,
    F,              \* flags of the next data packet
    CWND, SS_THRESH,
    CWND_space,     \* packets that may still be sent
    CWND_logs,      \* packets sent and not yet acknowledged, oldest send first
    file_pos,       \* read position in the file
    eof             \* the file's eof bit

clientVars == <<phase, seq_num, ack_num, id_num, F, CWND, SS_THRESH, CWND_space, CWND_logs,
                file_pos, eof>>
windowVars == <<CWND, SS_THRESH, CWND_space, CWND_logs>>
fileVars == <<file_pos, eof>>

(***************************************************************************)
(* start    before the first SYN          synwait   in recv_pack of the    *)
(* open     handshake done                          handshake              *)
(* top      head of the data loop         recv      at its recvfrom        *)
(* fin      data loop left                finwait   FIN sent               *)
(* timewait the 2 s wait, client_fin = 1  done, failed   process exited    *)
(***************************************************************************)
Phases == {"start", "synwait", "open", "top", "recv", "fin", "finwait", "timewait",
           "done", "failed"}

logger == [seq : Nat, E_ACK : Nat, file_pos : Nat]

ClientInit ==
    /\ phase = [c \in Clients |-> "start"]
    /\ seq_num = [c \in Clients |-> ISN]
    /\ ack_num = [c \in Clients |-> 0]
    /\ id_num = [c \in Clients |-> 0]
    /\ F = [c \in Clients |-> 0]
    /\ CWND = [c \in Clients |-> MSS]
    /\ SS_THRESH = [c \in Clients |-> InitThresh]
    /\ CWND_space = [c \in Clients |-> 0]
    /\ CWND_logs = [c \in Clients |-> <<>>]
    /\ file_pos = [c \in Clients |-> 0]
    /\ eof = [c \in Clients |-> FALSE]

set_header(c, seq, ack, id, flags, data) ==
    [src |-> c, dst |-> Server, seq |-> seq, ack |-> ack, id |-> id, flags |-> flags,
     data |-> data]

Goto(c, p) == phase' = [phase EXCEPT ![c] = p]

-----------------------------------------------------------------------------
(* handshake and the recv_pack it waits in. *)
SynOf(c) == set_header(c, seq_num[c], ack_num[c], id_num[c], SYN, Padding)

SendSyn(c) ==
    /\ phase[c] = "start"
    /\ Send({SynOf(c)})
    /\ Goto(c, "synwait")
    /\ UNCHANGED <<seq_num, ack_num, id_num, F, windowVars, fileVars>>

(* 0.5 s without an expected packet: the SYN is sent again. *)
SynTimeout(c) ==
    /\ phase[c] = "synwait"
    /\ Expire(InFlight(c) = {}, {SynOf(c)})
    /\ UNCHANGED clientVars

(* Mutant: the timer never ends the wait. *)
HandshakeGiveUpNever(c) == phase[c] = "synwait" /\ UNCHANGED <<netVars, clientVars>>

(* 10 s without an expected packet: the process exits. *)
HandshakeGiveUp(c) ==
    /\ phase[c] = "synwait"
    /\ Goto(c, "failed")
    /\ UNCHANGED <<netVars, seq_num, ack_num, id_num, F, windowVars, fileVars>>

(* recv_pack returns only for a packet that acknowledges the SYN, or for a FIN. *)
Expected(m) == m.ack = ISN + 1 \/ m.flags = FIN

IsSynAck(m) == m.flags = SYN_ACK /\ m.seq = ISS

SlowStart(c) == CWND' = [CWND EXCEPT ![c] = IF @ < SS_THRESH[c] THEN @ + MSS ELSE @]

Established(c, m) ==
    /\ IsSynAck(m)
    /\ seq_num' = [seq_num EXCEPT ![c] = m.ack]
    /\ ack_num' = [ack_num EXCEPT ![c] = m.seq + 1]
    /\ id_num' = [id_num EXCEPT ![c] = m.id]
    /\ Goto(c, "open")
    /\ Deliver(m, {})

HandshakeRecv(c, m) ==
    /\ phase[c] = "synwait"
    /\ \/ /\ ~Expected(m)
          /\ Deliver(m, {})
          /\ UNCHANGED <<phase, seq_num, ack_num, id_num, CWND>>
       \/ /\ Expected(m)
          /\ SlowStart(c)
          /\ \/ Established(c, m)
             \/ /\ ~IsSynAck(m)
                /\ Deliver(m, {SynOf(c)})
                /\ UNCHANGED <<phase, seq_num, ack_num, id_num>>
    /\ UNCHANGED <<F, SS_THRESH, CWND_space, CWND_logs, fileVars>>

-----------------------------------------------------------------------------
(* slidingWindow_data_trans. *)

(* The file must exist and not be too large; the process exits otherwise. *)
OpenFile(c) ==
    /\ phase[c] = "open"
    /\ IF FileLen[c] \in 0..MaxFileSize THEN Goto(c, "top") ELSE Goto(c, "failed")
    /\ CWND_space' = [CWND_space EXCEPT ![c] = CWND[c] \div MSS]
    /\ F' = [F EXCEPT ![c] = ACK]
    /\ UNCHANGED <<netVars, seq_num, ack_num, id_num, CWND, SS_THRESH, CWND_logs, fileVars>>

(* Bytes a read at pos returns; fewer than MSS sets the eof bit. *)
ReadLen(c, pos) == IF FileLen[c] - pos < MSS THEN FileLen[c] - pos ELSE MSS

LogOf(seq, n, pos) == [seq |-> seq, E_ACK |-> (seq + n) % SeqMod, file_pos |-> pos]

ChunkOf(c, seq, pos) ==
    set_header(c, seq, ack_num[c], id_num[c], F[c], Payload(c, pos, ReadLen(c, pos)))

(* The chunk at pos was sent with sequence number seq; its log is appended to logs. *)
ChunkSent(c, seq, pos, logs) ==
    LET n == ReadLen(c, pos)
    IN  /\ seq_num' = [seq_num EXCEPT ![c] = (seq + n) % SeqMod]
        /\ ack_num' = [ack_num EXCEPT ![c] = 0]
        /\ F' = [F EXCEPT ![c] = 0]
        /\ CWND_logs' = [CWND_logs EXCEPT ![c] = Append(logs, LogOf(seq, n, pos))]
        /\ file_pos' = [file_pos EXCEPT ![c] = pos + n]
        /\ eof' = [eof EXCEPT ![c] = n < MSS]
        /\ Goto(c, "recv")
        /\ UNCHANGED id_num

(* Mutant: the window is not consulted. *)
CanSendAnyWindow(c) == ~eof[c]
CanSend(c) == CWND_space[c] > 0 /\ ~eof[c]

SendNext(c) ==
    /\ phase[c] = "top"
    /\ CanSend(c)
    /\ Send({ChunkOf(c, seq_num[c], file_pos[c])})
    /\ ChunkSent(c, seq_num[c], file_pos[c], CWND_logs[c])
    /\ CWND_space' = [CWND_space EXCEPT ![c] = @ - 1]
    /\ UNCHANGED <<CWND, SS_THRESH>>

SkipSend(c) ==
    /\ phase[c] = "top"
    /\ ~CanSend(c)
    /\ Goto(c, "recv")
    /\ UNCHANGED <<netVars, seq_num, ack_num, id_num, F, windowVars, fileVars>>

(***************************************************************************)
(* The oldest log is more than 0.5 s old: go back to its packet, with its  *)
(* log alone removed and a window of one packet, which is sent at once.    *)
(***************************************************************************)
(* Mutant: the oldest log is dropped without going back to its packet. *)
RetransmitNoSeek(c) ==
    /\ phase[c] = "top"
    /\ CWND_logs[c] # <<>>
    /\ Expire(InFlight(c) = {} /\ ~CanSend(c), {ChunkOf(c, seq_num[c], file_pos[c])})
    /\ ChunkSent(c, seq_num[c], file_pos[c], Tail(CWND_logs[c]))
    /\ SS_THRESH' = [SS_THRESH EXCEPT ![c] = CWND[c] \div 2]
    /\ CWND' = [CWND EXCEPT ![c] = MSS]
    /\ CWND_space' = [CWND_space EXCEPT ![c] = 0]

Retransmit(c) ==
    /\ phase[c] = "top"
    /\ CWND_logs[c] # <<>>
    /\ LET front == Head(CWND_logs[c])
       IN  /\ Expire(InFlight(c) = {} /\ ~CanSend(c), {ChunkOf(c, front.seq, front.file_pos)})
           /\ ChunkSent(c, front.seq, front.file_pos, Tail(CWND_logs[c]))
    /\ SS_THRESH' = [SS_THRESH EXCEPT ![c] = CWND[c] \div 2]
    /\ CWND' = [CWND EXCEPT ![c] = MSS]
    /\ CWND_space' = [CWND_space EXCEPT ![c] = 0]  \* CWND / 512 = 1, spent by the send

(* The first log whose expected ACK number is ack; flags and id are not looked at. *)
FirstLog(c, ack) ==
    {i \in DOMAIN CWND_logs[c] : /\ CWND_logs[c][i].E_ACK = ack
                                 /\ \A j \in 1..(i-1) : CWND_logs[c][j].E_ACK # ack}

(* The data loop is left once the whole file was read and no log is left. *)
(* Mutant: it is left at the end of the file, with packets unacknowledged. *)
LoopExitAtEof(c, logs) == Goto(c, IF eof[c] THEN "fin" ELSE "top")
LoopExit(c, logs) == Goto(c, IF eof[c] /\ logs = <<>> THEN "fin" ELSE "top")

(* Slow start below SS_THRESH, congestion avoidance from there on. *)
WindowAfter(w, thresh) == IF w < thresh THEN w + MSS ELSE w + ((MSS * MSS) \div w)
(* Mutant: congestion avoidance gives no room for the packet acknowledged. *)
SpaceAfterNone(w, thresh) == IF w < thresh THEN 2 ELSE 0
SpaceAfter(w, thresh) ==
    IF w < thresh \/ (WindowAfter(w, thresh) \div MSS) - (w \div MSS) >= 1 THEN 2 ELSE 1

(* Log i is acknowledged: it and every log before it are erased. *)
Acked(c, i) ==
    LET logs == SubSeq(CWND_logs[c], i + 1, Len(CWND_logs[c]))
    IN  /\ CWND_logs' = [CWND_logs EXCEPT ![c] = logs]
        /\ CWND' = [CWND EXCEPT ![c] = WindowAfter(@, SS_THRESH[c])]
        /\ CWND_space' = [CWND_space EXCEPT ![c] = @ + SpaceAfter(CWND[c], SS_THRESH[c])]
        /\ LoopExit(c, logs)

DataRecv(c, m) ==
    /\ phase[c] = "recv"
    /\ Deliver(m, {})
    /\ \/ \E i \in FirstLog(c, m.ack) : Acked(c, i)
       \/ /\ FirstLog(c, m.ack) = {}
          /\ LoopExit(c, CWND_logs[c])
          /\ UNCHANGED <<CWND, CWND_space, CWND_logs>>
    /\ UNCHANGED <<seq_num, ack_num, id_num, F, SS_THRESH, fileVars>>

(* Nothing to read on the socket: round the loop, or exit after 10 s of silence. *)
DataIdle(c) ==
    /\ phase[c] = "recv"
    /\ LoopExit(c, CWND_logs[c])
    /\ UNCHANGED <<netVars, seq_num, ack_num, id_num, F, windowVars, fileVars>>

DataGiveUp(c) ==
    /\ phase[c] = "recv"
    /\ Goto(c, "failed")
    /\ UNCHANGED <<netVars, seq_num, ack_num, id_num, F, windowVars, fileVars>>

-----------------------------------------------------------------------------
(* ending. *)
FinOfClient(c) == set_header(c, seq_num[c], 0, id_num[c], FIN, Padding)

SendFin(c) ==
    /\ phase[c] = "fin"
    /\ ack_num' = [ack_num EXCEPT ![c] = 0]
    /\ Send({FinOfClient(c)})
    /\ Goto(c, "finwait")
    /\ UNCHANGED <<seq_num, id_num, F, windowVars, fileVars>>

(* Mutant: the FIN is sent only once. *)
FinTimeoutSilent(c) == phase[c] = "finwait" /\ UNCHANGED <<netVars, clientVars>>

FinTimeout(c) ==
    /\ phase[c] = "finwait"
    /\ Expire(InFlight(c) = {}, {FinOfClient(c)})
    /\ UNCHANGED clientVars

FinGiveUp(c) ==
    /\ phase[c] = "finwait"
    /\ Goto(c, "failed")
    /\ UNCHANGED <<netVars, seq_num, ack_num, id_num, F, windowVars, fileVars>>

(* The last ACK answers the server's FIN m. *)
LastAck(c, m) ==
    /\ ack_num' = [ack_num EXCEPT ![c] = m.seq + 1]
    /\ Deliver(m, {set_header(c, seq_num[c], m.seq + 1, id_num[c], ACK, Padding)})

IsServerFin(c, m) == m.flags = FIN \/ (m.ack = seq_num[c] + 1 /\ m.flags = ACK_FIN)

FinRecv(c, m) ==
    /\ phase[c] = "finwait"
    /\ \/ IsServerFin(c, m) /\ LastAck(c, m) /\ Goto(c, "timewait")
       \/ ~IsServerFin(c, m) /\ Deliver(m, {}) /\ UNCHANGED <<ack_num, phase>>
    /\ UNCHANGED <<seq_num, id_num, F, windowVars, fileVars>>

TimeWaitRecv(c, m) ==
    /\ phase[c] = "timewait"
    /\ \/ m.flags = FIN /\ LastAck(c, m)
       \/ m.flags # FIN /\ Deliver(m, {}) /\ UNCHANGED ack_num
    /\ UNCHANGED <<phase, seq_num, id_num, F, windowVars, fileVars>>

(* 2 s after the first FIN the socket is closed and the process ends. *)
TimeWaitEnd(c) ==
    /\ phase[c] = "timewait"
    /\ Goto(c, "done")
    /\ UNCHANGED <<netVars, seq_num, ack_num, id_num, F, windowVars, fileVars>>
=============================================================================
