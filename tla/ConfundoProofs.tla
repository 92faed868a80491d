--------------------------- MODULE ConfundoProofs ---------------------------
(***************************************************************************)
(* Theorems about Confundo, for any number of clients, slots and faults,   *)
(* any file and any packet size.  TypeOK and InductiveInv are proved       *)
(* inductive together: what a read returns has a type only because the     *)
(* read position is within the file.                                       *)
(***************************************************************************)
EXTENDS ConfundoInv, TLAPS

-----------------------------------------------------------------------------
(* Arithmetic of the sequence space. *)

(* Quotient and remainder are unique: used to add within the sequence space. *)
LEMMA DivUnique ==
  ASSUME NEW M \in Nat \ {0}, NEW q \in Int, NEW k \in Int,
         NEW r \in 0..(M-1), NEW s \in 0..(M-1),
         M * q + r = M * k + s
  PROVE  r = s
<1>1. M * (q - k) = s - r /\ M * (k - q) = r - s
  OBVIOUS
<1>2. ASSUME q - k >= 1 PROVE FALSE
  <2>1. PICK d \in Nat : q - k = 1 + d
    BY <1>2
  <2>2. M * (1 + d) = M + M * d /\ M * d >= 0
    BY <2>1
  <2>. QED BY <2>1, <2>2, <1>1
<1>3. ASSUME k - q >= 1 PROVE FALSE
  <2>1. PICK d \in Nat : k - q = 1 + d
    BY <1>3
  <2>2. M * (1 + d) = M + M * d /\ M * d >= 0
    BY <2>1
  <2>. QED BY <2>1, <2>2, <1>1
<1>4. q = k
  BY <1>2, <1>3
<1>. QED BY <1>4

(* Reducing modulo the sequence space before or after an addition is the same. *)
LEMMA ModAdd ==
  ASSUME NEW M \in Nat \ {0}, NEW a \in Nat, NEW n \in Nat
  PROVE  ((a % M) + n) % M = (a + n) % M
<1> DEFINE b == (a % M) + n
           k1 == (a \div M) + (b \div M)
           k2 == (a + n) \div M
           r1 == b % M
           r2 == (a + n) % M
<1>1. a = M * (a \div M) + (a % M) /\ a % M \in 0..(M-1) /\ a \div M \in Int
  OBVIOUS
<1>2. b = M * (b \div M) + r1 /\ r1 \in 0..(M-1) /\ b \div M \in Int
  BY <1>1
<1>3. a + n = M * k2 + r2 /\ r2 \in 0..(M-1) /\ k2 \in Int
  OBVIOUS
<1>4. a + n = M * k1 + r1 /\ k1 \in Int
  BY <1>1, <1>2
<1>. HIDE DEF k1, k2, r1, r2
<1>5. r1 = r2
  BY <1>2, <1>3, <1>4, DivUnique
<1>. QED BY <1>5 DEF r1, r2

(* Division of naturals, as the window computations need it. *)
LEMMA DivNat == ASSUME NEW a \in Nat, NEW b \in Nat \ {0} PROVE a \div b \in Nat
<1>1. PICK q \in Int : q = a \div b
  OBVIOUS
<1>2. a = b * q + (a % b) /\ a % b < b
  BY <1>1
<1>3. ASSUME q < 0 PROVE FALSE
  <2>1. PICK d \in Nat : q = -1 - d
    BY <1>3
  <2>2. b * q = -b - b * d /\ b * d >= 0
    BY <2>1
  <2>. QED BY <1>2, <2>2
<1>. QED BY <1>1, <1>3

(* The sequence number n bytes after position p, as both programs compute it. *)
LEMMA SeqAtAdd ==
  ASSUME NEW p \in Nat, NEW n \in Nat
  PROVE  (SeqAt(p) + n) % SeqMod = SeqAt(p + n) /\ SeqAt(p) \in Nat
<1> DEFINE a == ISN + 1 + p
<1>1. a \in Nat /\ SeqMod \in Nat \ {0}
  BY SeqAssumption
<1>2. a % SeqMod \in Nat
  BY <1>1
<1>3. ISN + 1 + (p + n) = a + n
  BY SeqAssumption
<1>. HIDE DEF a
<1>4. ((a % SeqMod) + n) % SeqMod = (a + n) % SeqMod
  BY <1>1, ModAdd
<1>. QED BY <1>2, <1>3, <1>4 DEF SeqAt, a

(* The first data byte follows the SYN: the sequence space does not wrap before it. *)
LEMMA SeqAtZero == SeqAt(0) = ISN + 1
BY SeqAssumption DEF SeqAt

-----------------------------------------------------------------------------
(* Payloads, reads and byte order. *)

(* A payload is a sequence of bytes of the length asked for. *)
LEMMA PayloadSeq ==
  ASSUME NEW c \in Clients, NEW p \in Nat, NEW n \in Nat
  PROVE  /\ Payload(c, p, n) \in Seq(Byte)
         /\ Len(Payload(c, p, n)) = n
         /\ \A i \in 1..n : Payload(c, p, n)[i] = <<c, p + i>>
BY DEF Payload, Byte

(* Reading nothing returns nothing. *)
LEMMA PayloadEmpty == ASSUME NEW c \in Clients PROVE Payload(c, 0, 0) = <<>>
BY DEF Payload

(* Appending the piece at p to the first p bytes gives the first p + n bytes. *)
LEMMA PayloadConcat ==
  ASSUME NEW c \in Clients, NEW p \in Nat, NEW n \in Nat
  PROVE  Payload(c, 0, p) \o Payload(c, p, n) = Payload(c, 0, p + n)
BY PayloadSeq DEF Payload

(* The padding of a control packet is a sequence of bytes. *)
LEMMA PaddingType == Padding \in Seq(Byte)
BY MSSAssumption DEF Padding, Byte

(* A read at a boundary stays within the file and ends at a boundary. *)
LEMMA ReadAtBoundary ==
  ASSUME NEW c \in Clients, NEW p \in Boundaries(c)
  PROVE  /\ p \in Nat
         /\ ReadLen(c, p) \in 0..MSS
         /\ p + ReadLen(c, p) \in Boundaries(c)
<1>0. FileLen[c] \in Int /\ MSS \in Nat \ {0}
  BY FileLenAssumption, MSSAssumption
<1>1. CASE FileLen[c] - p < MSS
  BY <1>0, <1>1 DEF ReadLen, Boundaries
<1>2. CASE ~(FileLen[c] - p < MSS)
  <2>1. PICK k \in 0..FileLen[c] : p = k * MSS
    BY <1>0, <1>2 DEF Boundaries
  <2>2. p + MSS = (k + 1) * MSS /\ k + 1 <= (k + 1) * MSS
    BY <1>0, <2>1
  <2>. QED BY <1>0, <1>2, <2>1, <2>2 DEF ReadLen, Boundaries
<1>. QED BY <1>1, <1>2

(* A file that has a boundary at all starts at one. *)
LEMMA ZeroBoundary ==
  ASSUME NEW c \in Clients, NEW p \in Boundaries(c)
  PROVE  0 \in Boundaries(c)
BY FileLenAssumption, MSSAssumption DEF Boundaries

(* A SYN read without the byte-order conversion does not look like a SYN-ACK, ACK or FIN. *)
LEMMA EchoFlags == hton16(SYN) = 512
BY DEF hton16, SYN

(* Byte swapping a number gives a number. *)
LEMMA HtonType == ASSUME NEW x \in Nat PROVE hton16(x) \in Nat /\ hton32(x) \in Nat
BY DEF hton16, hton32

-----------------------------------------------------------------------------
(* Types: the network. *)
NetType == net \subseteq packet /\ faults \in 0..MaxFaults

(* TypeOK contains the types of the network. *)
LEMMA NetTypeOK == ASSUME TypeOK PROVE NetType
BY DEF TypeOK, NetType

(* Receiving a packet and answering keeps the network's types. *)
LEMMA DeliverType ==
  ASSUME NetType, NEW m, NEW out, out \subseteq packet, Deliver(m, out)
  PROVE  NetType'
BY FaultsAssumption DEF NetType, Deliver, Fault

(* Sending keeps the network's types. *)
LEMMA SendType ==
  ASSUME NetType, NEW out, out \subseteq packet, Send(out)
  PROVE  NetType'
BY FaultsAssumption DEF NetType, Send

(* A timer that fires keeps the network's types. *)
LEMMA ExpireType ==
  ASSUME NetType, NEW idle, NEW out, out \subseteq packet, Expire(idle, out)
  PROVE  NetType'
BY FaultsAssumption DEF NetType, Expire, Fault

(* Types: the packets the client builds. *)
LEMMA HeaderType ==
  ASSUME NEW c \in Clients, NEW seq \in Nat, NEW ack \in Nat, NEW id \in Nat,
         NEW flags \in Nat, NEW data \in Seq(Byte)
  PROVE  set_header(c, seq, ack, id, flags, data) \in packet
BY DEF set_header, packet

(* The SYN and the FIN of a client are packets. *)
LEMMA ControlPackets ==
  ASSUME TypeOK, NEW c \in Clients
  PROVE  SynOf(c) \in packet /\ FinOfClient(c) \in packet
BY PaddingType, HeaderType DEF TypeOK, SynOf, FinOfClient, SYN, FIN

(* A chunk read from the file makes a packet. *)
LEMMA ChunkPacket ==
  ASSUME TypeOK, NEW c \in Clients, NEW seq \in Nat, NEW p \in Boundaries(c)
  PROVE  ChunkOf(c, seq, p) \in packet
<1>1. p \in Nat /\ ReadLen(c, p) \in Nat
  BY ReadAtBoundary
<1>2. ack_num[c] \in Nat /\ id_num[c] \in Nat /\ F[c] \in {0, ACK}
  BY DEF TypeOK
<1>3. F[c] \in Nat
  BY <1>2 DEF ACK
<1>. QED BY <1>1, <1>2, <1>3, PayloadSeq, HeaderType DEF ChunkOf

-----------------------------------------------------------------------------
(* Types: one lemma per operation of the client. *)
ClientType ==
  /\ phase \in [Clients -> Phases]
  /\ seq_num \in [Clients -> Nat]
  /\ ack_num \in [Clients -> Nat]
  /\ id_num \in [Clients -> Nat]
  /\ F \in [Clients -> {0, ACK}]
  /\ CWND \in [Clients -> Nat \ {0}]
  /\ SS_THRESH \in [Clients -> Nat]
  /\ CWND_space \in [Clients -> Nat]
  /\ CWND_logs \in [Clients -> Seq(logger)]
  /\ file_pos \in [Clients -> Nat]
  /\ eof \in [Clients -> BOOLEAN]

ConnType == all_connection \in [Slots -> connection_info]

(* A step that only moves the client's thread keeps every type. *)
LEMMA GotoType ==
  ASSUME TypeOK, NEW c \in Clients, NEW p \in Phases, Goto(c, p),
         UNCHANGED <<all_connection, netVars, seq_num, ack_num, id_num, F, windowVars, fileVars>>
  PROVE  TypeOK'
BY DEF TypeOK, Goto, netVars, windowVars, fileVars

(* Sending the SYN keeps the types. *)
LEMMA TypeSendSyn ==
  ASSUME TypeOK, NEW c \in Clients, AtClient(SendSyn(c))
  PROVE  TypeOK'
<1>1. NetType'
  BY NetTypeOK, ControlPackets, SendType DEF AtClient, SendSyn
<1>2. ClientType' /\ ConnType'
  BY DEF TypeOK, AtClient, SendSyn, Goto, Phases, ClientType, ConnType, windowVars, fileVars
<1>. QED BY <1>1, <1>2 DEF TypeOK, NetType, ConnType, ClientType

(* Reading a packet in the handshake keeps the types. *)
LEMMA TypeHandshakeRecv ==
  ASSUME TypeOK, NEW c \in Clients, NEW m \in Inbox(c), AtClient(HandshakeRecv(c, m))
  PROVE  TypeOK'
<1>1. m \in packet
  BY DEF TypeOK, Inbox
<1>2. NetType'
  BY NetTypeOK, ControlPackets, DeliverType DEF HandshakeRecv, Established, AtClient
<1>3. m.ack \in Nat /\ m.seq + 1 \in Nat /\ m.id \in Nat /\ "open" \in Phases
  BY <1>1 DEF packet, Phases
<1>4. ConnType' /\ UNCHANGED <<F, SS_THRESH, CWND_space, CWND_logs, fileVars>>
  BY DEF TypeOK, HandshakeRecv, AtClient, ConnType
<1>5. CWND' \in [Clients -> Nat \ {0}]
  <2>1. SlowStart(c) \/ UNCHANGED CWND
    BY DEF HandshakeRecv, AtClient
  <2>2. CWND \in [Clients -> Nat \ {0}] /\ MSS \in Nat \ {0}
    BY MSSAssumption DEF TypeOK
  <2>. QED BY <2>1, <2>2 DEF SlowStart
<1>6. Established(c, m) \/ UNCHANGED <<phase, seq_num, ack_num, id_num>>
  BY DEF HandshakeRecv, AtClient
<1>7. /\ phase' \in [Clients -> Phases]
      /\ seq_num' \in [Clients -> Nat]
      /\ ack_num' \in [Clients -> Nat]
      /\ id_num' \in [Clients -> Nat]
  <2>1. /\ phase \in [Clients -> Phases]
        /\ seq_num \in [Clients -> Nat]
        /\ ack_num \in [Clients -> Nat]
        /\ id_num \in [Clients -> Nat]
    BY DEF TypeOK
  <2>2. CASE Established(c, m)
    BY <1>3, <2>1, <2>2 DEF Established, Goto
  <2>3. CASE UNCHANGED <<phase, seq_num, ack_num, id_num>>
    BY <2>1, <2>3
  <2>. QED BY <1>6, <2>2, <2>3
<1>. QED BY <1>2, <1>4, <1>5, <1>7 DEF TypeOK, NetType, ConnType, fileVars

(* Opening the file keeps the types. *)
LEMMA TypeOpenFile ==
  ASSUME TypeOK, NEW c \in Clients, AtClient(OpenFile(c))
  PROVE  TypeOK'
<1>1. phase' \in [Clients -> Phases]
  BY DEF TypeOK, AtClient, OpenFile, Goto, Phases
<1>2. CWND[c] \in Nat
  BY DEF TypeOK
<1>3. CWND[c] \div MSS \in Nat
  BY <1>2, DivNat, MSSAssumption
<1>. QED
  BY <1>1, <1>3 DEF TypeOK, AtClient, OpenFile, netVars, fileVars

(* What a chunk that was read at a boundary and sent leaves behind. *)
LEMMA TypeChunkSent ==
  ASSUME TypeOK, NEW c \in Clients, NEW seq \in Nat, NEW p \in Boundaries(c),
         NEW logs \in Seq(logger), ChunkSent(c, seq, p, logs)
  PROVE  /\ phase' \in [Clients -> Phases]
         /\ seq_num' \in [Clients -> Nat]
         /\ ack_num' \in [Clients -> Nat]
         /\ id_num' \in [Clients -> Nat]
         /\ F' \in [Clients -> {0, ACK}]
         /\ CWND_logs' \in [Clients -> Seq(logger)]
         /\ file_pos' \in [Clients -> Nat]
         /\ eof' \in [Clients -> BOOLEAN]
<1> DEFINE n == ReadLen(c, p)
<1>1. n \in Nat /\ p \in Nat
  BY ReadAtBoundary
<1>2. (seq + n) % SeqMod \in Nat /\ p + n \in Nat
  BY <1>1, SeqAssumption
<1>3. LogOf(seq, n, p) \in logger
  BY <1>1, <1>2 DEF LogOf, logger
<1>4. Append(logs, LogOf(seq, n, p)) \in Seq(logger)
  BY <1>3
<1>5. (n < MSS) \in BOOLEAN
  BY <1>1, MSSAssumption
<1>. HIDE DEF n
<1>6. /\ seq_num' = [seq_num EXCEPT ![c] = (seq + n) % SeqMod]
      /\ ack_num' = [ack_num EXCEPT ![c] = 0]
      /\ F' = [F EXCEPT ![c] = 0]
      /\ CWND_logs' = [CWND_logs EXCEPT ![c] = Append(logs, LogOf(seq, n, p))]
      /\ file_pos' = [file_pos EXCEPT ![c] = p + n]
      /\ eof' = [eof EXCEPT ![c] = n < MSS]
      /\ phase' = [phase EXCEPT ![c] = "recv"]
      /\ UNCHANGED id_num
  BY DEF ChunkSent, Goto, n
<1>7. eof' \in [Clients -> BOOLEAN]
  BY <1>5, <1>6, Zenon DEF TypeOK
<1>. QED BY <1>2, <1>4, <1>6, <1>7 DEF TypeOK, Phases

(* Sending the next chunk keeps the types. *)
LEMMA TypeSendNext ==
  ASSUME TypeOK, InductiveInv, NEW c \in Clients, AtClient(SendNext(c))
  PROVE  TypeOK'
<1>1. file_pos[c] \in Boundaries(c)
  BY DEF InductiveInv, ClientInv, ClientInvAt, DataInv, AtClient, SendNext
<1>2. seq_num[c] \in Nat /\ CWND_logs[c] \in Seq(logger)
  BY DEF TypeOK
<1>3. NetType'
  BY <1>1, <1>2, NetTypeOK, ChunkPacket, SendType DEF AtClient, SendNext
<1>4. ChunkSent(c, seq_num[c], file_pos[c], CWND_logs[c])
  BY DEF AtClient, SendNext
<1>5. CWND_space' \in [Clients -> Nat]
  BY DEF TypeOK, AtClient, SendNext, CanSend
<1>6. UNCHANGED <<all_connection, CWND, SS_THRESH>>
  BY DEF AtClient, SendNext
<1>. QED
  BY <1>1, <1>2, <1>3, <1>4, <1>5, <1>6, TypeChunkSent DEF TypeOK, NetType

(* The oldest log and the others satisfy LogInv. *)
LEMMA FrontLog ==
  ASSUME TypeOK, InductiveInv, NEW c \in Clients, phase[c] = "top", CWND_logs[c] # <<>>
  PROVE  /\ LogInv(c, Head(CWND_logs[c]))
         /\ Head(CWND_logs[c]) \in logger
         /\ Tail(CWND_logs[c]) \in Seq(logger)
         /\ \A k \in DOMAIN Tail(CWND_logs[c]) : LogInv(c, Tail(CWND_logs[c])[k])
<1> DEFINE logs == CWND_logs[c]
<1>1. logs \in Seq(logger) /\ logs # <<>>
  BY DEF TypeOK
<1>2. \A k \in DOMAIN logs : LogInv(c, logs[k])
  BY DEF InductiveInv, ClientInv, ClientInvAt, DataInv
<1>. HIDE DEF logs
<1>3. 1 \in DOMAIN logs /\ Head(logs) = logs[1] /\ Head(logs) \in logger
  BY <1>1
<1>4. \A k \in DOMAIN Tail(logs) : k + 1 \in DOMAIN logs /\ Tail(logs)[k] = logs[k + 1]
  BY <1>1
<1>5. Tail(logs) \in Seq(logger)
  BY <1>1
<1>. QED BY <1>2, <1>3, <1>4, <1>5 DEF logs

(* Going back to the oldest log keeps the types. *)
LEMMA TypeRetransmit ==
  ASSUME TypeOK, InductiveInv, NEW c \in Clients, AtClient(Retransmit(c))
  PROVE  TypeOK'
<1> DEFINE front == Head(CWND_logs[c])
           rest == Tail(CWND_logs[c])
<1>1. phase[c] = "top" /\ CWND_logs[c] # <<>>
  BY DEF AtClient, Retransmit
<1>2. LogInv(c, front) /\ front \in logger /\ rest \in Seq(logger)
  BY <1>1, FrontLog
<1>3. front.seq \in Nat /\ front.file_pos \in Boundaries(c)
  BY <1>2 DEF logger, LogInv
<1>4. /\ Expire(InFlight(c) = {} /\ ~CanSend(c), {ChunkOf(c, front.seq, front.file_pos)})
      /\ ChunkSent(c, front.seq, front.file_pos, rest)
      /\ UNCHANGED all_connection
      /\ SS_THRESH' = [SS_THRESH EXCEPT ![c] = CWND[c] \div 2]
      /\ CWND' = [CWND EXCEPT ![c] = MSS]
      /\ CWND_space' = [CWND_space EXCEPT ![c] = 0]
  BY DEF AtClient, Retransmit
<1>. HIDE DEF front, rest
<1>5. NetType'
  BY <1>3, <1>4, NetTypeOK, ChunkPacket, ExpireType
<1>6. CWND[c] \div 2 \in Nat
  BY DEF TypeOK
<1>7. /\ SS_THRESH' \in [Clients -> Nat]
      /\ CWND' \in [Clients -> Nat \ {0}]
      /\ CWND_space' \in [Clients -> Nat]
  BY <1>4, <1>6, MSSAssumption DEF TypeOK
<1>. QED
  BY <1>2, <1>3, <1>4, <1>5, <1>7, TypeChunkSent DEF TypeOK, NetType

(* What is left of the logs after some of the oldest are erased. *)
LEMMA ErasedLogs ==
  ASSUME TypeOK, NEW c \in Clients, NEW i \in DOMAIN CWND_logs[c]
  PROVE  LET rest == SubSeq(CWND_logs[c], i + 1, Len(CWND_logs[c]))
         IN  /\ rest \in Seq(logger)
             /\ \A k \in DOMAIN rest : \E j \in DOMAIN CWND_logs[c] : rest[k] = CWND_logs[c][j]
<1> DEFINE logs == CWND_logs[c]
           rest == SubSeq(logs, i + 1, Len(logs))
<1>1. logs \in Seq(logger) /\ i \in 1..Len(logs)
  BY DEF TypeOK
<1>. HIDE DEF logs
<1>2. /\ Len(rest) = Len(logs) - i
      /\ \A k \in 1..Len(rest) : rest[k] = logs[i + k] /\ i + k \in DOMAIN logs
      /\ DOMAIN rest = 1..Len(rest)
  BY <1>1
<1>3. rest \in Seq(logger)
  BY <1>1
<1>. QED BY <1>2, <1>3 DEF logs

(* An ACK leaves a window above zero and makes room for one packet or two. *)
LEMMA WindowType ==
  ASSUME NEW w \in Nat \ {0}, NEW t \in Nat
  PROVE  WindowAfter(w, t) \in Nat \ {0} /\ SpaceAfter(w, t) \in {1, 2}
<1>1. MSS * MSS \in Nat
  BY MSSAssumption
<1>2. (MSS * MSS) \div w \in Nat
  BY <1>1, DivNat
<1>. QED BY <1>2, MSSAssumption DEF WindowAfter, SpaceAfter

(* Reading a packet in the data loop keeps the types. *)
LEMMA TypeDataRecv ==
  ASSUME TypeOK, NEW c \in Clients, NEW m \in Inbox(c), AtClient(DataRecv(c, m))
  PROVE  TypeOK'
<1> DEFINE LoopType == /\ phase \in [Clients -> Phases]
                       /\ CWND \in [Clients -> Nat \ {0}]
                       /\ CWND_space \in [Clients -> Nat]
                       /\ CWND_logs \in [Clients -> Seq(logger)]
<1>1. NetType'
  BY NetTypeOK, DeliverType DEF AtClient, DataRecv
<1>2. UNCHANGED <<all_connection, seq_num, ack_num, id_num, F, SS_THRESH, fileVars>>
  BY DEF AtClient, DataRecv
<1>3. LoopType'
  <2>0. "fin" \in Phases /\ "top" \in Phases
    BY DEF Phases
  <2>1. ASSUME NEW i \in FirstLog(c, m.ack), Acked(c, i) PROVE LoopType'
    <3>1. SubSeq(CWND_logs[c], i + 1, Len(CWND_logs[c])) \in Seq(logger)
      BY ErasedLogs DEF FirstLog
    <3>2. /\ CWND[c] \in Nat \ {0}
          /\ SS_THRESH[c] \in Nat
          /\ CWND_space[c] \in Nat
      BY DEF TypeOK
    <3>3. /\ WindowAfter(CWND[c], SS_THRESH[c]) \in Nat \ {0}
          /\ SpaceAfter(CWND[c], SS_THRESH[c]) \in {1, 2}
      BY <3>2, WindowType
    <3>4. CWND_space[c] + SpaceAfter(CWND[c], SS_THRESH[c]) \in Nat
      BY <3>2, <3>3
    <3>5. phase' \in [Clients -> Phases] /\ CWND_logs' \in [Clients -> Seq(logger)]
      BY <2>0, <2>1, <3>1 DEF TypeOK, Acked, LoopExit, Goto
    <3>6. CWND' \in [Clients -> Nat \ {0}] /\ CWND_space' \in [Clients -> Nat]
      BY <2>1, <3>3, <3>4 DEF TypeOK, Acked
    <3>. QED BY <3>5, <3>6
  <2>2. ASSUME LoopExit(c, CWND_logs[c]), UNCHANGED <<CWND, CWND_space, CWND_logs>> PROVE LoopType'
    BY <2>0, <2>2 DEF TypeOK, LoopExit, Goto
  <2>. QED BY <2>1, <2>2 DEF AtClient, DataRecv
<1>. QED BY <1>1, <1>2, <1>3 DEF TypeOK, NetType, fileVars

(* Sending the FIN keeps the types. *)
LEMMA TypeSendFin ==
  ASSUME TypeOK, NEW c \in Clients, AtClient(SendFin(c))
  PROVE  TypeOK'
<1>1. NetType'
  BY NetTypeOK, ControlPackets, SendType DEF AtClient, SendFin
<1>2. ClientType' /\ ConnType'
  BY DEF TypeOK, AtClient, SendFin, Goto, Phases, ClientType, ConnType, windowVars, fileVars
<1>. QED BY <1>1, <1>2 DEF TypeOK, NetType, ConnType, ClientType

(* The timers that send a control packet again. *)
LEMMA TypeResend ==
  ASSUME TypeOK, NEW c \in Clients, AtClient(SynTimeout(c)) \/ AtClient(FinTimeout(c))
  PROVE  TypeOK'
<1>1. NetType'
  BY NetTypeOK, ControlPackets, ExpireType DEF AtClient, SynTimeout, FinTimeout
<1>2. UNCHANGED <<all_connection, clientVars>>
  BY DEF AtClient, SynTimeout, FinTimeout
<1>. QED BY <1>1, <1>2 DEF TypeOK, NetType, clientVars

(* Sending the last ACK keeps the types it touches. *)
LEMMA TypeLastAck ==
  ASSUME TypeOK, NEW c \in Clients, NEW m \in Inbox(c), LastAck(c, m)
  PROVE  NetType' /\ ack_num' \in [Clients -> Nat]
<1>1. m.seq + 1 \in Nat
  BY DEF TypeOK, Inbox, packet
<1>2. seq_num[c] \in Nat /\ id_num[c] \in Nat /\ ACK \in Nat
  BY DEF TypeOK, ACK
<1>3. set_header(c, seq_num[c], m.seq + 1, id_num[c], ACK, Padding) \in packet
  BY <1>1, <1>2, HeaderType, PaddingType
<1>4. NetType'
  BY <1>3, NetTypeOK, DeliverType DEF LastAck
<1>. QED BY <1>1, <1>4 DEF TypeOK, LastAck

(* Reading a packet while the FIN is out keeps the types. *)
LEMMA TypeFinRecv ==
  ASSUME TypeOK, NEW c \in Clients, NEW m \in Inbox(c), AtClient(FinRecv(c, m))
  PROVE  TypeOK'
<1>1. UNCHANGED <<all_connection, seq_num, id_num, F, windowVars, fileVars>>
  BY DEF AtClient, FinRecv
<1>2. \/ LastAck(c, m) /\ Goto(c, "timewait")
      \/ Deliver(m, {}) /\ UNCHANGED <<ack_num, phase>>
  BY DEF AtClient, FinRecv
<1>3. NetType' /\ ack_num' \in [Clients -> Nat]
  BY <1>2, TypeLastAck, NetTypeOK, DeliverType DEF TypeOK
<1>4. phase' \in [Clients -> Phases]
  BY <1>2 DEF TypeOK, Goto, Phases
<1>. QED BY <1>1, <1>3, <1>4 DEF TypeOK, NetType, windowVars, fileVars

(* Reading a packet in the final wait keeps the types. *)
LEMMA TypeTimeWaitRecv ==
  ASSUME TypeOK, NEW c \in Clients, NEW m \in Inbox(c), AtClient(TimeWaitRecv(c, m))
  PROVE  TypeOK'
<1>1. UNCHANGED <<all_connection, phase, seq_num, id_num, F, windowVars, fileVars>>
  BY DEF AtClient, TimeWaitRecv
<1>2. LastAck(c, m) \/ (Deliver(m, {}) /\ UNCHANGED ack_num)
  BY DEF AtClient, TimeWaitRecv
<1>3. NetType' /\ ack_num' \in [Clients -> Nat]
  BY <1>2, TypeLastAck, NetTypeOK, DeliverType DEF TypeOK
<1>. QED BY <1>1, <1>3 DEF TypeOK, NetType, windowVars, fileVars

-----------------------------------------------------------------------------
(* Types: the server. *)
LEMMA ReplyType ==
  ASSUME NEW con \in connection_info
  PROVE  AckOf(con) \in packet /\ FinOf(con) \in packet /\ SynAckOf(con) \in packet
BY DEF connection_info, AckOf, FinOf, SynAckOf, Reply, packet, ACK, FIN, SYN_ACK

(* The echoes of a SYN are packets. *)
LEMMA EchoType ==
  ASSUME ConnType, NEW m \in packet, NEW visited \in SUBSET Slots
  PROVE  Echoes(m, visited) \subseteq packet
<1> SUFFICES ASSUME NEW j \in Slots PROVE EchoOf(m, all_connection[j]) \in packet
  BY DEF Echoes
<1>1. m.seq \in Nat /\ m.ack \in Nat /\ m.id \in Nat /\ m.flags \in Nat
  BY DEF packet
<1>2. /\ hton32(m.seq) \in Nat /\ hton32(m.ack) \in Nat
      /\ hton16(m.id) \in Nat /\ hton16(m.flags) \in Nat
  BY <1>1, HtonType
<1>3. all_connection[j].src_addr \in Clients \cup {Server, NoAddr}
  BY DEF ConnType, connection_info
<1>. QED BY <1>2, <1>3 DEF EchoOf, packet

(* A handler that stores a well-typed slot and sends well-typed packets keeps the types. *)
LEMMA ServerType ==
  ASSUME TypeOK, NEW m, NEW out, out \subseteq packet, Deliver(m, out), UNCHANGED clientVars,
         NEW i \in Slots, NEW con \in connection_info,
         all_connection' = [all_connection EXCEPT ![i] = con]
  PROVE  TypeOK'
<1>1. NetType'
  BY NetTypeOK, DeliverType
<1>. QED BY <1>1 DEF TypeOK, NetType, clientVars

(* Ignoring a packet keeps the types. *)
LEMMA IgnoreType ==
  ASSUME TypeOK, NEW m, NEW out, out \subseteq packet, Deliver(m, out),
         UNCHANGED <<all_connection, clientVars>>
  PROVE  TypeOK'
<1>1. NetType'
  BY NetTypeOK, DeliverType
<1>. QED BY <1>1 DEF TypeOK, NetType, clientVars

(* The server's SYN handler keeps the types. *)
LEMMA TypeRecvSyn ==
  ASSUME TypeOK, NEW m \in Inbox(Server), AtServer(RecvSyn(m))
  PROVE  TypeOK'
<1>1. m \in packet /\ ConnType
  BY DEF TypeOK, Inbox, ConnType
<1>2. ASSUME NEW i \in FirstFree(m), AcceptSyn(m, i) PROVE TypeOK'
  <2>1. i \in Slots /\ i \in Nat /\ 1..(i-1) \in SUBSET Slots
    BY SlotsAssumption DEF FirstFree, Slots
  <2>2. NewConnection(i, m) \in connection_info
    <3>1. m.seq + 1 \in Nat /\ m.src \in Clients \cup {Server}
      BY <1>1 DEF packet
    <3>2. all_connection[i] \in connection_info
      BY <1>1, <2>1 DEF ConnType
    <3>. QED BY <2>1, <3>1, <3>2, SeqAssumption DEF NewConnection, connection_info
  <2>3. Echoes(m, 1..(i-1)) \cup {SynAckOf(NewConnection(i, m))} \subseteq packet
    BY <1>1, <2>1, <2>2, EchoType, ReplyType
  <2>. QED BY <1>2, <2>1, <2>2, <2>3, ServerType DEF AcceptSyn, AtServer
<1>3. ASSUME RefuseSyn(m) PROVE TypeOK'
  BY <1>1, <1>3, EchoType, IgnoreType DEF RefuseSyn, AtServer
<1>. QED BY <1>2, <1>3 DEF RecvSyn, AtServer

(* The slot a data packet leaves behind. *)
LEMMA AfterDataType ==
  ASSUME NEW con \in connection_info, NEW m \in packet
  PROVE  AfterData(con, m) \in connection_info
<1>1. /\ con.ack \in Nat /\ con.seq \in Nat /\ con.myfile \in Seq(Byte)
      /\ m.data \in Seq(Byte) /\ Len(m.data) \in Nat
  BY DEF connection_info, packet
<1>2. AckAfter(con, m) \in Nat /\ SeqAfter(con, m) \in Nat /\ Written(con, m) \in Seq(Byte)
  BY <1>1, SeqAssumption DEF AckAfter, SeqAfter, Written
<1>. QED BY <1>2 DEF AfterData, connection_info

(* A slot that saw a FIN is still a slot. *)
LEMMA AfterFinType ==
  ASSUME NEW con \in connection_info, NEW m \in packet
  PROVE  AfterFin(con, m) \in connection_info
<1>1. con.ack + 1 \in Nat /\ con.ack \in Nat
  BY DEF connection_info
<1>. QED BY <1>1 DEF AfterFin, connection_info

(* The server's data handler keeps the types. *)
LEMMA TypeRecvData ==
  ASSUME TypeOK, NEW m \in Inbox(Server), AtServer(RecvData(m))
  PROVE  TypeOK'
<1>1. m \in packet /\ \A i \in Slots : all_connection[i] \in connection_info
  BY DEF TypeOK, Inbox
<1>2. ASSUME NEW i \in Slots, CloseFile(m, i) PROVE TypeOK'
  <2>1. [all_connection[i] EXCEPT !.is_open = FALSE] \in connection_info
    BY <1>1 DEF connection_info
  <2>2. all_connection' = [all_connection EXCEPT ![i] = [all_connection[i] EXCEPT !.is_open = FALSE]]
    BY <1>2 DEF CloseFile
  <2>. QED BY <1>2, <2>1, <2>2, ServerType DEF CloseFile, AtServer
<1>3. ASSUME NEW i \in Slots, Acknowledge(m, i) PROVE TypeOK'
  <2>1. AfterData(all_connection[i], m) \in connection_info
    BY <1>1, AfterDataType
  <2>. QED BY <1>3, <2>1, ReplyType, ServerType DEF Acknowledge, AtServer
<1>4. ASSUME Ignore(m) PROVE TypeOK'
  BY <1>4, IgnoreType DEF Ignore, AtServer
<1>. QED BY <1>2, <1>3, <1>4 DEF RecvData, AtServer, FirstMatch

(* The server's FIN handler keeps the types. *)
LEMMA TypeRecvFin ==
  ASSUME TypeOK, NEW m \in Inbox(Server), AtServer(RecvFin(m))
  PROVE  TypeOK'
<1>1. m \in packet /\ \A i \in Slots : all_connection[i] \in connection_info
  BY DEF TypeOK, Inbox
<1>2. ASSUME NEW i \in Slots, AnswerFin(m, i) PROVE TypeOK'
  <2>1. AfterFin(all_connection[i], m) \in connection_info
    BY <1>1, AfterFinType
  <2>2. {AckOf(AfterFin(all_connection[i], m)), FinOf(AfterFin(all_connection[i], m))} \subseteq packet
    BY <2>1, ReplyType
  <2>. QED BY <1>2, <2>1, <2>2, ServerType DEF AnswerFin, AtServer
<1>3. ASSUME Ignore(m) PROVE TypeOK'
  BY <1>3, IgnoreType DEF Ignore, AtServer
<1>. QED BY <1>2, <1>3 DEF RecvFin, AtServer, FirstMatch

-----------------------------------------------------------------------------
(* The inductive invariant: what no step takes back. *)

(* A slot keeps its client, a finished slot stays finished, a client keeps its id. *)
ConnStable ==
  \A i \in Slots :
    /\ all_connection[i].src_addr \in Clients =>
         all_connection'[i].src_addr = all_connection[i].src_addr
    /\ all_connection[i].is_FIN = 1 => all_connection'[i].is_FIN = 1

IdStable == \A c \in Clients : HasId(c) => id_num'[c] = id_num[c]

SameClient(d) ==
  /\ phase'[d] = phase[d]
  /\ seq_num'[d] = seq_num[d]
  /\ ack_num'[d] = ack_num[d]
  /\ id_num'[d] = id_num[d]
  /\ CWND_logs'[d] = CWND_logs[d]
  /\ file_pos'[d] = file_pos[d]

(* So what was true of a packet when it was sent is true as long as it is in flight. *)
LEMMA PacketStable ==
  ASSUME TypeOK, InductiveInv, ConnStable, IdStable, NEW m \in net
  PROVE  PacketInv(m)'
<1>1. PacketInv(m)
  BY DEF InductiveInv, NetInv
<1>2. \A c \in Clients : HasId(c) => /\ id_num[c] \in Slots
                                     /\ id_num'[c] = id_num[c]
                                     /\ ConnOf(c).is_FIN = 1 => ConnOf(c)'.is_FIN = 1
  BY DEF InductiveInv, ClientInv, ClientInvAt, OwnsSlot, IdStable, ConnStable, ConnOf
<1>3. CASE m.dst = Server
  <2>1. ToServer(m)
    BY <1>1, <1>3 DEF PacketInv
  <2>2. CASE IsSyn(m)
    BY <1>3, <2>1, <2>2 DEF PacketInv, ToServer, IsSyn
  <2>3. CASE FromConnected(m) /\ (IsChunk(m) \/ IsLastAck(m) \/ m.flags = FIN)
    <3>1. m.src \in Clients /\ HasId(m.src) /\ m.id = id_num[m.src]
      BY <2>1, <2>3 DEF ToServer, FromConnected
    <3>2. FromConnected(m)'
      BY <1>2, <3>1 DEF FromConnected, HasId
    <3>3. IsChunk(m) => IsChunk(m)'
      BY DEF IsChunk
    <3>4. IsLastAck(m) => IsLastAck(m)'
      BY <1>2, <3>1 DEF IsLastAck
    <3>5. ToServer(m)'
      BY <2>3, <3>1, <3>2, <3>3, <3>4 DEF ToServer
    <3>. QED BY <1>3, <3>5 DEF PacketInv
  <2>. QED BY <2>1, <2>2, <2>3 DEF ToServer
<1>4. CASE m.dst # Server
  <2>1. m.dst \in Clients /\ ToClient(m)
    BY <1>1, <1>4 DEF PacketInv
  <2>2. m.flags = SYN_ACK => all_connection'[m.id].src_addr = m.dst
    BY <2>1 DEF ToClient, ConnStable
  <2>3. m.flags = FIN => HasId(m.dst)' /\ ConnOf(m.dst)'.is_FIN = 1
    BY <1>2, <2>1 DEF ToClient, HasId
  <2>4. ToClient(m)'
    BY <2>1, <2>2, <2>3 DEF ToClient
  <2>. QED BY <1>4, <2>1, <2>4 DEF PacketInv
<1>. QED BY <1>3, <1>4

(* What NetInv says of a packet survives a step that keeps owners, ids and FIN marks. *)
LEMMA NetStep ==
  ASSUME TypeOK, InductiveInv, ConnStable, IdStable,
         \A m \in net' : m \in net \/ PacketInv(m)'
  PROVE  NetInv'
BY PacketStable DEF NetInv

(* The invariant of a client whose own state does not change. *)
LEMMA ClientStable ==
  ASSUME TypeOK, InductiveInv, ConnStable, NEW d \in Clients, SameClient(d)
  PROVE  ClientInvAt(d)'
<1>1. ClientInvAt(d)
  BY DEF InductiveInv, ClientInv
<1>2. HasId(d)' <=> HasId(d)
  BY DEF SameClient, HasId
<1>3. HasId(d) => OwnsSlot(d)'
  BY <1>1 DEF ClientInvAt, OwnsSlot, ConnOf, SameClient, ConnStable
<1>4. DataInv(d) => DataInv(d)'
  BY DEF SameClient, DataInv
<1>5. phase[d] = "timewait" => ConnOf(d)'.is_FIN = 1
  BY <1>1 DEF ClientInvAt, OwnsSlot, ConnOf, SameClient, ConnStable, Connected
<1>. QED BY <1>1, <1>2, <1>3, <1>4, <1>5 DEF ClientInvAt, SameClient

(* A client's step: its own invariant and its packets are all there is to show. *)
LEMMA ClientStep ==
  ASSUME TypeOK, InductiveInv, UNCHANGED all_connection,
         NEW c \in Clients, HasId(c) => id_num'[c] = id_num[c], ClientInvAt(c)',
         \A d \in Clients \ {c} : SameClient(d),
         \A m \in net' : m \in net \/ PacketInv(m)'
  PROVE  InductiveInv'
<1>1. ConnStable
  BY DEF ConnStable
<1>2. IdStable
  BY DEF IdStable, SameClient
<1>3. NetInv'
  BY <1>1, <1>2, NetStep
<1>4. SlotInv'
  BY DEF InductiveInv, SlotInv
<1>5. ClientInv'
  BY <1>1, ClientStable DEF ClientInv
<1>. QED BY <1>3, <1>4, <1>5 DEF InductiveInv

(* The server's step: its slots and its packets are all there is to show. *)
LEMMA ServerStep ==
  ASSUME TypeOK, InductiveInv, UNCHANGED clientVars, ConnStable, SlotInv',
         \A m \in net' : m \in net \/ PacketInv(m)'
  PROVE  InductiveInv'
<1>1. IdStable /\ \A d \in Clients : SameClient(d)
  BY DEF clientVars, IdStable, SameClient
<1>2. NetInv'
  BY <1>1, NetStep
<1>3. ClientInv'
  BY <1>1, ClientStable DEF ClientInv
<1>. QED BY <1>2, <1>3 DEF InductiveInv

(* Receiving adds only the answers to the network. *)
LEMMA DeliverNet == ASSUME NEW m, NEW out, Deliver(m, out) PROVE net' \subseteq net \cup out
BY DEF Deliver

-----------------------------------------------------------------------------
(* The inductive invariant: the client. *)

(* The packets a client sends satisfy the invariant. *)
LEMMA SynInv ==
  ASSUME InductiveInv, NEW c \in Clients, phase[c] \in {"start", "synwait"}, NEW m, m = SynOf(c)
  PROVE  PacketInv(m)'
<1>1. id_num[c] = 0 /\ seq_num[c] = ISN /\ ack_num[c] = 0
  BY DEF InductiveInv, ClientInv, ClientInvAt
<1>2. /\ m.dst = Server /\ m.src = c /\ m.flags = SYN
      /\ m.seq = ISN /\ m.ack = 0 /\ m.id = 0
  BY <1>1 DEF SynOf, set_header
<1>. QED BY <1>2 DEF PacketInv, ToServer, IsSyn

(* A chunk a connected client sends satisfies PacketInv. *)
LEMMA ChunkInv ==
  ASSUME TypeOK, NEW c \in Clients, HasId(c), UNCHANGED id_num, NEW p \in Boundaries(c),
         NEW m, m = ChunkOf(c, SeqAt(p), p)
  PROVE  PacketInv(m)'
<1>1. /\ m.dst = Server /\ m.src = c /\ m.flags = F[c] /\ m.id = id_num[c]
      /\ m.seq = SeqAt(p) /\ m.data = Payload(c, p, ReadLen(c, p))
  BY DEF ChunkOf, set_header
<1>2. F[c] \in {0, ACK}
  BY DEF TypeOK
<1>3. IsChunk(m)'
  BY <1>1, <1>2 DEF IsChunk
<1>4. FromConnected(m)'
  BY <1>1 DEF FromConnected, HasId
<1>. QED BY <1>1, <1>3, <1>4 DEF PacketInv, ToServer

(* A client's FIN satisfies PacketInv. *)
LEMMA FinInv ==
  ASSUME NEW c \in Clients, HasId(c), UNCHANGED id_num, NEW m, m = FinOfClient(c)
  PROVE  PacketInv(m)'
<1>1. m.dst = Server /\ m.src = c /\ m.flags = FIN /\ m.id = id_num[c]
  BY DEF FinOfClient, set_header
<1>2. FromConnected(m)'
  BY <1>1 DEF FromConnected, HasId
<1>. QED BY <1>1, <1>2 DEF PacketInv, ToServer

(* The last ACK is sent in reply to a FIN, so the server's slot is finished by then. *)
LEMMA LastAckInv ==
  ASSUME NEW c \in Clients, HasId(c), ConnOf(c).is_FIN = 1, UNCHANGED <<id_num, all_connection>>,
         NEW ack, NEW m, m = set_header(c, seq_num[c], ack, id_num[c], ACK, Padding)
  PROVE  PacketInv(m)'
<1>1. m.dst = Server /\ m.src = c /\ m.flags = ACK /\ m.id = id_num[c]
  BY DEF set_header
<1>2. FromConnected(m)' /\ IsLastAck(m)'
  BY <1>1 DEF FromConnected, HasId, IsLastAck, ConnOf
<1>. QED BY <1>1, <1>2 DEF PacketInv, ToServer

(* Steps that only move the thread: give-ups, the end of the wait, the loop's idle turns. *)
LEMMA InvGoto ==
  ASSUME TypeOK, InductiveInv, NEW c \in Clients, NEW p \in Phases, Goto(c, p),
         UNCHANGED <<all_connection, netVars, seq_num, ack_num, id_num, F, windowVars, fileVars>>,
         p \in Connected => phase[c] \in Connected,
         p \notin {"start", "synwait", "open", "timewait"},
         p \in {"top", "recv"} => phase[c] \in {"top", "recv"}
  PROVE  InductiveInv'
<1>1. phase \in [Clients -> Phases] /\ phase' = [phase EXCEPT ![c] = p]
  BY DEF TypeOK, Goto
<1>2. \A d \in Clients \ {c} : SameClient(d)
  BY <1>1 DEF SameClient, windowVars, fileVars
<1>3. ClientInvAt(c)
  BY DEF InductiveInv, ClientInv
<1>4. phase'[c] = p
  BY <1>1
<1>5. ClientInvAt(c)'
  <2>1. /\ HasId(c)' <=> HasId(c)
        /\ OwnsSlot(c)' <=> OwnsSlot(c)
        /\ DataInv(c)' <=> DataInv(c)
    BY DEF HasId, OwnsSlot, ConnOf, DataInv, windowVars, fileVars
  <2>. QED BY <1>3, <1>4, <2>1 DEF ClientInvAt
<1>6. (\A m \in net' : m \in net \/ PacketInv(m)') /\ id_num'[c] = id_num[c]
  BY DEF netVars
<1>. QED BY <1>2, <1>5, <1>6, ClientStep

(* Sending the SYN keeps the invariant. *)
LEMMA InvSendSyn ==
  ASSUME TypeOK, InductiveInv, NEW c \in Clients, AtClient(SendSyn(c))
  PROVE  InductiveInv'
<1>1. /\ phase[c] = "start"
      /\ Goto(c, "synwait")
      /\ UNCHANGED <<all_connection, seq_num, ack_num, id_num, F, windowVars, fileVars>>
      /\ net' = net \cup {SynOf(c)}
  BY DEF AtClient, SendSyn, Send
<1>2. phase \in [Clients -> Phases] /\ ClientInvAt(c)
  BY DEF TypeOK, InductiveInv, ClientInv
<1>3. \A d \in Clients \ {c} : SameClient(d)
  BY <1>1, <1>2 DEF Goto, SameClient, windowVars, fileVars
<1>4. phase'[c] = "synwait"
  BY <1>1, <1>2 DEF Goto
<1>5. ClientInvAt(c)'
  BY <1>1, <1>2, <1>4 DEF ClientInvAt, HasId, Connected, windowVars, fileVars
<1>6. \A m \in net' : m \in net \/ PacketInv(m)'
  BY <1>1, SynInv
<1>. QED BY <1>1, <1>3, <1>5, <1>6, ClientStep

(* Sending the SYN again keeps the invariant. *)
LEMMA InvSynTimeout ==
  ASSUME TypeOK, InductiveInv, NEW c \in Clients, AtClient(SynTimeout(c))
  PROVE  InductiveInv'
<1>1. /\ phase[c] = "synwait"
      /\ UNCHANGED <<all_connection, clientVars>>
      /\ net' = net \cup {SynOf(c)}
  BY DEF AtClient, SynTimeout, Expire
<1>2. \A m \in net' : m \in net \/ PacketInv(m)'
  BY <1>1, SynInv
<1>3. ConnStable /\ SlotInv'
  BY <1>1 DEF ConnStable, InductiveInv, SlotInv
<1>. QED BY <1>1, <1>2, <1>3, ServerStep

(* A SYN-ACK gives the client an id whose slot it owns. *)
LEMMA InvHandshakeRecv ==
  ASSUME TypeOK, InductiveInv, NEW c \in Clients, NEW m \in Inbox(c), AtClient(HandshakeRecv(c, m))
  PROVE  InductiveInv'
<1>1. /\ phase[c] = "synwait"
      /\ UNCHANGED <<all_connection, F, SS_THRESH, CWND_space, CWND_logs, fileVars>>
  BY DEF AtClient, HandshakeRecv
<1>2. ClientInvAt(c) /\ m \in net /\ m.dst = c /\ PacketInv(m)
  BY DEF InductiveInv, ClientInv, NetInv, Inbox
<1>3. CASE Established(c, m)
  <2>1. /\ m.flags = SYN_ACK /\ m.seq = ISS
        /\ seq_num' = [seq_num EXCEPT ![c] = m.ack]
        /\ ack_num' = [ack_num EXCEPT ![c] = m.seq + 1]
        /\ id_num' = [id_num EXCEPT ![c] = m.id]
        /\ phase' = [phase EXCEPT ![c] = "open"]
        /\ Deliver(m, {})
    BY <1>3 DEF Established, IsSynAck, Goto
  <2>2. m.ack = ISN + 1 /\ m.id \in Slots /\ all_connection[m.id].src_addr = c
    BY <1>2, <2>1, AddrAssumption DEF PacketInv, ToClient
  <2>3. /\ phase \in [Clients -> Phases] /\ seq_num \in [Clients -> Nat]
        /\ ack_num \in [Clients -> Nat] /\ id_num \in [Clients -> Nat]
    BY DEF TypeOK
  <2>4. /\ phase'[c] = "open" /\ seq_num'[c] = ISN + 1 /\ id_num'[c] = m.id
        /\ \A d \in Clients \ {c} : SameClient(d)
    BY <1>1, <2>1, <2>2, <2>3 DEF SameClient, fileVars
  <2>5. m.id # 0 /\ ~HasId(c)
    BY <1>1, <1>2, <2>2, SlotsAssumption DEF ClientInvAt, HasId, Slots
  <2>6. HasId(c)' /\ OwnsSlot(c)'
    BY <1>1, <2>2, <2>4, <2>5 DEF HasId, OwnsSlot, ConnOf
  <2>7. file_pos'[c] = 0 /\ CWND_logs'[c] = <<>>
    BY <1>1, <1>2 DEF ClientInvAt, fileVars
  <2>8. ClientInvAt(c)'
    BY <2>4, <2>6, <2>7, SeqAtZero DEF ClientInvAt
  <2>9. \A q \in net' : q \in net \/ PacketInv(q)'
    BY <2>1, DeliverNet
  <2>. QED BY <1>1, <2>4, <2>5, <2>8, <2>9, ClientStep
<1>4. CASE ~Established(c, m)
  <2>1. /\ UNCHANGED <<phase, seq_num, ack_num, id_num>>
        /\ Deliver(m, {}) \/ Deliver(m, {SynOf(c)})
    BY <1>4 DEF AtClient, HandshakeRecv
  <2>2. net' \subseteq net \cup {SynOf(c)}
    BY <2>1, DeliverNet
  <2>3. \A d \in Clients : SameClient(d)
    BY <1>1, <2>1 DEF SameClient, fileVars
  <2>4. ConnStable
    BY <1>1 DEF ConnStable
  <2>5. \A q \in net' : q \in net \/ PacketInv(q)'
    BY <1>1, <2>2, SynInv
  <2>6. ClientInvAt(c)' /\ id_num'[c] = id_num[c]
    BY <2>1, <2>3, <2>4, ClientStable
  <2>. QED BY <1>1, <2>2, <2>3, <2>5, <2>6, ClientStep
<1>. QED BY <1>3, <1>4

(* Opening the file keeps the invariant. *)
LEMMA InvOpenFile ==
  ASSUME TypeOK, InductiveInv, NEW c \in Clients, AtClient(OpenFile(c))
  PROVE  InductiveInv'
<1>1. /\ phase[c] = "open"
      /\ UNCHANGED <<all_connection, netVars, seq_num, ack_num, id_num, CWND_logs, fileVars>>
      /\ \/ Goto(c, "top") /\ FileLen[c] \in 0..MaxFileSize
         \/ Goto(c, "failed")
  BY DEF AtClient, OpenFile
<1>2. phase \in [Clients -> Phases] /\ ClientInvAt(c)
  BY DEF TypeOK, InductiveInv, ClientInv
<1>3. /\ \A d \in Clients \ {c} : SameClient(d)
      /\ phase'[c] = "failed" \/ (phase'[c] = "top" /\ FileLen[c] \in 0..MaxFileSize)
  BY <1>1, <1>2 DEF Goto, SameClient, fileVars
<1>4. /\ file_pos'[c] = 0 /\ CWND_logs'[c] = <<>> /\ seq_num'[c] = SeqAt(0)
      /\ id_num'[c] = id_num[c] /\ HasId(c) /\ OwnsSlot(c)
  BY <1>1, <1>2 DEF ClientInvAt, Connected, fileVars
<1>5. FileLen[c] \in 0..MaxFileSize => DataInv(c)'
  <2>1. FileLen[c] \in 0..MaxFileSize => 0 \in Boundaries(c)
    BY MSSAssumption, MaxFileSizeAssumption DEF Boundaries
  <2>. QED BY <1>4, <2>1 DEF DataInv
<1>6. HasId(c)' /\ OwnsSlot(c)'
  BY <1>1, <1>4 DEF HasId, OwnsSlot, ConnOf
<1>7. ClientInvAt(c)'
  BY <1>3, <1>5, <1>6 DEF ClientInvAt, Connected
<1>8. \A m \in net' : m \in net \/ PacketInv(m)'
  BY <1>1 DEF netVars
<1>. QED BY <1>1, <1>3, <1>4, <1>7, <1>8, ClientStep

(* A chunk read at boundary p and sent with its sequence number, after logs that are right. *)
LEMMA InvChunkSent ==
  ASSUME TypeOK, InductiveInv, NEW c \in Clients, phase[c] = "top", UNCHANGED all_connection,
         NEW p \in Boundaries(c), NEW logs \in Seq(logger),
         \A k \in DOMAIN logs : LogInv(c, logs[k]),
         ChunkSent(c, SeqAt(p), p, logs), net' = net \cup {ChunkOf(c, SeqAt(p), p)}
  PROVE  InductiveInv'
<1> DEFINE n == ReadLen(c, p)
           log == LogOf(SeqAt(p), n, p)
<1>1. p \in Nat /\ n \in Nat /\ p + n \in Boundaries(c)
  BY ReadAtBoundary
<1>2. (SeqAt(p) + n) % SeqMod = SeqAt(p + n)
  BY <1>1, SeqAtAdd
<1>3. LogInv(c, log)
  BY <1>2 DEF LogInv, LogOf
<1>4. /\ seq_num' = [seq_num EXCEPT ![c] = SeqAt(p + n)]
      /\ ack_num' = [ack_num EXCEPT ![c] = 0]
      /\ CWND_logs' = [CWND_logs EXCEPT ![c] = Append(logs, log)]
      /\ file_pos' = [file_pos EXCEPT ![c] = p + n]
      /\ phase' = [phase EXCEPT ![c] = "recv"]
      /\ UNCHANGED id_num
  BY <1>2 DEF ChunkSent, Goto
<1>. HIDE DEF n, log
<1>5. /\ phase \in [Clients -> Phases] /\ seq_num \in [Clients -> Nat]
      /\ ack_num \in [Clients -> Nat] /\ file_pos \in [Clients -> Nat]
      /\ CWND_logs \in [Clients -> Seq(logger)]
  BY DEF TypeOK
<1>6. \A d \in Clients \ {c} : SameClient(d)
  BY <1>4, <1>5 DEF SameClient
<1>7. /\ phase'[c] = "recv" /\ seq_num'[c] = SeqAt(p + n) /\ file_pos'[c] = p + n
      /\ CWND_logs'[c] = Append(logs, log) /\ id_num'[c] = id_num[c]
  BY <1>4, <1>5
<1>8. \A k \in DOMAIN Append(logs, log) : LogInv(c, Append(logs, log)[k])
  <2>1. \A k \in DOMAIN Append(logs, log) :
           (k \in DOMAIN logs /\ Append(logs, log)[k] = logs[k]) \/ Append(logs, log)[k] = log
    OBVIOUS
  <2>. QED BY <1>3, <2>1
<1>9. DataInv(c)'
  BY <1>1, <1>7, <1>8 DEF DataInv
<1>10. ClientInvAt(c) /\ HasId(c) /\ OwnsSlot(c)
  BY DEF InductiveInv, ClientInv, ClientInvAt, Connected
<1>11. HasId(c)' /\ OwnsSlot(c)'
  BY <1>4, <1>10 DEF HasId, OwnsSlot, ConnOf
<1>12. ClientInvAt(c)'
  BY <1>7, <1>9, <1>11 DEF ClientInvAt
<1>13. \A m \in net' : m \in net \/ PacketInv(m)'
  BY <1>4, <1>10, ChunkInv
<1>. QED BY <1>6, <1>7, <1>12, <1>13, ClientStep

(* Sending the next chunk keeps the invariant. *)
LEMMA InvSendNext ==
  ASSUME TypeOK, InductiveInv, NEW c \in Clients, AtClient(SendNext(c))
  PROVE  InductiveInv'
<1>1. /\ phase[c] = "top" /\ UNCHANGED all_connection
      /\ ChunkSent(c, seq_num[c], file_pos[c], CWND_logs[c])
      /\ net' = net \cup {ChunkOf(c, seq_num[c], file_pos[c])}
  BY DEF AtClient, SendNext, Send
<1>2. /\ file_pos[c] \in Boundaries(c) /\ seq_num[c] = SeqAt(file_pos[c])
      /\ \A k \in DOMAIN CWND_logs[c] : LogInv(c, CWND_logs[c][k])
  BY <1>1 DEF InductiveInv, ClientInv, ClientInvAt, DataInv
<1>3. CWND_logs[c] \in Seq(logger)
  BY DEF TypeOK
<1>. QED BY <1>1, <1>2, <1>3, InvChunkSent

(* Going back to the oldest log keeps the invariant. *)
LEMMA InvRetransmit ==
  ASSUME TypeOK, InductiveInv, NEW c \in Clients, AtClient(Retransmit(c))
  PROVE  InductiveInv'
<1> DEFINE front == Head(CWND_logs[c])
           rest == Tail(CWND_logs[c])
<1>1. /\ phase[c] = "top" /\ CWND_logs[c] # <<>> /\ UNCHANGED all_connection
      /\ ChunkSent(c, front.seq, front.file_pos, rest)
      /\ net' = net \cup {ChunkOf(c, front.seq, front.file_pos)}
  BY DEF AtClient, Retransmit, Expire
<1>2. /\ LogInv(c, front) /\ rest \in Seq(logger)
      /\ \A k \in DOMAIN rest : LogInv(c, rest[k])
  BY <1>1, FrontLog
<1>. HIDE DEF front, rest
<1>3. front.file_pos \in Boundaries(c) /\ front.seq = SeqAt(front.file_pos)
  BY <1>2 DEF LogInv
<1>. QED BY <1>1, <1>2, <1>3, InvChunkSent

(* Reading a packet in the data loop keeps the invariant. *)
LEMMA InvDataRecv ==
  ASSUME TypeOK, InductiveInv, NEW c \in Clients, NEW m \in Inbox(c), AtClient(DataRecv(c, m))
  PROVE  InductiveInv'
<1>1. /\ phase[c] = "recv" /\ Deliver(m, {})
      /\ UNCHANGED <<all_connection, seq_num, ack_num, id_num, fileVars>>
  BY DEF AtClient, DataRecv
<1>2. /\ phase \in [Clients -> Phases] /\ CWND_logs \in [Clients -> Seq(logger)]
      /\ ClientInvAt(c) /\ DataInv(c) /\ HasId(c) /\ OwnsSlot(c)
  BY <1>1 DEF TypeOK, InductiveInv, ClientInv, ClientInvAt, Connected
<1>3. \E p \in {"fin", "top"} : phase' = [phase EXCEPT ![c] = p]
  BY DEF AtClient, DataRecv, Acked, LoopExit, Goto
<1>4. /\ \A d \in Clients \ {c} : CWND_logs'[d] = CWND_logs[d]
      /\ \A k \in DOMAIN CWND_logs'[c] :
            \E j \in DOMAIN CWND_logs[c] : CWND_logs'[c][k] = CWND_logs[c][j]
  <2>1. CASE \E i \in FirstLog(c, m.ack) : Acked(c, i)
    <3>1. PICK i \in DOMAIN CWND_logs[c] : Acked(c, i)
      BY <2>1 DEF FirstLog
    <3>2. CWND_logs' = [CWND_logs EXCEPT ![c] = SubSeq(CWND_logs[c], i + 1, Len(CWND_logs[c]))]
      BY <3>1 DEF Acked
    <3>3. CWND_logs'[c] = SubSeq(CWND_logs[c], i + 1, Len(CWND_logs[c]))
      BY <1>2, <3>2
    <3>. QED BY <1>2, <3>2, <3>3, ErasedLogs
  <2>2. CASE UNCHANGED CWND_logs
    BY <2>2
  <2>. QED BY <2>1, <2>2 DEF AtClient, DataRecv
<1>5. /\ phase'[c] \in {"fin", "top"}
      /\ \A d \in Clients \ {c} : SameClient(d)
  BY <1>1, <1>2, <1>3, <1>4 DEF SameClient, fileVars
<1>6. DataInv(c)'
  BY <1>1, <1>2, <1>4 DEF DataInv, fileVars
<1>7. HasId(c)' /\ OwnsSlot(c)' /\ id_num'[c] = id_num[c]
  BY <1>1, <1>2 DEF HasId, OwnsSlot, ConnOf
<1>8. ClientInvAt(c)'
  BY <1>5, <1>6, <1>7 DEF ClientInvAt
<1>9. \A q \in net' : q \in net \/ PacketInv(q)'
  BY <1>1, DeliverNet
<1>. QED BY <1>1, <1>5, <1>7, <1>8, <1>9, ClientStep

(* Sending the FIN keeps the invariant. *)
LEMMA InvSendFin ==
  ASSUME TypeOK, InductiveInv, NEW c \in Clients, AtClient(SendFin(c))
  PROVE  InductiveInv'
<1>1. /\ phase[c] = "fin"
      /\ phase' = [phase EXCEPT ![c] = "finwait"]
      /\ ack_num' = [ack_num EXCEPT ![c] = 0]
      /\ UNCHANGED <<all_connection, seq_num, id_num, F, windowVars, fileVars>>
      /\ net' = net \cup {FinOfClient(c)}
  BY DEF AtClient, SendFin, Send, Goto
<1>2. /\ phase \in [Clients -> Phases] /\ ack_num \in [Clients -> Nat]
      /\ HasId(c) /\ OwnsSlot(c)
  BY <1>1 DEF TypeOK, InductiveInv, ClientInv, ClientInvAt, Connected
<1>3. phase'[c] = "finwait" /\ \A d \in Clients \ {c} : SameClient(d)
  BY <1>1, <1>2 DEF SameClient, windowVars, fileVars
<1>4. HasId(c)' /\ OwnsSlot(c)' /\ id_num'[c] = id_num[c]
  BY <1>1, <1>2 DEF HasId, OwnsSlot, ConnOf
<1>5. ClientInvAt(c)'
  BY <1>3, <1>4 DEF ClientInvAt
<1>6. \A q \in net' : q \in net \/ PacketInv(q)'
  BY <1>1, <1>2, FinInv
<1>. QED BY <1>1, <1>3, <1>4, <1>5, <1>6, ClientStep

(* Sending the FIN again keeps the invariant. *)
LEMMA InvFinTimeout ==
  ASSUME TypeOK, InductiveInv, NEW c \in Clients, AtClient(FinTimeout(c))
  PROVE  InductiveInv'
<1>1. /\ phase[c] = "finwait"
      /\ UNCHANGED <<all_connection, clientVars>>
      /\ net' = net \cup {FinOfClient(c)}
  BY DEF AtClient, FinTimeout, Expire
<1>2. HasId(c) /\ UNCHANGED id_num
  BY <1>1 DEF InductiveInv, ClientInv, ClientInvAt, Connected, clientVars
<1>3. \A m \in net' : m \in net \/ PacketInv(m)'
  BY <1>1, <1>2, FinInv
<1>4. ConnStable /\ SlotInv'
  BY <1>1 DEF ConnStable, InductiveInv, SlotInv
<1>. QED BY <1>1, <1>3, <1>4, ServerStep

(* A FIN that reaches a client comes from its own, finished slot. *)
LEMMA ServerFin ==
  ASSUME InductiveInv, NEW c \in Clients, NEW m \in Inbox(c), IsServerFin(c, m)
  PROVE  m.flags = FIN /\ HasId(c) /\ ConnOf(c).is_FIN = 1
<1>1. m.dst = c /\ PacketInv(m)
  BY DEF InductiveInv, NetInv, Inbox
<1>2. ToClient(m)
  BY <1>1, AddrAssumption DEF PacketInv
<1>3. m.flags \in {6, 4, 1, 512} /\ m.flags \in {1, 5}
  BY <1>2, EchoFlags DEF ToClient, IsServerFin, SYN_ACK, ACK, FIN, ACK_FIN
<1>4. m.flags = FIN
  BY <1>3 DEF FIN
<1>. QED BY <1>1, <1>2, <1>4 DEF ToClient

(* Reading a packet while the FIN is out keeps the invariant. *)
LEMMA InvFinRecv ==
  ASSUME TypeOK, InductiveInv, NEW c \in Clients, NEW m \in Inbox(c), AtClient(FinRecv(c, m))
  PROVE  InductiveInv'
<1>1. /\ phase[c] = "finwait"
      /\ UNCHANGED <<all_connection, seq_num, id_num, F, windowVars, fileVars>>
  BY DEF AtClient, FinRecv
<1>2. HasId(c) /\ OwnsSlot(c)
  BY <1>1 DEF InductiveInv, ClientInv, ClientInvAt, Connected
<1>3. HasId(c)' /\ OwnsSlot(c)' /\ id_num'[c] = id_num[c] /\ ConnOf(c)' = ConnOf(c)
  BY <1>1, <1>2 DEF HasId, OwnsSlot, ConnOf
<1>4. CASE IsServerFin(c, m) /\ LastAck(c, m) /\ Goto(c, "timewait")
  <2>1. ConnOf(c).is_FIN = 1
    BY <1>4, ServerFin
  <2>2. phase \in [Clients -> Phases] /\ ack_num \in [Clients -> Nat]
    BY DEF TypeOK
  <2>3. /\ phase' = [phase EXCEPT ![c] = "timewait"]
        /\ ack_num' = [ack_num EXCEPT ![c] = m.seq + 1]
        /\ Deliver(m, {set_header(c, seq_num[c], m.seq + 1, id_num[c], ACK, Padding)})
    BY <1>4 DEF Goto, LastAck
  <2>4. phase'[c] = "timewait" /\ \A d \in Clients \ {c} : SameClient(d)
    BY <1>1, <2>2, <2>3 DEF SameClient, windowVars, fileVars
  <2>5. ClientInvAt(c)'
    BY <1>3, <2>1, <2>4 DEF ClientInvAt
  <2>6. \A q \in net' : q \in net \/ PacketInv(q)'
    BY <1>1, <1>2, <2>1, <2>3, DeliverNet, LastAckInv
  <2>. QED BY <1>1, <1>3, <2>4, <2>5, <2>6, ClientStep
<1>5. CASE Deliver(m, {}) /\ UNCHANGED <<ack_num, phase>>
  <2>1. \A d \in Clients : SameClient(d)
    BY <1>1, <1>5 DEF SameClient, windowVars, fileVars
  <2>2. ConnStable
    BY <1>1 DEF ConnStable
  <2>3. ClientInvAt(c)'
    BY <2>1, <2>2, ClientStable
  <2>4. \A q \in net' : q \in net \/ PacketInv(q)'
    BY <1>5, DeliverNet
  <2>. QED BY <1>1, <1>3, <2>1, <2>3, <2>4, ClientStep
<1>. QED BY <1>4, <1>5 DEF AtClient, FinRecv

(* Reading a packet in the final wait keeps the invariant. *)
LEMMA InvTimeWaitRecv ==
  ASSUME TypeOK, InductiveInv, NEW c \in Clients, NEW m \in Inbox(c), AtClient(TimeWaitRecv(c, m))
  PROVE  InductiveInv'
<1>1. /\ phase[c] = "timewait"
      /\ UNCHANGED <<all_connection, phase, seq_num, id_num, F, windowVars, fileVars>>
  BY DEF AtClient, TimeWaitRecv
<1>2. HasId(c) /\ OwnsSlot(c) /\ ConnOf(c).is_FIN = 1
  BY <1>1 DEF InductiveInv, ClientInv, ClientInvAt, Connected
<1>3. HasId(c)' /\ OwnsSlot(c)' /\ id_num'[c] = id_num[c] /\ ConnOf(c)' = ConnOf(c)
  BY <1>1, <1>2 DEF HasId, OwnsSlot, ConnOf
<1>4. \A d \in Clients \ {c} : ack_num'[d] = ack_num[d]
  BY DEF TypeOK, AtClient, TimeWaitRecv, LastAck
<1>5. phase'[c] = "timewait" /\ \A d \in Clients \ {c} : SameClient(d)
  BY <1>1, <1>4 DEF SameClient, windowVars, fileVars
<1>6. ClientInvAt(c)'
  BY <1>2, <1>3, <1>5 DEF ClientInvAt
<1>7. \A q \in net' : q \in net \/ PacketInv(q)'
  <2>1. LastAck(c, m) \/ Deliver(m, {})
    BY DEF AtClient, TimeWaitRecv
  <2>2. CASE Deliver(m, {})
    BY <2>2, DeliverNet
  <2>3. CASE LastAck(c, m)
    <3>1. Deliver(m, {set_header(c, seq_num[c], m.seq + 1, id_num[c], ACK, Padding)})
      BY <2>3 DEF LastAck
    <3>. QED BY <1>1, <1>2, <3>1, DeliverNet, LastAckInv
  <2>. QED BY <2>1, <2>2, <2>3
<1>. QED BY <1>1, <1>3, <1>5, <1>6, <1>7, ClientStep

-----------------------------------------------------------------------------
(* The inductive invariant: the server. *)

(* A step that changes one slot, which stays its owner's, keeps every slot right. *)
LEMMA SlotStep ==
  ASSUME TypeOK, InductiveInv, UNCHANGED clientVars, NEW i \in Slots, NEW con,
         all_connection' = [all_connection EXCEPT ![i] = con], InUse(con, i),
         all_connection[i].src_addr \in Clients => con.src_addr = all_connection[i].src_addr,
         all_connection[i].is_FIN = 1 => con.is_FIN = 1,
         \A m \in net' : m \in net \/ PacketInv(m)'
  PROVE  InductiveInv'
<1>1. all_connection \in [Slots -> connection_info] /\ SlotInv
  BY DEF TypeOK, InductiveInv
<1>2. \A j \in Slots : all_connection'[j] = IF j = i THEN con ELSE all_connection[j]
  BY <1>1
<1>3. ConnStable
  BY <1>2 DEF ConnStable
<1>4. SlotInv'
  <2>1. ASSUME NEW j \in Slots PROVE Unused(all_connection'[j]) \/ InUse(all_connection'[j], j)
    <3>1. CASE j = i
      BY <1>2, <3>1
    <3>2. CASE j # i
      BY <1>1, <1>2, <3>2 DEF SlotInv
    <3>. QED BY <3>1, <3>2
  <2>. QED BY <2>1 DEF SlotInv
<1>. QED BY <1>3, <1>4, ServerStep

(* A packet that reaches the server, and the slot its id names. *)
LEMMA ServerPacket ==
  ASSUME InductiveInv, NEW m \in Inbox(Server)
  PROVE  m \in net /\ m.src \in Clients /\ ToServer(m)
BY DEF InductiveInv, NetInv, Inbox, PacketInv, ToServer

(* A slot that carries a non-zero id is in use, and its id is its index. *)
LEMMA MatchedSlot ==
  ASSUME InductiveInv, NEW m \in Inbox(Server), NEW i \in FirstMatch(m), m.flags # SYN
  PROVE  /\ i \in Slots /\ InUse(all_connection[i], i)
         /\ m.src \in Clients /\ FromConnected(m)
         /\ id_num[m.src] = i /\ all_connection[i].src_addr = m.src
         /\ IsChunk(m) \/ IsLastAck(m) \/ m.flags = FIN
<1>1. m.src \in Clients /\ FromConnected(m) /\ (IsChunk(m) \/ IsLastAck(m) \/ m.flags = FIN)
  BY ServerPacket DEF ToServer, IsSyn
<1>2. HasId(m.src) /\ m.id = id_num[m.src] /\ m.id # 0
  BY <1>1 DEF FromConnected, HasId
<1>3. i \in Slots /\ all_connection[i].id = m.id
  BY DEF FirstMatch
<1>4. InUse(all_connection[i], i)
  BY <1>2, <1>3 DEF InductiveInv, SlotInv, Unused
<1>5. i = id_num[m.src]
  BY <1>2, <1>3, <1>4 DEF InUse
<1>6. OwnsSlot(m.src)
  BY <1>1, <1>2 DEF InductiveInv, ClientInv, ClientInvAt
<1>. QED BY <1>1, <1>3, <1>4, <1>5, <1>6 DEF OwnsSlot, ConnOf

(* Only a slot in use echoes a SYN, so an echo goes to a client. *)
LEMMA EchoInv ==
  ASSUME TypeOK, InductiveInv, NEW m \in Inbox(Server), m.flags = SYN, NEW k \in Slots,
         InUseFor(k, m), NEW q, q = EchoOf(m, all_connection[k])
  PROVE  PacketInv(q)'
<1>1. m.src \in Clients
  BY ServerPacket
<1>2. all_connection[k].src_addr # NoAddr
  BY <1>1, AddrAssumption DEF InUseFor, sa_family
<1>3. all_connection[k].src_addr \in Clients
  BY <1>2 DEF InductiveInv, SlotInv, Unused, InUse
<1>4. q.src = Server /\ q.dst = all_connection[k].src_addr /\ q.flags = hton16(SYN)
  BY DEF EchoOf
<1>5. q.dst # Server /\ q.dst \in Clients
  BY <1>3, <1>4, AddrAssumption
<1>6. q.flags = 512 /\ q.flags \in {SYN_ACK, ACK, FIN, hton16(SYN)}
  BY <1>4, EchoFlags
<1>7. q.flags # SYN_ACK /\ q.flags # FIN
  BY <1>6 DEF SYN_ACK, FIN
<1>8. ToClient(q)'
  BY <1>4, <1>6, <1>7 DEF ToClient
<1>. QED BY <1>5, <1>8 DEF PacketInv

(* The server's SYN handler keeps the invariant. *)
LEMMA InvRecvSyn ==
  ASSUME TypeOK, InductiveInv, NEW m \in Inbox(Server), AtServer(RecvSyn(m))
  PROVE  InductiveInv'
<1>0. UNCHANGED clientVars /\ m.flags = SYN
  BY DEF AtServer, RecvSyn
<1>1. m.src \in Clients /\ m.seq = ISN
  BY <1>0, ServerPacket DEF ToServer, IsSyn, IsChunk, IsLastAck, SYN, ACK, FIN
<1>2. ASSUME NEW i \in FirstFree(m), AcceptSyn(m, i) PROVE InductiveInv'
  <2> DEFINE con == NewConnection(i, m)
  <2>1. i \in Slots /\ FreeFor(i, m) /\ 1..(i-1) \subseteq Slots
    BY SlotsAssumption DEF FirstFree, Slots
  <2>2. /\ all_connection' = [all_connection EXCEPT ![i] = con]
        /\ Deliver(m, Echoes(m, 1..(i-1)) \cup {SynAckOf(con)})
    BY <1>2 DEF AcceptSyn
  <2>3. all_connection[i].id = 0 /\ all_connection[i] \in connection_info
    BY <2>1 DEF FreeFor, TypeOK
  <2>4. i # 0
    BY <2>1, SlotsAssumption DEF Slots
  <2>5. Unused(all_connection[i])
    BY <2>1, <2>3, <2>4 DEF InductiveInv, SlotInv, InUse
  <2>6. /\ con.id = i /\ con.src_addr = m.src /\ con.myfile = <<>> /\ con.is_FIN = 0
        /\ con.ack = ISN + 1 /\ con.seq = ISS
    BY <1>1, <2>3, <2>5 DEF NewConnection, Unused, connection_info
  <2>7. InUse(con, i)
    <3>1. Len(con.myfile) = 0
      BY <2>6
    <3>2. con.myfile = Payload(con.src_addr, 0, 0)
      BY <1>1, <2>6, PayloadEmpty
    <3>. QED BY <1>1, <2>6, <3>1, <3>2, SeqAtZero DEF InUse, HoldsPrefix
  <2>8. /\ all_connection[i].src_addr \notin Clients
        /\ all_connection[i].is_FIN # 1
    BY <2>5, AddrAssumption DEF Unused
  <2>9. ASSUME NEW q \in net', q \notin net PROVE PacketInv(q)'
    <3>1. q \in Echoes(m, 1..(i-1)) \/ q = SynAckOf(con)
      BY <2>2, <2>9 DEF Deliver
    <3>2. CASE q \in Echoes(m, 1..(i-1))
      <4>1. PICK k \in Slots : InUseFor(k, m) /\ q = EchoOf(m, all_connection[k])
        BY <2>1, <3>2 DEF Echoes
      <4>. QED BY <1>0, <4>1, EchoInv
    <3>3. CASE q = SynAckOf(con)
      <4>1. /\ q.src = Server /\ q.dst = m.src /\ q.flags = SYN_ACK /\ q.seq = ISS
            /\ q.ack = ISN + 1 /\ q.id = i
        BY <2>6, <3>3 DEF SynAckOf, Reply
      <4>2. all_connection'[i].src_addr = m.src
        BY <2>1, <2>2, <2>6 DEF TypeOK
      <4>3. ToClient(q)'
        BY <2>1, <4>1, <4>2 DEF ToClient, SYN_ACK, FIN
      <4>. QED BY <1>1, <4>1, <4>3, AddrAssumption DEF PacketInv
    <3>. QED BY <3>1, <3>2, <3>3
  <2>. HIDE DEF con
  <2>. QED BY <1>0, <2>1, <2>2, <2>7, <2>8, <2>9, SlotStep
<1>3. ASSUME RefuseSyn(m) PROVE InductiveInv'
  <2>1. UNCHANGED all_connection /\ Deliver(m, Echoes(m, Slots))
    BY <1>3 DEF RefuseSyn
  <2>2. ConnStable /\ SlotInv'
    BY <2>1 DEF ConnStable, InductiveInv, SlotInv
  <2>3. ASSUME NEW q \in net', q \notin net PROVE PacketInv(q)'
    <3>1. q \in Echoes(m, Slots)
      BY <2>1, <2>3 DEF Deliver
    <3>2. PICK k \in Slots : InUseFor(k, m) /\ q = EchoOf(m, all_connection[k])
      BY <3>1 DEF Echoes
    <3>. QED BY <1>0, <3>2, EchoInv
  <2>. QED BY <1>0, <2>2, <2>3, ServerStep
<1>. QED BY <1>2, <1>3 DEF RecvSyn, AtServer

(* The file after an in-order chunk: a longer prefix, with its sequence number. *)
LEMMA ChunkWritten ==
  ASSUME NEW i \in Slots, NEW con \in connection_info, InUse(con, i), con.is_FIN = 0,
         NEW m \in packet, m.src = con.src_addr, IsChunk(m)
  PROVE  InUse(AfterData(con, m), i)
<1> DEFINE c == con.src_addr
           n == Len(con.myfile)
           new == AfterData(con, m)
<1>0. con.src_addr \in Clients /\ new.id = i /\ new.src_addr = con.src_addr
  BY DEF InUse, AfterData, connection_info
<1> SUFFICES ASSUME BoundariesDistinct PROVE InUse(new, i)
  BY <1>0 DEF InUse
<1>1. /\ c \in Clients /\ n \in Boundaries(c) \cup {0} /\ con.id = i
      /\ con.myfile = Payload(c, 0, n) /\ con.ack = SeqAt(n)
  BY DEF InUse, HoldsPrefix
<1>2. new.id = i /\ new.src_addr = c /\ new.is_FIN = 0
      /\ new.myfile = Written(con, m) /\ new.ack = AckAfter(con, m)
  BY <1>1 DEF AfterData, connection_info
<1>. HIDE DEF new
<1>3. ASSUME InOrder(con, m) PROVE InUse(new, i)
  <2>1. PICK p \in Boundaries(c) : m.seq = SeqAt(p) /\ m.data = Payload(c, p, ReadLen(c, p))
    BY DEF IsChunk
  <2>2. 0 \in Boundaries(c) /\ n \in Boundaries(c)
    BY <1>1, <2>1, ZeroBoundary
  <2>3. p = n
    BY <1>1, <1>3, <2>1, <2>2, BoundariesDistinct DEF BoundariesDistinct, InOrder
  <2>4. n \in Nat /\ ReadLen(c, n) \in Nat /\ n + ReadLen(c, n) \in Boundaries(c)
    BY <1>1, <2>2, ReadAtBoundary
  <2> DEFINE k == ReadLen(c, n)
  <2>. HIDE DEF k
  <2>5. new.myfile = Payload(c, 0, n + k)
    BY <1>1, <1>2, <1>3, <2>1, <2>3, <2>4, PayloadConcat DEF Written, k
  <2>6. Len(m.data) = k
    <3>1. m.data = Payload(c, n, k) /\ n \in Nat /\ k \in Nat /\ c \in Clients
      BY <1>1, <2>1, <2>3, <2>4 DEF k
    <3>. HIDE DEF n, c
    <3>. QED BY <3>1, PayloadSeq
  <2>8. Len(new.myfile) = n + k
    <3>1. n + k \in Nat /\ c \in Clients
      BY <1>1, <2>4 DEF k
    <3>. HIDE DEF n, c
    <3>. QED BY <2>5, <3>1, PayloadSeq
  <2>7. new.ack = SeqAt(n + k)
    BY <1>1, <1>2, <1>3, <2>4, <2>6, SeqAtAdd DEF AckAfter, k
  <2>. QED BY <1>1, <1>2, <2>4, <2>5, <2>7, <2>8 DEF InUse, HoldsPrefix, k
<1>4. ASSUME ~InOrder(con, m) PROVE InUse(new, i)
  <2>1. new.myfile = con.myfile /\ new.ack = con.ack
    BY <1>2, <1>4 DEF Written, AckAfter
  <2>. QED BY <1>1, <1>2, <2>1 DEF InUse, HoldsPrefix
<1>. QED BY <1>3, <1>4 DEF new

(* An ACK the server sends to a slot's client. *)
LEMMA AckInv ==
  ASSUME NEW con, con.src_addr \in Clients, NEW q, q = AckOf(con)
  PROVE  PacketInv(q)'
<1>1. q.src = Server /\ q.dst \in Clients /\ q.flags = ACK
  BY DEF AckOf, Reply
<1>2. q.flags # SYN_ACK /\ q.flags # FIN
  BY <1>1 DEF ACK, SYN_ACK, FIN
<1>3. ToClient(q)'
  BY <1>1, <1>2 DEF ToClient
<1>. QED BY <1>1, <1>3, AddrAssumption DEF PacketInv

(* Ignoring a packet keeps the invariant. *)
LEMMA IgnoreInv ==
  ASSUME TypeOK, InductiveInv, UNCHANGED clientVars, NEW m, Ignore(m)
  PROVE  InductiveInv'
<1>1. ConnStable /\ SlotInv'
  BY DEF Ignore, ConnStable, InductiveInv, SlotInv
<1>2. \A q \in net' : q \in net \/ PacketInv(q)'
  BY DEF Ignore, Deliver
<1>. QED BY <1>1, <1>2, ServerStep

(* The server's data handler keeps the invariant. *)
LEMMA InvRecvData ==
  ASSUME TypeOK, InductiveInv, NEW m \in Inbox(Server), AtServer(RecvData(m))
  PROVE  InductiveInv'
<1>0. /\ UNCHANGED clientVars /\ m.flags \in {ACK, 0} /\ m.flags # SYN /\ m.flags # FIN
      /\ m \in packet
  BY DEF AtServer, RecvData, ACK, SYN, FIN, TypeOK, Inbox
<1>1. ASSUME NEW i \in FirstMatch(m), all_connection[i].is_FIN = 1, CloseFile(m, i)
      PROVE  InductiveInv'
  <2> DEFINE con == [all_connection[i] EXCEPT !.is_open = FALSE]
  <2>1. i \in Slots /\ InUse(all_connection[i], i)
    BY <1>0, MatchedSlot
  <2>2. all_connection' = [all_connection EXCEPT ![i] = con] /\ Deliver(m, {})
    BY <1>1 DEF CloseFile
  <2>3. all_connection[i] \in connection_info
    BY <2>1 DEF TypeOK
  <2>4. /\ con.id = all_connection[i].id /\ con.src_addr = all_connection[i].src_addr
        /\ con.myfile = all_connection[i].myfile /\ con.ack = all_connection[i].ack
        /\ con.is_FIN = all_connection[i].is_FIN
    BY <2>3 DEF connection_info
  <2>. HIDE DEF con
  <2>5. InUse(con, i)
    BY <2>1, <2>4 DEF InUse, HoldsPrefix
  <2>6. \A q \in net' : q \in net \/ PacketInv(q)'
    BY <2>2 DEF Deliver
  <2>. QED BY <1>0, <2>1, <2>2, <2>4, <2>5, <2>6, SlotStep
<1>2. ASSUME NEW i \in FirstMatch(m), all_connection[i].is_FIN # 1, Acknowledge(m, i)
      PROVE  InductiveInv'
  <2> DEFINE con == AfterData(all_connection[i], m)
  <2>1. /\ i \in Slots /\ InUse(all_connection[i], i) /\ id_num[m.src] = i
        /\ all_connection[i].src_addr = m.src /\ m.src \in Clients
        /\ IsChunk(m) \/ IsLastAck(m)
    BY <1>0, MatchedSlot
  <2>2. all_connection' = [all_connection EXCEPT ![i] = con] /\ Deliver(m, {AckOf(con)})
    BY <1>2 DEF Acknowledge
  <2>3. all_connection[i] \in connection_info
    BY <2>1 DEF TypeOK
  <2>4. all_connection[i].is_FIN = 0
    BY <1>2, <2>3 DEF connection_info
  <2>5. IsChunk(m)
    BY <2>1, <2>4 DEF IsLastAck, ConnOf
  <2>6. InUse(con, i)
    BY <1>0, <2>1, <2>3, <2>4, <2>5, ChunkWritten
  <2>7. con.src_addr = m.src
    BY <2>1, <2>3 DEF AfterData, connection_info
  <2>. HIDE DEF con
  <2>8. \A q \in net' : q \in net \/ PacketInv(q)'
    BY <2>1, <2>2, <2>7, AckInv DEF Deliver
  <2>. QED BY <1>0, <1>2, <2>1, <2>2, <2>6, <2>7, <2>8, SlotStep
<1>3. ASSUME Ignore(m) PROVE InductiveInv'
  BY <1>0, <1>3, IgnoreInv
<1>. QED BY <1>1, <1>2, <1>3 DEF RecvData, AtServer

(* The server's FIN handler keeps the invariant. *)
LEMMA InvRecvFin ==
  ASSUME TypeOK, InductiveInv, NEW m \in Inbox(Server), AtServer(RecvFin(m))
  PROVE  InductiveInv'
<1>0. UNCHANGED clientVars /\ m.flags = FIN /\ m.flags # SYN
  BY DEF AtServer, RecvFin, SYN, FIN
<1>1. ASSUME NEW i \in FirstMatch(m), AnswerFin(m, i) PROVE InductiveInv'
  <2> DEFINE con == AfterFin(all_connection[i], m)
  <2>1. /\ i \in Slots /\ InUse(all_connection[i], i) /\ id_num[m.src] = i
        /\ all_connection[i].src_addr = m.src /\ m.src \in Clients /\ HasId(m.src)
    BY <1>0, MatchedSlot DEF FromConnected
  <2>2. /\ all_connection' = [all_connection EXCEPT ![i] = con]
        /\ Deliver(m, {AckOf(con), FinOf(con)})
    BY <1>1 DEF AnswerFin
  <2>3. all_connection[i] \in connection_info
    BY <2>1 DEF TypeOK
  <2>4. /\ con.id = all_connection[i].id /\ con.src_addr = m.src
        /\ con.myfile = all_connection[i].myfile /\ con.is_FIN = 1
    BY <2>1, <2>3 DEF AfterFin, connection_info
  <2>. HIDE DEF con
  <2>5. InUse(con, i)
    BY <2>1, <2>4 DEF InUse, HoldsPrefix
  <2>6. ASSUME NEW q \in net', q \notin net PROVE PacketInv(q)'
    <3>1. q = AckOf(con) \/ q = FinOf(con)
      BY <2>2, <2>6 DEF Deliver
    <3>2. CASE q = AckOf(con)
      BY <2>1, <2>4, <3>2, AckInv
    <3>3. CASE q = FinOf(con)
      <4>1. q.src = Server /\ q.dst = m.src /\ q.flags = FIN
        BY <2>4, <3>3 DEF FinOf, Reply
      <4>2. HasId(m.src)' /\ ConnOf(m.src)' = con
        BY <1>0, <2>1, <2>2 DEF HasId, ConnOf, clientVars, TypeOK
      <4>3. ToClient(q)'
        BY <2>4, <4>1, <4>2 DEF ToClient, FIN, SYN_ACK
      <4>. QED BY <2>1, <4>1, <4>3, AddrAssumption DEF PacketInv
    <3>. QED BY <3>1, <3>2, <3>3
  <2>. QED BY <1>0, <2>1, <2>2, <2>4, <2>5, <2>6, SlotStep
<1>2. ASSUME Ignore(m) PROVE InductiveInv'
  BY <1>0, <1>2, IgnoreInv
<1>. QED BY <1>1, <1>2 DEF RecvFin, AtServer

-----------------------------------------------------------------------------
(* The whole of Next. *)

(* The steps of a client that only move its thread. *)
Quiet(c) ==
  \/ HandshakeGiveUp(c)
  \/ SkipSend(c)
  \/ DataIdle(c)
  \/ DataGiveUp(c)
  \/ FinGiveUp(c)
  \/ TimeWaitEnd(c)

(* They keep the types and the invariant. *)
LEMMA QuietStep ==
  ASSUME TypeOK, InductiveInv, NEW c \in Clients, AtClient(Quiet(c))
  PROVE  TypeOK' /\ InductiveInv'
<1>1. UNCHANGED <<all_connection, netVars, seq_num, ack_num, id_num, F, windowVars, fileVars>>
  BY DEF AtClient, Quiet, HandshakeGiveUp, SkipSend, DataIdle, DataGiveUp, FinGiveUp, TimeWaitEnd
<1>2. \/ phase[c] = "synwait" /\ Goto(c, "failed")
      \/ phase[c] = "top" /\ Goto(c, "recv")
      \/ phase[c] = "recv" /\ (Goto(c, "fin") \/ Goto(c, "top") \/ Goto(c, "failed"))
      \/ phase[c] = "finwait" /\ Goto(c, "failed")
      \/ phase[c] = "timewait" /\ Goto(c, "done")
  BY DEF AtClient, Quiet, HandshakeGiveUp, SkipSend, DataIdle, DataGiveUp, FinGiveUp, TimeWaitEnd,
         LoopExit
<1>3. PICK p \in Phases :
        /\ Goto(c, p)
        /\ p \in Connected => phase[c] \in Connected
        /\ p \notin {"start", "synwait", "open", "timewait"}
        /\ p \in {"top", "recv"} => phase[c] \in {"top", "recv"}
  BY <1>2 DEF Phases, Connected
<1>. QED BY <1>1, <1>3, GotoType, InvGoto

(* A packet lost. *)
LEMMA LoseStep ==
  ASSUME TypeOK, InductiveInv, NEW m \in net, Lose(m), UNCHANGED <<all_connection, clientVars>>
  PROVE  TypeOK' /\ InductiveInv'
<1>1. net' \subseteq net /\ faults' \in 0..MaxFaults
  BY FaultsAssumption DEF Lose, Fault, TypeOK
<1>2. TypeOK'
  BY <1>1 DEF TypeOK, clientVars
<1>3. ConnStable /\ SlotInv'
  BY DEF ConnStable, InductiveInv, SlotInv
<1>. QED BY <1>1, <1>2, <1>3, ServerStep

(* A step that changes nothing. *)
LEMMA StutterStep ==
  ASSUME TypeOK, InductiveInv, UNCHANGED vars
  PROVE  TypeOK' /\ InductiveInv'
<1>1. UNCHANGED <<net, faults, all_connection, clientVars>>
  BY DEF vars
<1>2. TypeOK'
  BY <1>1 DEF TypeOK, clientVars
<1>3. ConnStable /\ SlotInv'
  BY <1>1 DEF ConnStable, InductiveInv, SlotInv
<1>. QED BY <1>1, <1>2, <1>3, ServerStep

(* No packet, no slot in use and no client connected. *)
LEMMA InitInv == Init => TypeOK /\ InductiveInv
<1> SUFFICES ASSUME Init PROVE TypeOK /\ InductiveInv
  OBVIOUS
<1> USE DEF Init, NetInit, ServerInit, ClientInit
<1>1. TypeOK
  BY AddrAssumption, MSSAssumption, SeqAssumption, FaultsAssumption, ThreshAssumption
     DEF TypeOK, connection_info, Phases
<1>2. SlotInv /\ NetInv
  BY DEF SlotInv, Unused, NetInv
<1>3. ClientInv
  BY DEF ClientInv, ClientInvAt, HasId, Connected
<1>. QED BY <1>1, <1>2, <1>3 DEF InductiveInv

(* Every step of the system keeps the types and the invariant. *)
LEMMA NextInv == TypeOK /\ InductiveInv /\ [Next]_vars => TypeOK' /\ InductiveInv'
<1> SUFFICES ASSUME TypeOK, InductiveInv, [Next]_vars
             PROVE  TypeOK' /\ InductiveInv'
  OBVIOUS
<1>1. ASSUME NEW c \in Clients, AtClient(SendSyn(c)) PROVE TypeOK' /\ InductiveInv'
  BY <1>1, TypeSendSyn, InvSendSyn
<1>2. ASSUME NEW c \in Clients, AtClient(SynTimeout(c)) PROVE TypeOK' /\ InductiveInv'
  BY <1>2, TypeResend, InvSynTimeout
<1>3. ASSUME NEW c \in Clients, NEW m \in Inbox(c), AtClient(HandshakeRecv(c, m))
      PROVE  TypeOK' /\ InductiveInv'
  BY <1>3, TypeHandshakeRecv, InvHandshakeRecv
<1>4. ASSUME NEW c \in Clients, AtClient(OpenFile(c)) PROVE TypeOK' /\ InductiveInv'
  BY <1>4, TypeOpenFile, InvOpenFile
<1>5. ASSUME NEW c \in Clients, AtClient(SendNext(c)) PROVE TypeOK' /\ InductiveInv'
  BY <1>5, TypeSendNext, InvSendNext
<1>6. ASSUME NEW c \in Clients, AtClient(Retransmit(c)) PROVE TypeOK' /\ InductiveInv'
  BY <1>6, TypeRetransmit, InvRetransmit
<1>7. ASSUME NEW c \in Clients, NEW m \in Inbox(c), AtClient(DataRecv(c, m))
      PROVE  TypeOK' /\ InductiveInv'
  BY <1>7, TypeDataRecv, InvDataRecv
<1>8. ASSUME NEW c \in Clients, AtClient(SendFin(c)) PROVE TypeOK' /\ InductiveInv'
  BY <1>8, TypeSendFin, InvSendFin
<1>9. ASSUME NEW c \in Clients, AtClient(FinTimeout(c)) PROVE TypeOK' /\ InductiveInv'
  BY <1>9, TypeResend, InvFinTimeout
<1>10. ASSUME NEW c \in Clients, NEW m \in Inbox(c), AtClient(FinRecv(c, m))
       PROVE  TypeOK' /\ InductiveInv'
  BY <1>10, TypeFinRecv, InvFinRecv
<1>11. ASSUME NEW c \in Clients, NEW m \in Inbox(c), AtClient(TimeWaitRecv(c, m))
       PROVE  TypeOK' /\ InductiveInv'
  BY <1>11, TypeTimeWaitRecv, InvTimeWaitRecv
<1>12. ASSUME NEW c \in Clients, AtClient(Quiet(c)) PROVE TypeOK' /\ InductiveInv'
  BY <1>12, QuietStep
<1>13. ASSUME NEW m \in Inbox(Server), AtServer(RecvSyn(m)) PROVE TypeOK' /\ InductiveInv'
  BY <1>13, TypeRecvSyn, InvRecvSyn
<1>14. ASSUME NEW m \in Inbox(Server), AtServer(RecvData(m)) PROVE TypeOK' /\ InductiveInv'
  BY <1>14, TypeRecvData, InvRecvData
<1>15. ASSUME NEW m \in Inbox(Server), AtServer(RecvFin(m)) PROVE TypeOK' /\ InductiveInv'
  BY <1>15, TypeRecvFin, InvRecvFin
<1>16. ASSUME NEW m \in net, Lose(m) /\ UNCHANGED <<all_connection, clientVars>>
       PROVE  TypeOK' /\ InductiveInv'
  BY <1>16, LoseStep
<1>17. ASSUME UNCHANGED vars PROVE TypeOK' /\ InductiveInv'
  BY <1>17, StutterStep
<1>18. ASSUME NEW c \in Clients,
              \/ AtClient(HandshakeGiveUp(c)) \/ AtClient(SkipSend(c)) \/ AtClient(DataIdle(c))
              \/ AtClient(DataGiveUp(c)) \/ AtClient(FinGiveUp(c)) \/ AtClient(TimeWaitEnd(c))
       PROVE  TypeOK' /\ InductiveInv'
  <2>1. AtClient(Quiet(c))
    BY <1>18 DEF AtClient, Quiet
  <2>. QED BY <1>12, <2>1
<1>. QED
  BY <1>1, <1>2, <1>3, <1>4, <1>5, <1>6, <1>7, <1>8, <1>9, <1>10, <1>11, <1>13, <1>14, <1>15,
     <1>16, <1>17, <1>18 DEF Next

-----------------------------------------------------------------------------
(***************************************************************************)
(* Every variable keeps its type: no read, acknowledgement or window       *)
(* computation of client.cpp or server.cpp leaves its range.               *)
(***************************************************************************)
THEOREM TypeCorrect == Spec => []TypeOK
<1>1. Init => TypeOK /\ InductiveInv
  BY InitInv
<1>2. TypeOK /\ InductiveInv /\ [Next]_vars => TypeOK' /\ InductiveInv'
  BY NextInv
<1>. QED BY <1>1, <1>2, PTL DEF Spec

(***************************************************************************)
(* Every slot, packet and log of the two programs agrees with the file it  *)
(* belongs to, for any number of clients, slots and faults.                *)
(***************************************************************************)
THEOREM InvariantHolds == Spec => []InductiveInv
<1>1. Init => TypeOK /\ InductiveInv
  BY InitInv
<1>2. TypeOK /\ InductiveInv /\ [Next]_vars => TypeOK' /\ InductiveInv'
  BY NextInv
<1>. QED BY <1>1, <1>2, PTL DEF Spec

(***************************************************************************)
(* The handshake of client.cpp and the SYN handler of server.cpp give no   *)
(* two connected clients the same id, whatever is lost or repeated.        *)
(***************************************************************************)
THEOREM OwnershipHolds == Spec => []IdOwnership
<1>1. InductiveInv => IdOwnership
  <2> SUFFICES ASSUME InductiveInv, NEW c \in Clients, phase[c] \in Connected
               PROVE  id_num[c] \in Slots /\ ConnOf(c).src_addr = c /\ ConnOf(c).id = id_num[c]
    BY DEF IdOwnership
  <2>1. id_num[c] \in Slots /\ ConnOf(c).src_addr = c
    BY DEF InductiveInv, ClientInv, ClientInvAt, OwnsSlot
  <2>2. InUse(ConnOf(c), id_num[c])
    BY <2>1, AddrAssumption DEF InductiveInv, SlotInv, ConnOf, Unused
  <2>. QED BY <2>1, <2>2 DEF InUse
<1>. QED BY <1>1, InvariantHolds, PTL

(***************************************************************************)
(* The file the server of server.cpp writes for a connection is at all     *)
(* times a prefix of the file its client sends, as long as no two packet   *)
(* boundaries of a file share a sequence number (BoundariesDistinct).      *)
(***************************************************************************)
THEOREM PrefixHolds == BoundariesDistinct => (Spec => []PrefixDelivered)
<1> SUFFICES ASSUME BoundariesDistinct PROVE Spec => []PrefixDelivered
  OBVIOUS
<1>1. InductiveInv => PrefixDelivered
  <2> SUFFICES ASSUME InductiveInv, NEW i \in Slots, all_connection[i].myfile # <<>>
               PROVE  LET con == all_connection[i]
                      IN  /\ con.src_addr \in Clients
                          /\ Len(con.myfile) <= FileLen[con.src_addr]
                          /\ con.myfile = Payload(con.src_addr, 0, Len(con.myfile))
    BY DEF PrefixDelivered
  <2> DEFINE con == all_connection[i]
             n == Len(con.myfile)
  <2>1. InUse(con, i)
    BY DEF InductiveInv, SlotInv, Unused
  <2>2. con.src_addr \in Clients /\ con.myfile = Payload(con.src_addr, 0, n)
        /\ n \in Boundaries(con.src_addr) \cup {0}
    BY <2>1 DEF InUse, HoldsPrefix
  <2>3. n # 0
    BY <2>2, PayloadEmpty
  <2>4. n <= FileLen[con.src_addr]
    BY <2>2, <2>3, FileLenAssumption DEF Boundaries
  <2>. QED BY <2>2, <2>4
<1>. QED BY <1>1, InvariantHolds, PTL
=============================================================================
