--------------------------- MODULE DeliveryProofs ---------------------------
(***************************************************************************)
(* Theorems about what Confundo delivers, for any number of clients and    *)
(* slots, any packet size, sequence space and number of faults: the sender *)
(* is never stuck, no byte is forgotten, a file reported as sent is        *)
(* complete, and Confundo implements FileTransfer step by step.            *)
(* DeliveryInv is proved on top of the invariant of ConfundoProofs.        *)
(***************************************************************************)
EXTENDS ConfundoDelivery, ConfundoProofs, SequenceTheorems, WellFoundedInduction

-----------------------------------------------------------------------------
(* What the steps of a client have in common. *)

(* The state of one client that the invariant is about. *)
Untouched(d) ==
    /\ phase'[d] = phase[d] /\ id_num'[d] = id_num[d]
    /\ CWND'[d] = CWND[d] /\ CWND_space'[d] = CWND_space[d] /\ CWND_logs'[d] = CWND_logs[d]
    /\ file_pos'[d] = file_pos[d] /\ eof'[d] = eof[d]

(* A step of client c leaves the others alone; it never returns to an earlier part of the program. *)
ClientFrame(c) ==
    /\ UNCHANGED all_connection
    /\ \A d \in Clients \ {c} : Untouched(d)
    /\ id_num'[c] = id_num[c] \/ phase[c] = "synwait"
    /\ phase[c] \in FinSent => phase'[c] \in FinSent
    /\ phase[c] \in Finished => phase'[c] \in Finished \cup {"failed"}
    /\ phase[c] # "failed"

(* The variables of the clients are functions on the clients. *)
LEMMA ClientFunctions ==
  ASSUME TypeOK
  PROVE  /\ phase \in [Clients -> Phases] /\ id_num \in [Clients -> Nat]
         /\ CWND \in [Clients -> Nat \ {0}] /\ CWND_space \in [Clients -> Nat]
         /\ SS_THRESH \in [Clients -> Nat]
         /\ CWND_logs \in [Clients -> Seq(logger)]
         /\ file_pos \in [Clients -> Nat] /\ eof \in [Clients -> BOOLEAN]
BY DEF TypeOK

(* A client sends or resends its SYN or its FIN, or only moves its thread. *)
LEMMA MoveSteps ==
  ASSUME TypeOK, NEW c \in Clients,
         \/ AtClient(SendSyn(c)) \/ AtClient(SynTimeout(c)) \/ AtClient(Quiet(c))
         \/ AtClient(SendFin(c)) \/ AtClient(FinTimeout(c))
         \/ \E m \in Inbox(c) : AtClient(FinRecv(c, m)) \/ AtClient(TimeWaitRecv(c, m))
  PROVE  /\ ClientFrame(c) /\ UNCHANGED <<id_num, CWND, CWND_space, CWND_logs, file_pos, eof>>
         /\ \/ phase[c] = "start" /\ phase'[c] = "synwait"
            \/ phase[c] = "top" /\ phase'[c] = "recv" /\ ~CanSend(c)
            \/ /\ phase[c] = "recv"
               /\ phase'[c] = "failed" \/ phase'[c] = IF eof[c] /\ CWND_logs[c] = <<>> THEN "fin" ELSE "top"
            \/ phase[c] \in {"synwait", "finwait"} /\ phase'[c] = "failed"
            \/ phase[c] = "fin" /\ phase'[c] = "finwait"
            \/ phase[c] = "finwait" /\ phase'[c] = "timewait"
            \/ phase[c] = "timewait" /\ phase'[c] = "done"
            \/ phase[c] \in {"synwait", "finwait", "timewait"} /\ phase'[c] = phase[c]
<1>1. UNCHANGED <<all_connection, id_num, CWND, CWND_space, CWND_logs, file_pos, eof>>
  BY DEF AtClient, Quiet, SendSyn, SynTimeout, HandshakeGiveUp, SkipSend, DataIdle, DataGiveUp, FinGiveUp,
         TimeWaitEnd, SendFin, FinTimeout, FinRecv, TimeWaitRecv, windowVars, fileVars, clientVars
<1>2. \/ phase[c] = "start" /\ Goto(c, "synwait")
      \/ phase[c] = "top" /\ Goto(c, "recv") /\ ~CanSend(c)
      \/ phase[c] = "recv" /\ (Goto(c, "failed") \/ Goto(c, IF eof[c] /\ CWND_logs[c] = <<>> THEN "fin" ELSE "top"))
      \/ phase[c] \in {"synwait", "finwait"} /\ Goto(c, "failed")
      \/ phase[c] = "fin" /\ Goto(c, "finwait")
      \/ phase[c] = "finwait" /\ Goto(c, "timewait")
      \/ phase[c] = "timewait" /\ Goto(c, "done")
      \/ phase[c] \in {"synwait", "finwait", "timewait"} /\ UNCHANGED phase
  BY DEF AtClient, Quiet, SendSyn, SynTimeout, HandshakeGiveUp, SkipSend, DataIdle, DataGiveUp, FinGiveUp,
         TimeWaitEnd, SendFin, FinTimeout, FinRecv, TimeWaitRecv, LoopExit, clientVars
<1>3. \/ phase[c] = "start" /\ phase'[c] = "synwait"
      \/ phase[c] = "top" /\ phase'[c] = "recv" /\ ~CanSend(c)
      \/ /\ phase[c] = "recv"
         /\ phase'[c] = "failed" \/ phase'[c] = IF eof[c] /\ CWND_logs[c] = <<>> THEN "fin" ELSE "top"
      \/ phase[c] \in {"synwait", "finwait"} /\ phase'[c] = "failed"
      \/ phase[c] = "fin" /\ phase'[c] = "finwait"
      \/ phase[c] = "finwait" /\ phase'[c] = "timewait"
      \/ phase[c] = "timewait" /\ phase'[c] = "done"
      \/ phase[c] \in {"synwait", "finwait", "timewait"} /\ phase'[c] = phase[c]
  BY <1>2, ClientFunctions DEF Goto
<1>4. \A d \in Clients \ {c} : phase'[d] = phase[d]
  BY <1>2, ClientFunctions DEF Goto
<1>5. ClientFrame(c)
  BY <1>1, <1>3, <1>4 DEF ClientFrame, Untouched, FinSent, Finished
<1>. QED BY <1>1, <1>3, <1>5

(* In the handshake a client waits on, or takes the id of a SYN-ACK. *)
LEMMA HandshakeStep ==
  ASSUME TypeOK, NEW c \in Clients, NEW m \in Inbox(c), AtClient(HandshakeRecv(c, m))
  PROVE  /\ ClientFrame(c) /\ phase[c] = "synwait"
         /\ UNCHANGED <<CWND_space, CWND_logs, file_pos, eof>>
         /\ CWND'[c] \in {CWND[c], CWND[c] + MSS}
         /\ \/ phase'[c] = "synwait" /\ UNCHANGED id_num
            \/ phase'[c] = "open" /\ m.flags = SYN_ACK /\ id_num'[c] = m.id
<1>1. phase[c] = "synwait" /\ UNCHANGED <<all_connection, CWND_space, CWND_logs, file_pos, eof>>
  BY DEF AtClient, HandshakeRecv, fileVars
<1>2. UNCHANGED CWND \/ CWND' = [CWND EXCEPT ![c] = IF @ < SS_THRESH[c] THEN @ + MSS ELSE @]
  BY DEF AtClient, HandshakeRecv, SlowStart
<1>3. \/ UNCHANGED <<phase, id_num>>
      \/ /\ m.flags = SYN_ACK /\ phase' = [phase EXCEPT ![c] = "open"]
         /\ id_num' = [id_num EXCEPT ![c] = m.id]
  BY DEF AtClient, HandshakeRecv, Established, IsSynAck, Goto
<1>4. \A d \in Clients \ {c} : CWND'[d] = CWND[d]
  BY <1>2, ClientFunctions
<1>5. CWND'[c] \in {CWND[c], CWND[c] + MSS}
  BY <1>2, ClientFunctions
<1>6. \A d \in Clients \ {c} : phase'[d] = phase[d] /\ id_num'[d] = id_num[d]
  BY <1>3, ClientFunctions
<1>7. \/ phase'[c] = "synwait" /\ UNCHANGED id_num
      \/ phase'[c] = "open" /\ m.flags = SYN_ACK /\ id_num'[c] = m.id
  BY <1>1, <1>3, ClientFunctions
<1>. QED BY <1>1, <1>4, <1>5, <1>6, <1>7 DEF ClientFrame, Untouched, FinSent, Finished

(* The file is opened and the window set to what the handshake left of it. *)
LEMMA OpenStep ==
  ASSUME TypeOK, NEW c \in Clients, AtClient(OpenFile(c))
  PROVE  /\ ClientFrame(c) /\ phase[c] = "open" /\ phase'[c] \in {"top", "failed"}
         /\ UNCHANGED <<net, id_num, CWND, CWND_logs, file_pos, eof>>
         /\ CWND_space'[c] = CWND[c] \div MSS
<1>1. /\ phase[c] = "open" /\ UNCHANGED <<all_connection, net, id_num, CWND, CWND_logs, file_pos, eof>>
      /\ CWND_space' = [CWND_space EXCEPT ![c] = CWND[c] \div MSS]
      /\ Goto(c, "top") \/ Goto(c, "failed")
  BY DEF AtClient, OpenFile, netVars, fileVars
<1>2. phase'[c] \in {"top", "failed"} /\ \A d \in Clients \ {c} : phase'[d] = phase[d]
  BY <1>1, ClientFunctions DEF Goto
<1>3. CWND_space'[c] = CWND[c] \div MSS /\ \A d \in Clients \ {c} : CWND_space'[d] = CWND_space[d]
  BY <1>1, ClientFunctions
<1>. QED BY <1>1, <1>2, <1>3 DEF ClientFrame, Untouched, FinSent, Finished

(* A chunk is sent: logs before it, the log of it, and the read position behind it. *)
ChunkStep(c, logs, pos) ==
    /\ ClientFrame(c) /\ phase[c] = "top" /\ phase'[c] = "recv" /\ UNCHANGED id_num
    /\ pos \in Boundaries(c)
    /\ logs \in Seq(logger) /\ \A k \in DOMAIN logs : LogInv(c, logs[k])
    /\ \E log \in logger : log.file_pos = pos /\ LogInv(c, log) /\ CWND_logs'[c] = Append(logs, log)
    /\ file_pos'[c] = pos + ReadLen(c, pos)
    /\ eof'[c] = (ReadLen(c, pos) < MSS)
    /\ CWND'[c] \in {CWND[c], MSS}
    /\ net' = net \cup {ChunkOf(c, SeqAt(pos), pos)}

(* What ChunkSent does to the client. *)
LEMMA ChunkSentEffect ==
  ASSUME TypeOK, NEW c \in Clients, NEW pos \in Boundaries(c), NEW logs \in Seq(logger),
         ChunkSent(c, SeqAt(pos), pos, logs), phase[c] = "top", UNCHANGED all_connection,
         CWND' = CWND \/ CWND' = [CWND EXCEPT ![c] = MSS],
         NEW space, CWND_space' = [CWND_space EXCEPT ![c] = space],
         \A k \in DOMAIN logs : LogInv(c, logs[k]),
         net' = net \cup {ChunkOf(c, SeqAt(pos), pos)}
  PROVE  ChunkStep(c, logs, pos)
<1> DEFINE n == ReadLen(c, pos)
           log == LogOf(SeqAt(pos), n, pos)
<1>1. /\ phase' = [phase EXCEPT ![c] = "recv"] /\ UNCHANGED id_num
      /\ CWND_logs' = [CWND_logs EXCEPT ![c] = Append(logs, log)]
      /\ file_pos' = [file_pos EXCEPT ![c] = pos + n]
      /\ eof' = [eof EXCEPT ![c] = n < MSS]
  BY DEF ChunkSent, Goto
<1>2. pos \in Nat /\ n \in Nat /\ SeqAt(pos) \in Nat /\ (SeqAt(pos) + n) % SeqMod = SeqAt(pos + n)
      /\ SeqAt(pos + n) \in Nat
  <2>1. pos \in Nat /\ n \in Nat
    <3>1. pos \in Nat /\ n \in 0..MSS
      BY ReadAtBoundary
    <3>. QED BY <3>1, MSSAssumption
  <2> HIDE DEF n
  <2>2. pos + n \in Nat
    BY <2>1
  <2>. QED BY <2>1, <2>2, SeqAtAdd
<1>3. /\ log \in logger /\ log.file_pos = pos /\ log.seq = SeqAt(pos) /\ log.E_ACK = SeqAt(pos + n)
  BY <1>2 DEF logger, LogOf
<1>4. LogInv(c, log)
  BY <1>3 DEF LogInv
<1>5. /\ phase'[c] = "recv" /\ CWND_logs'[c] = Append(logs, log)
      /\ file_pos'[c] = pos + n /\ eof'[c] = (n < MSS) /\ CWND'[c] \in {CWND[c], MSS}
  BY <1>1, ClientFunctions
<1>6. \A d \in Clients \ {c} : Untouched(d)
  BY <1>1, ClientFunctions DEF Untouched
<1>7. ClientFrame(c)
  BY <1>1, <1>5, <1>6 DEF ClientFrame, FinSent, Finished
<1> HIDE DEF log
<1>. QED BY <1>1, <1>3, <1>4, <1>5, <1>7 DEF ChunkStep

(* The next chunk of the file is sent. *)
LEMMA SendNextStep ==
  ASSUME TypeOK, InductiveInv, NEW c \in Clients, AtClient(SendNext(c))
  PROVE  ChunkStep(c, CWND_logs[c], file_pos[c])
<1>1. /\ phase[c] = "top" /\ UNCHANGED <<all_connection, CWND>>
      /\ ChunkSent(c, seq_num[c], file_pos[c], CWND_logs[c])
      /\ net' = net \cup {ChunkOf(c, seq_num[c], file_pos[c])}
      /\ CWND_space' = [CWND_space EXCEPT ![c] = CWND_space[c] - 1]
  BY DEF AtClient, SendNext, Send
<1>2. /\ file_pos[c] \in Boundaries(c) /\ seq_num[c] = SeqAt(file_pos[c])
      /\ \A k \in DOMAIN CWND_logs[c] : LogInv(c, CWND_logs[c][k])
  BY <1>1 DEF InductiveInv, ClientInv, ClientInvAt, DataInv
<1>3. CWND_logs[c] \in Seq(logger)
  BY ClientFunctions
<1>. QED BY <1>1, <1>2, <1>3, ChunkSentEffect

(* The chunk of the oldest log is sent again. *)
LEMMA RetransmitStep ==
  ASSUME TypeOK, InductiveInv, NEW c \in Clients, AtClient(Retransmit(c))
  PROVE  CWND_logs[c] # <<>> /\ ChunkStep(c, Tail(CWND_logs[c]), Head(CWND_logs[c]).file_pos)
<1> DEFINE front == Head(CWND_logs[c])
           rest == Tail(CWND_logs[c])
<1>1. /\ phase[c] = "top" /\ CWND_logs[c] # <<>> /\ UNCHANGED all_connection
      /\ ChunkSent(c, front.seq, front.file_pos, rest)
      /\ net' = net \cup {ChunkOf(c, front.seq, front.file_pos)}
      /\ CWND' = [CWND EXCEPT ![c] = MSS]
      /\ CWND_space' = [CWND_space EXCEPT ![c] = 0]
  BY DEF AtClient, Retransmit, Expire
<1>2. LogInv(c, front) /\ rest \in Seq(logger) /\ \A k \in DOMAIN rest : LogInv(c, rest[k])
  BY <1>1, FrontLog
<1>3. front.file_pos \in Boundaries(c) /\ front.seq = SeqAt(front.file_pos)
  BY <1>2 DEF LogInv
<1> HIDE DEF front, rest
<1>4. ChunkStep(c, rest, front.file_pos)
  BY <1>1, <1>2, <1>3, ChunkSentEffect
<1>. QED BY <1>1, <1>4 DEF front, rest

(* A packet is read in the data loop: it acknowledges the first log it fits, or nothing. *)
LEMMA DataRecvStep ==
  ASSUME TypeOK, NEW c \in Clients, NEW m \in Inbox(c), AtClient(DataRecv(c, m))
  PROVE  /\ ClientFrame(c) /\ phase[c] = "recv" /\ net' \subseteq net
         /\ UNCHANGED <<id_num, file_pos, eof>>
         /\ \/ \E i \in DOMAIN CWND_logs[c] :
                 /\ CWND_logs[c][i].E_ACK = m.ack
                 /\ CWND_logs'[c] = SubSeq(CWND_logs[c], i + 1, Len(CWND_logs[c]))
                 /\ CWND_space'[c] > 0
            \/ CWND_logs'[c] = CWND_logs[c] /\ CWND_space'[c] = CWND_space[c]
         /\ CWND'[c] \in {CWND[c], WindowAfter(CWND[c], SS_THRESH[c])}
         /\ phase'[c] = IF eof[c] /\ CWND_logs'[c] = <<>> THEN "fin" ELSE "top"
<1> DEFINE rest(i) == SubSeq(CWND_logs[c], i + 1, Len(CWND_logs[c]))
<1>1. /\ phase[c] = "recv" /\ Deliver(m, {})
      /\ UNCHANGED <<all_connection, id_num, file_pos, eof>>
      /\ \/ \E i \in FirstLog(c, m.ack) : Acked(c, i)
         \/ LoopExit(c, CWND_logs[c]) /\ UNCHANGED <<CWND, CWND_space, CWND_logs>>
  BY DEF AtClient, DataRecv, fileVars
<1>2. net' \subseteq net
  BY <1>1, DeliverNet
<1>3. ASSUME NEW i \in FirstLog(c, m.ack), Acked(c, i)
      PROVE  /\ ClientFrame(c)
             /\ \E k \in DOMAIN CWND_logs[c] :
                  /\ CWND_logs[c][k].E_ACK = m.ack
                  /\ CWND_logs'[c] = rest(k)
                  /\ CWND_space'[c] > 0
             /\ CWND'[c] = WindowAfter(CWND[c], SS_THRESH[c])
             /\ phase'[c] = IF eof[c] /\ CWND_logs'[c] = <<>> THEN "fin" ELSE "top"
  <2>1. i \in DOMAIN CWND_logs[c] /\ CWND_logs[c][i].E_ACK = m.ack
    BY DEF FirstLog
  <2>2. /\ CWND_logs' = [CWND_logs EXCEPT ![c] = rest(i)]
        /\ CWND' = [CWND EXCEPT ![c] = WindowAfter(CWND[c], SS_THRESH[c])]
        /\ CWND_space' = [CWND_space EXCEPT ![c] = CWND_space[c] + SpaceAfter(CWND[c], SS_THRESH[c])]
        /\ phase' = [phase EXCEPT ![c] = IF eof[c] /\ rest(i) = <<>> THEN "fin" ELSE "top"]
    BY <1>3 DEF Acked, LoopExit, Goto
  <2> HIDE DEF rest
  <2>3. /\ CWND_logs'[c] = rest(i) /\ CWND'[c] = WindowAfter(CWND[c], SS_THRESH[c])
        /\ CWND_space'[c] = CWND_space[c] + SpaceAfter(CWND[c], SS_THRESH[c])
        /\ phase'[c] = IF eof[c] /\ rest(i) = <<>> THEN "fin" ELSE "top"
    BY <2>2, ClientFunctions
  <2>4. CWND_space'[c] > 0
    <3>1. CWND[c] \in Nat \ {0} /\ SS_THRESH[c] \in Nat /\ CWND_space[c] \in Nat
      BY ClientFunctions
    <3>2. SpaceAfter(CWND[c], SS_THRESH[c]) \in {1, 2}
      BY <3>1, WindowType
    <3>. QED BY <2>3, <3>1, <3>2
  <2>5. \A d \in Clients \ {c} : Untouched(d)
    BY <1>1, <2>2, ClientFunctions DEF Untouched
  <2>6. ClientFrame(c)
    BY <1>1, <2>3, <2>5 DEF ClientFrame, FinSent, Finished
  <2>. QED BY <2>1, <2>3, <2>4, <2>6
<1>4. ASSUME LoopExit(c, CWND_logs[c]), UNCHANGED <<CWND, CWND_space, CWND_logs>>
      PROVE  /\ ClientFrame(c)
             /\ phase'[c] = IF eof[c] /\ CWND_logs'[c] = <<>> THEN "fin" ELSE "top"
  <2>1. phase' = [phase EXCEPT ![c] = IF eof[c] /\ CWND_logs[c] = <<>> THEN "fin" ELSE "top"]
    BY <1>4 DEF LoopExit, Goto
  <2>2. phase'[c] = IF eof[c] /\ CWND_logs[c] = <<>> THEN "fin" ELSE "top"
    BY <2>1, ClientFunctions
  <2>3. \A d \in Clients \ {c} : Untouched(d)
    BY <1>1, <1>4, <2>1, ClientFunctions DEF Untouched
  <2>. QED BY <1>1, <1>4, <2>2, <2>3 DEF ClientFrame, FinSent, Finished
<1> HIDE DEF rest
<1>5. CASE \E i \in FirstLog(c, m.ack) : Acked(c, i)
  BY <1>1, <1>2, <1>3, <1>5 DEF rest
<1>6. CASE LoopExit(c, CWND_logs[c]) /\ UNCHANGED <<CWND, CWND_space, CWND_logs>>
  BY <1>1, <1>2, <1>4, <1>6
<1>. QED BY <1>1, <1>5, <1>6

-----------------------------------------------------------------------------
(* The window. *)

(* What WindowInv says of one client. *)
WindowAt(c) ==
    /\ CWND[c] >= MSS
    /\ phase[c] \in {"start", "synwait", "open"} => ~eof[c]
    /\ phase[c] \in {"top", "recv"} => CWND_logs[c] # <<>> \/ (CWND_space[c] > 0 /\ ~eof[c])

(* WindowInv is what WindowAt says of every client. *)
LEMMA WindowParts == WindowInv <=> \A c \in Clients : WindowAt(c)
BY DEF WindowInv, WindowAt, NeverBlocked

(* A window of at least one packet has room for a packet. *)
LEMMA WindowRoom == ASSUME NEW w \in Nat, w >= MSS PROVE w \div MSS > 0
<1> DEFINE q == w \div MSS
           M == MSS
<1>1. q \in Int /\ M \in Nat \ {0} /\ w < M * q + M
  BY MSSAssumption
<1> HIDE DEF q, M
<1>2. SUFFICES ASSUME q <= 0 PROVE FALSE
  BY <1>1 DEF q
<1>3. PICK d \in Nat : q = -d
  BY <1>1, <1>2
<1>4. M * d >= 0 /\ M * q = -(M * d)
  BY <1>1, <1>3
<1>5. w < M
  BY <1>1, <1>4
<1>. QED BY <1>1, <1>5 DEF M

(* No acknowledgement makes the window smaller. *)
LEMMA WindowGrows == ASSUME NEW w \in Nat \ {0}, NEW t \in Nat PROVE WindowAfter(w, t) >= w
<1>1. MSS \in Nat /\ MSS * MSS \in Nat
  BY MSSAssumption
<1>2. (MSS * MSS) \div w \in Nat
  BY <1>1, DivNat
<1>. QED BY <1>1, <1>2 DEF WindowAfter

(* Appending to a sequence leaves it not empty. *)
LEMMA AppendNotEmpty == ASSUME NEW S, NEW s \in Seq(S), NEW e \in S PROVE Append(s, e) # <<>>
<1>1. Len(Append(s, e)) = Len(s) + 1 /\ Len(s) \in Nat
  OBVIOUS
<1>2. Len(<<>>) = 0
  OBVIOUS
<1>. QED BY <1>1, <1>2

(* A step of a client keeps what WindowInv says of the client. *)
LEMMA WindowClient ==
  ASSUME TypeOK, InductiveInv, WindowInv, NEW c \in Clients,
         \/ AtClient(SendSyn(c)) \/ AtClient(SynTimeout(c)) \/ AtClient(Quiet(c))
         \/ AtClient(SendFin(c)) \/ AtClient(FinTimeout(c))
         \/ \E m \in Inbox(c) : \/ AtClient(HandshakeRecv(c, m)) \/ AtClient(DataRecv(c, m))
                                \/ AtClient(FinRecv(c, m)) \/ AtClient(TimeWaitRecv(c, m))
         \/ AtClient(OpenFile(c)) \/ AtClient(SendNext(c)) \/ AtClient(Retransmit(c))
  PROVE  ClientFrame(c) /\ WindowAt(c)'
<1>1. WindowAt(c) /\ CWND[c] \in Nat \ {0} /\ SS_THRESH[c] \in Nat /\ MSS \in Nat \ {0}
      /\ eof[c] \in BOOLEAN
  BY WindowParts, ClientFunctions, MSSAssumption
<1>2. CASE \/ AtClient(SendSyn(c)) \/ AtClient(SynTimeout(c)) \/ AtClient(Quiet(c))
           \/ AtClient(SendFin(c)) \/ AtClient(FinTimeout(c))
           \/ \E m \in Inbox(c) : AtClient(FinRecv(c, m)) \/ AtClient(TimeWaitRecv(c, m))
  <2>1. /\ ClientFrame(c) /\ UNCHANGED <<id_num, CWND, CWND_space, CWND_logs, file_pos, eof>>
        /\ \/ phase[c] = "start" /\ phase'[c] = "synwait"
           \/ phase[c] = "top" /\ phase'[c] = "recv" /\ ~CanSend(c)
           \/ /\ phase[c] = "recv"
              /\ phase'[c] = "failed" \/ phase'[c] = IF eof[c] /\ CWND_logs[c] = <<>> THEN "fin" ELSE "top"
           \/ phase[c] \in {"synwait", "finwait"} /\ phase'[c] = "failed"
           \/ phase[c] = "fin" /\ phase'[c] = "finwait"
           \/ phase[c] = "finwait" /\ phase'[c] = "timewait"
           \/ phase[c] = "timewait" /\ phase'[c] = "done"
           \/ phase[c] \in {"synwait", "finwait", "timewait"} /\ phase'[c] = phase[c]
    BY <1>2, MoveSteps
  <2>. QED BY <1>1, <2>1 DEF WindowAt
<1>3. ASSUME NEW m \in Inbox(c), AtClient(HandshakeRecv(c, m)) PROVE ClientFrame(c) /\ WindowAt(c)'
  <2>1. /\ ClientFrame(c) /\ phase[c] = "synwait" /\ phase'[c] \in {"synwait", "open"}
        /\ eof' = eof /\ CWND'[c] \in {CWND[c], CWND[c] + MSS}
    BY <1>3, HandshakeStep
  <2>2. CWND'[c] >= MSS
    BY <1>1, <2>1 DEF WindowAt
  <2>. QED BY <1>1, <2>1, <2>2 DEF WindowAt
<1>4. CASE AtClient(OpenFile(c))
  <2>1. /\ ClientFrame(c) /\ phase[c] = "open" /\ phase'[c] \in {"top", "failed"}
        /\ UNCHANGED <<CWND, eof>> /\ CWND_space'[c] = CWND[c] \div MSS
    BY <1>4, OpenStep
  <2>2. CWND_space'[c] > 0
    BY <1>1, <2>1, WindowRoom DEF WindowAt
  <2>. QED BY <1>1, <2>1, <2>2 DEF WindowAt
<1>5. ASSUME NEW logs, NEW pos, ChunkStep(c, logs, pos) PROVE ClientFrame(c) /\ WindowAt(c)'
  <2>1. /\ ClientFrame(c) /\ phase'[c] = "recv" /\ CWND'[c] \in {CWND[c], MSS}
        /\ logs \in Seq(logger) /\ \E log \in logger : CWND_logs'[c] = Append(logs, log)
    BY <1>5 DEF ChunkStep
  <2>2. CWND_logs'[c] # <<>>
    BY <2>1, AppendNotEmpty
  <2>3. CWND'[c] >= MSS
    BY <1>1, <2>1 DEF WindowAt
  <2>. QED BY <2>1, <2>2, <2>3 DEF WindowAt
<1>6. CASE AtClient(SendNext(c)) \/ AtClient(Retransmit(c))
  BY <1>5, <1>6, SendNextStep, RetransmitStep
<1>7. ASSUME NEW m \in Inbox(c), AtClient(DataRecv(c, m)) PROVE ClientFrame(c) /\ WindowAt(c)'
  <2>1. /\ ClientFrame(c) /\ phase[c] = "recv" /\ UNCHANGED eof
        /\ CWND'[c] \in {CWND[c], WindowAfter(CWND[c], SS_THRESH[c])}
        /\ phase'[c] = IF eof[c] /\ CWND_logs'[c] = <<>> THEN "fin" ELSE "top"
        /\ CWND_space'[c] > 0 \/ (CWND_logs'[c] = CWND_logs[c] /\ CWND_space'[c] = CWND_space[c])
    BY <1>7, DataRecvStep
  <2>2. CWND'[c] >= MSS
    <3>1. WindowAfter(CWND[c], SS_THRESH[c]) >= CWND[c] /\ WindowAfter(CWND[c], SS_THRESH[c]) \in Nat
      BY <1>1, WindowGrows, WindowType
    <3>. QED BY <1>1, <2>1, <3>1 DEF WindowAt
  <2>3. phase'[c] = "top" => CWND_logs'[c] # <<>> \/ (CWND_space'[c] > 0 /\ ~eof'[c])
    BY <1>1, <2>1 DEF WindowAt
  <2>. QED BY <2>1, <2>2, <2>3 DEF WindowAt
<1>. QED BY <1>2, <1>3, <1>4, <1>6, <1>7

(* The window starts at one packet, and no file was read. *)
LEMMA WindowInit == Init => WindowInv
<1> SUFFICES ASSUME Init PROVE WindowInv
  OBVIOUS
<1>1. /\ phase = [c \in Clients |-> "start"] /\ eof = [c \in Clients |-> FALSE]
      /\ CWND = [c \in Clients |-> MSS]
  BY DEF Init, ClientInit
<1>. QED BY <1>1, MSSAssumption DEF WindowInv, NeverBlocked

(* Every step of the system keeps WindowInv, whoever takes it. *)
LEMMA WindowNext == TypeOK /\ InductiveInv /\ WindowInv /\ [Next]_vars => WindowInv'
<1> SUFFICES ASSUME TypeOK, InductiveInv, WindowInv, [Next]_vars PROVE WindowInv'
  OBVIOUS
<1>1. ASSUME NEW c \in Clients, ClientFrame(c), WindowAt(c)' PROVE WindowInv'
  <2>1. ASSUME NEW d \in Clients \ {c} PROVE WindowAt(d)'
    <3>1. WindowAt(d)
      BY WindowParts
    <3>2. Untouched(d)
      BY <1>1 DEF ClientFrame
    <3>. QED BY <3>1, <3>2 DEF WindowAt, Untouched
  <2>. QED BY <1>1, <2>1 DEF WindowInv, WindowAt, NeverBlocked
<1>2. ASSUME UNCHANGED clientVars PROVE WindowInv'
  BY <1>2 DEF WindowInv, NeverBlocked, clientVars
<1>3. CASE UNCHANGED clientVars
  BY <1>2, <1>3
<1>4. ASSUME NEW c \in Clients,
             \/ AtClient(SendSyn(c)) \/ AtClient(SynTimeout(c)) \/ AtClient(Quiet(c))
             \/ AtClient(SendFin(c)) \/ AtClient(FinTimeout(c))
             \/ \E m \in Inbox(c) : \/ AtClient(HandshakeRecv(c, m)) \/ AtClient(DataRecv(c, m))
                                    \/ AtClient(FinRecv(c, m)) \/ AtClient(TimeWaitRecv(c, m))
             \/ AtClient(OpenFile(c)) \/ AtClient(SendNext(c)) \/ AtClient(Retransmit(c))
      PROVE  WindowInv'
  <2>1. ClientFrame(c) /\ WindowAt(c)'
    BY <1>4, WindowClient
  <2>. QED BY <1>1, <2>1
<1>. QED BY <1>3, <1>4 DEF Next, Quiet, AtClient, AtServer, vars

-----------------------------------------------------------------------------
(* The logs. *)

(* The logs of a client: each is a packet of its file. *)
Logged(c, logs) == logs \in Seq(logger) /\ \A k \in DOMAIN logs : LogInv(c, logs[k])

(* Where the packet of a log starts and ends. *)
LEMMA LogEnds ==
  ASSUME NEW c \in Clients, NEW log, LogInv(c, log)
  PROVE  /\ log.file_pos \in Nat /\ LogEnd(c, log) \in Nat /\ log.file_pos <= LogEnd(c, log)
         /\ LogEnd(c, log) \in Boundaries(c) /\ log.E_ACK = SeqAt(LogEnd(c, log))
<1>1. log.file_pos \in Boundaries(c) /\ log.E_ACK = SeqAt(log.file_pos + ReadLen(c, log.file_pos))
  BY DEF LogInv
<1>2. /\ log.file_pos \in Nat /\ ReadLen(c, log.file_pos) \in 0..MSS
      /\ log.file_pos + ReadLen(c, log.file_pos) \in Boundaries(c)
  BY <1>1, ReadAtBoundary
<1>. QED BY <1>1, <1>2, MSSAssumption DEF LogEnd

(* A log behind the others. *)
LEMMA LogAppended ==
  ASSUME NEW c, NEW logs \in Seq(logger), NEW log \in logger
  PROVE  /\ Append(logs, log) \in Seq(logger)
         /\ Len(logs) \in Nat /\ Len(Append(logs, log)) = Len(logs) + 1
         /\ Append(logs, log)[Len(logs) + 1] = log
         /\ \A k \in 1..Len(logs) : Append(logs, log)[k] = logs[k]
OBVIOUS

(* A packet is sent behind those in the logs, or where what lies between was delivered. *)
LEMMA CoverAppend ==
  ASSUME NEW c \in Clients, NEW logs, Logged(c, logs), NEW log \in logger, LogInv(c, log),
         NEW d \in Nat,
         logs = <<>> => log.file_pos <= d,
         logs # <<>> =>
            /\ log.file_pos <= d \/ log.file_pos <= LogEnd(c, logs[Len(logs)])
            /\ logs[1].file_pos <= d \/ logs[1].file_pos <= LogEnd(c, log)
            /\ log.file_pos <= d \/ \E k \in DOMAIN logs : logs[k].file_pos <= d
            /\ \A k \in 1..(Len(logs) - 1) :
                 logs[k + 1].file_pos <= d \/ logs[k + 1].file_pos <= LogEnd(c, logs[k])
  PROVE  LogsCover(c, Append(logs, log), LogEnd(c, log), d)
<1> DEFINE new == Append(logs, log)
           n == Len(logs)
<1>1. /\ n \in Nat /\ Len(new) = n + 1 /\ new[n + 1] = log /\ DOMAIN logs = 1..n /\ DOMAIN new = 1..(n + 1)
      /\ \A k \in 1..n : new[k] = logs[k]
  BY LogAppended DEF Logged
<1>2. new # <<>>
  BY AppendNotEmpty DEF Logged
<1>3. logs = <<>> <=> n = 0
  BY DEF Logged
<1>4. log.file_pos \in Nat /\ LogEnd(c, log) \in Nat /\ log.file_pos <= LogEnd(c, log)
  BY LogEnds
<1> HIDE DEF new, n
<1>5. LogEnd(c, new[Len(new)]) = LogEnd(c, log)
  BY <1>1
<1>6. new[1].file_pos <= d \/ new[1].file_pos <= LogEnd(c, log)
  <2>1. CASE n = 0
    BY <1>1, <1>4, <2>1
  <2>2. CASE n > 0
    <3>1. new[1] = logs[1] /\ logs # <<>>
      BY <1>1, <1>3, <2>2
    <3>. QED BY <3>1
  <2>. QED BY <1>1, <2>1, <2>2
<1>7. \E k \in DOMAIN new : new[k].file_pos <= d
  <2>1. CASE log.file_pos <= d
    <3>1. n + 1 \in DOMAIN new
      BY <1>1
    <3>2. new[n + 1] = log
      BY <1>1
    <3>. QED BY <2>1, <3>1, <3>2
  <2>2. CASE ~(log.file_pos <= d)
    <3>1. PICK k \in DOMAIN logs : logs[k].file_pos <= d
      BY <2>2
    <3>2. k \in DOMAIN new /\ new[k] = logs[k]
      BY <1>1
    <3>. QED BY <3>1, <3>2
  <2>. QED BY <2>1, <2>2
<1>8. ASSUME NEW k \in 1..(Len(new) - 1)
      PROVE  new[k + 1].file_pos <= d \/ new[k + 1].file_pos <= LogEnd(c, new[k])
  <2>1. k \in 1..n /\ logs # <<>> /\ new[k] = logs[k]
    BY <1>1, <1>3
  <2>2. CASE k = n
    <3>1. new[k + 1] = log /\ new[k] = logs[Len(logs)]
      BY <1>1, <2>1, <2>2 DEF n
    <3>. QED BY <2>1, <3>1
  <2>3. CASE k # n
    <3>1. k \in 1..(n - 1) /\ k + 1 \in 1..n
      BY <1>1, <2>1, <2>3
    <3>2. new[k + 1] = logs[k + 1]
      BY <1>1, <3>1
    <3>3. k \in 1..(Len(logs) - 1)
      BY <3>1 DEF n
    <3>. QED BY <2>1, <3>2, <3>3
  <2>. QED BY <2>2, <2>3
<1>. QED BY <1>2, <1>5, <1>6, <1>7, <1>8 DEF LogsCover, new

(* SendNext: the next packet starts where the last one sent ended. *)
LEMMA CoverNext ==
  ASSUME NEW c \in Clients, NEW logs, Logged(c, logs), NEW log \in logger, LogInv(c, log),
         NEW d \in Nat, NEW pos, log.file_pos = pos, LogsCover(c, logs, pos, d)
  PROVE  LogsCover(c, Append(logs, log), LogEnd(c, log), d)
<1>1. log.file_pos \in Nat /\ LogEnd(c, log) \in Nat /\ pos <= LogEnd(c, log)
  BY LogEnds
<1>2. logs = <<>> => log.file_pos <= d
  BY DEF LogsCover
<1>3. ASSUME logs # <<>>
      PROVE  /\ log.file_pos <= LogEnd(c, logs[Len(logs)])
             /\ logs[1].file_pos <= d \/ logs[1].file_pos <= LogEnd(c, log)
             /\ \E k \in DOMAIN logs : logs[k].file_pos <= d
             /\ \A k \in 1..(Len(logs) - 1) :
                  logs[k + 1].file_pos <= d \/ logs[k + 1].file_pos <= LogEnd(c, logs[k])
  <2>1. /\ LogEnd(c, logs[Len(logs)]) = pos
        /\ logs[1].file_pos <= d \/ logs[1].file_pos <= pos
        /\ \E k \in DOMAIN logs : logs[k].file_pos <= d
        /\ \A k \in 1..(Len(logs) - 1) :
             logs[k + 1].file_pos <= d \/ logs[k + 1].file_pos <= LogEnd(c, logs[k])
    BY <1>3 DEF LogsCover
  <2>2. logs[1].file_pos \in Nat
    <3>1. 1 \in DOMAIN logs
      BY <1>3 DEF Logged
    <3>. QED BY <3>1, LogEnds DEF Logged
  <2>3. logs[1].file_pos <= d \/ logs[1].file_pos <= LogEnd(c, log)
    BY <1>1, <2>1, <2>2
  <2>. QED BY <1>1, <2>1, <2>3
<1>. QED BY <1>2, <1>3, CoverAppend

(* Retransmit: the packet of the oldest log is the last one sent now. *)
LEMMA CoverAgain ==
  ASSUME NEW c \in Clients, NEW logs, Logged(c, logs), logs # <<>>, NEW log \in logger, LogInv(c, log),
         NEW d \in Nat, NEW pos, log.file_pos = Head(logs).file_pos, LogsCover(c, logs, pos, d)
  PROVE  LogsCover(c, Append(Tail(logs), log), LogEnd(c, log), d)
<1> DEFINE rest == Tail(logs)
           n == Len(logs)
<1>1. /\ n \in Nat /\ n >= 1 /\ Head(logs) = logs[1] /\ DOMAIN logs = 1..n
      /\ rest \in Seq(logger) /\ Len(rest) = n - 1 /\ DOMAIN rest = 1..(n - 1)
      /\ \A k \in 1..(n - 1) : rest[k] = logs[k + 1]
  BY DEF Logged
<1>2. rest = <<>> <=> n = 1
  <2>1. rest # <<>> => Len(rest) # 0
    BY <1>1, EmptySeq
  <2>2. Len(<<>>) = 0
    OBVIOUS
  <2> HIDE DEF rest, n
  <2>. QED BY <1>1, <2>1, <2>2
<1>3. \A k \in 1..n : LogInv(c, logs[k])
  BY <1>1 DEF Logged
<1>4. /\ LogEnd(c, logs[n]) = pos
      /\ logs[1].file_pos <= d \/ logs[1].file_pos <= pos
      /\ \E k \in 1..n : logs[k].file_pos <= d
      /\ \A k \in 1..(n - 1) :
           logs[k + 1].file_pos <= d \/ logs[k + 1].file_pos <= LogEnd(c, logs[k])
  BY <1>1 DEF LogsCover
<1>5. /\ log.file_pos = logs[1].file_pos /\ LogEnd(c, log) = LogEnd(c, logs[1])
  BY <1>1 DEF LogEnd
<1> HIDE DEF rest, n
<1>6. Logged(c, rest)
  <2>1. ASSUME NEW k \in DOMAIN rest PROVE LogInv(c, rest[k])
    <3>1. k \in 1..(n - 1) /\ k + 1 \in 1..n
      BY <1>1
    <3>2. rest[k] = logs[k + 1]
      BY <1>1, <3>1
    <3>. QED BY <1>3, <3>1, <3>2
  <2>2. rest \in Seq(logger)
    BY <1>1
  <2>. QED BY <2>1, <2>2 DEF Logged
<1>7. ASSUME rest = <<>> PROVE log.file_pos <= d
  <2>1. n = 1
    BY <1>2, <1>7
  <2>2. logs[1].file_pos <= d
    BY <1>4, <2>1
  <2>. QED BY <1>5, <2>2
<1>8. ASSUME rest # <<>>
      PROVE  /\ log.file_pos <= d \/ log.file_pos <= LogEnd(c, rest[Len(rest)])
             /\ rest[1].file_pos <= d \/ rest[1].file_pos <= LogEnd(c, log)
             /\ log.file_pos <= d \/ \E k \in DOMAIN rest : rest[k].file_pos <= d
             /\ \A k \in 1..(Len(rest) - 1) :
                  rest[k + 1].file_pos <= d \/ rest[k + 1].file_pos <= LogEnd(c, rest[k])
  <2>1. n > 1
    BY <1>1, <1>2, <1>8
  <2>2. rest[Len(rest)] = logs[n] /\ rest[1] = logs[2]
    <3>1. Len(rest) \in 1..(n - 1) /\ Len(rest) + 1 = n /\ 1 \in 1..(n - 1) /\ 1 + 1 = 2
      BY <1>1, <2>1
    <3>. QED BY <1>1, <3>1
  <2>3. log.file_pos <= d \/ log.file_pos <= LogEnd(c, rest[Len(rest)])
    BY <1>4, <1>5, <2>2
  <2>4. rest[1].file_pos <= d \/ rest[1].file_pos <= LogEnd(c, log)
    <3>1. 1 \in 1..(n - 1) /\ 1 + 1 = 2
      BY <1>1, <2>1
    <3>2. logs[2].file_pos <= d \/ logs[2].file_pos <= LogEnd(c, logs[1])
      BY <1>4, <3>1
    <3>. QED BY <1>5, <2>2, <3>2
  <2>5. log.file_pos <= d \/ \E k \in DOMAIN rest : rest[k].file_pos <= d
    <3>1. PICK k \in 1..n : logs[k].file_pos <= d
      BY <1>4
    <3>2. CASE k = 1
      BY <1>5, <3>1, <3>2
    <3>3. CASE k # 1
      <4>1. k - 1 \in 1..(n - 1) /\ (k - 1) + 1 = k
        BY <1>1, <3>3
      <4>2. rest[k - 1] = logs[k] /\ k - 1 \in DOMAIN rest
        BY <1>1, <4>1
      <4>. QED BY <3>1, <4>2
    <3>. QED BY <3>2, <3>3
  <2>6. ASSUME NEW k \in 1..(Len(rest) - 1)
        PROVE  rest[k + 1].file_pos <= d \/ rest[k + 1].file_pos <= LogEnd(c, rest[k])
    <3>1. k \in 1..(n - 1) /\ k + 1 \in 1..(n - 1)
      BY <1>1
    <3>2. rest[k] = logs[k + 1] /\ rest[k + 1] = logs[(k + 1) + 1]
      BY <1>1, <3>1
    <3>. QED BY <1>4, <3>1, <3>2
  <2>. QED BY <2>3, <2>4, <2>5, <2>6
<1>9. LogsCover(c, Append(rest, log), LogEnd(c, log), d)
  BY <1>6, <1>7, <1>8, CoverAppend
<1>. QED BY <1>9 DEF rest

(* Acked: a log whose packet was delivered is erased with all before it. *)
LEMMA CoverErase ==
  ASSUME NEW c \in Clients, NEW logs, Logged(c, logs), NEW d \in Nat, NEW pos \in Nat,
         LogsCover(c, logs, pos, d), NEW i \in DOMAIN logs, LogEnd(c, logs[i]) <= d
  PROVE  LogsCover(c, SubSeq(logs, i + 1, Len(logs)), pos, d)
<1> DEFINE n == Len(logs)
           rest == SubSeq(logs, i + 1, n)
<1>1. n \in Nat /\ DOMAIN logs = 1..n /\ i \in 1..n /\ logs # <<>>
  BY DEF Logged
<1>2. /\ rest \in Seq(logger) /\ Len(rest) = n - i /\ DOMAIN rest = 1..(n - i)
      /\ \A k \in 1..(n - i) : rest[k] = logs[i + k]
  <2>1. \A k \in i + 1..n : logs[k] \in logger
    BY <1>1 DEF Logged
  <2>2. Len(rest) = IF i + 1 <= n THEN n - (i + 1) + 1 ELSE 0
    BY <1>1, SubSeqProperties DEF Logged
  <2>3. \A k \in 1..Len(rest) : rest[k] = logs[(i + 1) + k - 1]
    BY <1>1, SubSeqProperties DEF Logged
  <2>4. rest \in Seq(logger)
    BY <1>1, SubSeqProperties DEF Logged
  <2> HIDE DEF rest
  <2>5. Len(rest) = n - i
    BY <1>1, <2>2
  <2>6. \A k \in 1..(n - i) : rest[k] = logs[i + k]
    <3>1. \A k \in 1..(n - i) : (i + 1) + k - 1 = i + k
      BY <1>1
    <3>. QED BY <2>3, <2>5, <3>1
  <2>7. DOMAIN rest = 1..(n - i)
    BY <2>4, <2>5, LenProperties
  <2>. QED BY <2>4, <2>5, <2>6, <2>7
<1>3. /\ LogEnd(c, logs[n]) = pos
      /\ \A k \in 1..(n - 1) :
           logs[k + 1].file_pos <= d \/ logs[k + 1].file_pos <= LogEnd(c, logs[k])
  BY <1>1 DEF LogsCover
<1>4. \A k \in 1..n : logs[k].file_pos \in Nat /\ LogEnd(c, logs[k]) \in Nat
  BY <1>1, LogEnds DEF Logged
<1>5. LogEnd(c, logs[i]) <= d
  OBVIOUS
<1> HIDE DEF rest, n
<1>6. CASE i = n
  <2>1. Len(rest) = 0
    BY <1>1, <1>2, <1>6
  <2>2. rest = <<>>
    BY <1>2, <2>1, EmptySeq
  <2>3. pos <= d
    BY <1>3, <1>5, <1>6
  <2>. QED BY <2>2, <2>3 DEF LogsCover, rest, n
<1>7. CASE i # n
  <2>1. i \in 1..(n - 1) /\ 1 \in 1..(n - i) /\ n - i \in 1..(n - i) /\ i + (n - i) = n /\ n - i # 0
    BY <1>1, <1>7
  <2>2. rest # <<>>
    BY <1>2, <2>1
  <2>3. rest[1] = logs[i + 1] /\ rest[Len(rest)] = logs[n]
    BY <1>2, <2>1
  <2>4. logs[i + 1].file_pos <= d
    <3>1. logs[i + 1].file_pos <= d \/ logs[i + 1].file_pos <= LogEnd(c, logs[i])
      BY <1>3, <2>1
    <3>2. logs[i + 1].file_pos \in Nat /\ LogEnd(c, logs[i]) \in Nat
      <4>1. i \in 1..n /\ i + 1 \in 1..n
        BY <1>1, <2>1
      <4>. QED BY <1>4, <4>1
    <3>. QED BY <1>5, <3>1, <3>2
  <2>5. \E k \in DOMAIN rest : rest[k].file_pos <= d
    BY <1>2, <2>1, <2>3, <2>4
  <2>6. ASSUME NEW k \in 1..(Len(rest) - 1)
        PROVE  rest[k + 1].file_pos <= d \/ rest[k + 1].file_pos <= LogEnd(c, rest[k])
    <3>1. k \in 1..(n - i) /\ k + 1 \in 1..(n - i) /\ i + k \in 1..(n - 1) /\ i + (k + 1) = (i + k) + 1
      BY <1>1, <1>2
    <3>2. rest[k] = logs[i + k] /\ rest[k + 1] = logs[(i + k) + 1]
      BY <1>2, <3>1
    <3>. QED BY <1>3, <3>1, <3>2
  <2>. QED BY <1>3, <2>2, <2>3, <2>4, <2>5, <2>6 DEF LogsCover, rest, n
<1>. QED BY <1>6, <1>7

(* The more the server has, the less the logs must cover. *)
LEMMA CoverMore ==
  ASSUME NEW c \in Clients, NEW logs, Logged(c, logs), NEW pos \in Nat,
         NEW d \in Nat, NEW e \in Nat, d <= e, LogsCover(c, logs, pos, d)
  PROVE  LogsCover(c, logs, pos, e)
<1>1. Len(logs) \in Nat /\ DOMAIN logs = 1..Len(logs) /\ (logs # <<>> => 1 \in DOMAIN logs)
  BY DEF Logged
<1>2. \A k \in DOMAIN logs : logs[k].file_pos \in Nat
  BY LogEnds DEF Logged
<1>3. \A k \in 1..(Len(logs) - 1) : k + 1 \in DOMAIN logs
  BY <1>1
<1>4. CASE logs = <<>>
  <2>1. pos <= d
    BY <1>4 DEF LogsCover
  <2>2. pos <= e
    BY <2>1
  <2>. QED BY <1>4, <2>2 DEF LogsCover
<1>5. CASE logs # <<>>
  <2>1. /\ LogEnd(c, logs[Len(logs)]) = pos
        /\ logs[1].file_pos <= d \/ logs[1].file_pos <= pos
        /\ \E k \in DOMAIN logs : logs[k].file_pos <= d
        /\ \A k \in 1..(Len(logs) - 1) :
             logs[k + 1].file_pos <= d \/ logs[k + 1].file_pos <= LogEnd(c, logs[k])
    BY <1>5 DEF LogsCover
  <2>2. \A k \in DOMAIN logs : logs[k].file_pos <= d => logs[k].file_pos <= e
    BY <1>2
  <2>3. logs[1].file_pos <= e \/ logs[1].file_pos <= pos
    BY <1>1, <1>5, <2>1, <2>2
  <2>4. \E k \in DOMAIN logs : logs[k].file_pos <= e
    BY <2>1, <2>2
  <2>5. \A k \in 1..(Len(logs) - 1) :
           logs[k + 1].file_pos <= e \/ logs[k + 1].file_pos <= LogEnd(c, logs[k])
    BY <1>3, <2>1, <2>2
  <2>. QED BY <1>5, <2>1, <2>3, <2>4, <2>5 DEF LogsCover
<1>. QED BY <1>4, <1>5

(* A set of naturals that is not empty has a least element. *)
LEMMA LeastIn ==
  ASSUME NEW S \in SUBSET Nat, S # {}
  PROVE  \E x \in S : \A y \in S : x <= y
<1> DEFINE R == {ss \in Nat \X Nat : ss[1] < ss[2]}
<1>1. IsWellFoundedOn(R, Nat)
  BY NatLessThanWellFounded, Zenon DEF OpToRel
<1>2. \E x \in S : \A y \in S : ~(<<y, x>> \in R)
  <2> HIDE DEF R
  <2>. QED BY <1>1, WFMin
<1>3. \A x, y \in Nat : <<y, x>> \in R <=> y < x
  OBVIOUS
<1> HIDE DEF R
<1>4. PICK x \in S : \A y \in S : ~(<<y, x>> \in R)
  BY <1>2
<1>5. \A y \in S : ~(y < x)
  BY <1>3, <1>4
<1>. QED BY <1>4, <1>5

(* A byte that was read and is not delivered belongs to a packet in the logs. *)
LEMMA CoverAll ==
  ASSUME NEW c \in Clients, NEW logs, Logged(c, logs), NEW pos \in Nat, NEW d \in Nat,
         LogsCover(c, logs, pos, d), NEW p \in Nat, d < p, p <= pos
  PROVE  \E k \in DOMAIN logs : logs[k].file_pos < p /\ p <= LogEnd(c, logs[k])
<1> DEFINE n == Len(logs)
<1>1. n \in Nat /\ DOMAIN logs = 1..n
  BY DEF Logged
<1>2. logs # <<>>
  BY DEF LogsCover
<1>3. /\ LogEnd(c, logs[n]) = pos
      /\ \E k \in 1..n : logs[k].file_pos <= d
      /\ \A k \in 1..(n - 1) :
           logs[k + 1].file_pos <= d \/ logs[k + 1].file_pos <= LogEnd(c, logs[k])
  BY <1>1, <1>2 DEF LogsCover
<1>4. \A k \in 1..n : logs[k].file_pos \in Nat /\ LogEnd(c, logs[k]) \in Nat
  BY <1>1, LogEnds DEF Logged
<1> HIDE DEF n
<1>5. PICK j \in 1..n : logs[j].file_pos <= d
  BY <1>3
<1> DEFINE S == {k \in j..n : p <= LogEnd(c, logs[k])}
<1>6. n \in S /\ S \in SUBSET Nat
  <2>1. n \in j..n /\ j..n \subseteq Nat
    BY <1>1
  <2>. QED BY <1>3, <2>1
<1>7. PICK k \in S : \A y \in S : k <= y
  <2> HIDE DEF S
  <2>. QED BY <1>6, LeastIn
<1>8. k \in j..n /\ p <= LogEnd(c, logs[k])
  OBVIOUS
<1>9. logs[k].file_pos < p
  <2>1. CASE k = j
    <3>1. logs[j].file_pos \in Nat
      BY <1>4
    <3>. QED BY <1>5, <2>1, <3>1
  <2>2. CASE k # j
    <3>1. k - 1 \in j..n /\ k - 1 \in 1..(n - 1) /\ (k - 1) + 1 = k /\ ~(k <= k - 1) /\ k \in 1..n /\ k - 1 \in 1..n
      BY <1>1, <1>8, <2>2
    <3>2. ~(p <= LogEnd(c, logs[k - 1]))
      BY <1>7, <3>1
    <3>3. logs[k].file_pos <= d \/ logs[k].file_pos <= LogEnd(c, logs[k - 1])
      BY <1>3, <3>1
    <3>4. logs[k].file_pos \in Nat /\ LogEnd(c, logs[k - 1]) \in Nat
      BY <1>4, <3>1
    <3>. QED BY <3>2, <3>3, <3>4
  <2>. QED BY <2>1, <2>2
<1>10. k \in DOMAIN logs
  BY <1>1, <1>8
<1>. QED BY <1>8, <1>9, <1>10

-----------------------------------------------------------------------------
(* Clients and their slots. *)

(* The slot of a client that has an id, and how much of the file is in it. *)
LEMMA ClientSlot ==
  ASSUME TypeOK, InductiveInv, NEW c \in Clients, HasId(c)
  PROVE  /\ id_num[c] \in Slots /\ ConnOf(c).src_addr = c /\ InUse(ConnOf(c), id_num[c])
         /\ Stored(c) \in Nat
         /\ BoundariesDistinct => /\ ConnOf(c).myfile = Payload(c, 0, Stored(c))
                                  /\ Stored(c) \in Boundaries(c) \cup {0}
<1>1. id_num[c] \in Slots /\ ConnOf(c).src_addr = c
  BY DEF InductiveInv, ClientInv, ClientInvAt, OwnsSlot
<1>2. InUse(ConnOf(c), id_num[c])
  BY <1>1, AddrAssumption DEF InductiveInv, SlotInv, ConnOf, Unused
<1>3. ConnOf(c).myfile \in Seq(Byte)
  <2>1. all_connection[id_num[c]] \in connection_info
    BY <1>1 DEF TypeOK
  <2>. QED BY <2>1 DEF connection_info, ConnOf
<1>4. Stored(c) \in Nat
  BY <1>3 DEF Stored
<1>. QED BY <1>1, <1>2, <1>4 DEF InUse, HoldsPrefix, Stored

(* Clients with an id, and where they are in the program. *)
LEMMA ClientWithId ==
  ASSUME InductiveInv, NEW c \in Clients
  PROVE  /\ phase[c] \in Connected => HasId(c)
         /\ phase[c] \in {"top", "recv"} => DataInv(c) /\ HasId(c)
         /\ phase[c] \in {"start", "synwait"} => ~HasId(c)
         /\ phase[c] \in {"start", "synwait", "open"} => file_pos[c] = 0 /\ CWND_logs[c] = <<>>
BY DEF InductiveInv, ClientInv, ClientInvAt, Connected, HasId

(* A boundary lies within the file. *)
LEMMA BoundaryIn ==
  ASSUME NEW c \in Clients, NEW p \in Boundaries(c)
  PROVE  FileLen[c] \in Nat /\ p \in Nat /\ p <= FileLen[c]
<1>1. FileLen[c] \in Nat \cup {-1}
  BY FileLenAssumption
<1>2. p \in 0..FileLen[c]
  BY DEF Boundaries
<1>. QED BY <1>1, <1>2

(* A slot with all the bytes of a file holds the file. *)
LEMMA WholeFile ==
  ASSUME TypeOK, InductiveInv, BoundariesDistinct, NEW c \in Clients, HasId(c),
         FileLen[c] \in Nat, FileLen[c] <= Stored(c)
  PROVE  ConnOf(c).myfile = Payload(c, 0, FileLen[c])
<1>1. /\ Stored(c) \in Nat /\ ConnOf(c).myfile = Payload(c, 0, Stored(c))
      /\ Stored(c) \in Boundaries(c) \cup {0}
  BY ClientSlot
<1>2. Stored(c) <= FileLen[c]
  BY <1>1, BoundaryIn
<1>3. Stored(c) = FileLen[c]
  BY <1>1, <1>2
<1>. QED BY <1>1, <1>3

(* The logs of a client in the data loop are what the lemmas on logs ask for. *)
LEMMA ClientLogged ==
  ASSUME TypeOK, InductiveInv, NEW c \in Clients, phase[c] \in {"top", "recv"}
  PROVE  Logged(c, CWND_logs[c]) /\ file_pos[c] \in Boundaries(c) /\ file_pos[c] \in Nat
<1>1. DataInv(c)
  BY ClientWithId
<1>2. file_pos[c] \in Nat /\ CWND_logs[c] \in Seq(logger)
  BY ClientFunctions
<1>. QED BY <1>1, <1>2 DEF DataInv, Logged

-----------------------------------------------------------------------------
(* DeliveryInv, one part at a time. *)

(* What DeliveryInv says of a packet, and of a client that has left the data loop. *)
PacketTrue(m) ==
    /\ m.dst = Server /\ m.flags = FIN => phase[m.src] \in FinSent
    /\ m.dst \in Clients => /\ m.flags = ACK => Confirms(m)
                            /\ m.flags = hton16(SYN) => m.ack = 0

Complete(c) == phase[c] \in Finished => ConnOf(c).myfile = Payload(c, 0, FileLen[c])

(* DeliveryInv is what its parts say of every packet and of every client. *)
LEMMA DeliveryParts ==
  DeliveryInv <=>
    /\ WindowInv /\ OneCopy
    /\ \A m \in net : PacketTrue(m)
    /\ \A c \in Clients : HasId(c) /\ ConnOf(c).is_FIN = 1 => phase[c] \in FinSent
    /\ \A c \in Clients : SenderInv(c) /\ Complete(c)
BY DEF DeliveryInv, FinLast, AcksTrue, PacketTrue, FinishedComplete, Complete

(* A step of a client keeps DeliveryInv if the client and its new packets do their part. *)
LEMMA DeliveryClient ==
  ASSUME TypeOK, InductiveInv, DeliveryInv, InductiveInv', WindowInv', NEW c \in Clients, ClientFrame(c),
         SenderInv(c)', Complete(c)', \A m \in net' : m \in net \/ PacketTrue(m)'
  PROVE  DeliveryInv'
<1>1. ASSUME NEW d \in Clients
      PROVE  /\ HasId(d) => id_num'[d] = id_num[d]
             /\ phase[d] \in FinSent => phase'[d] \in FinSent
  <2>1. CASE d = c
    BY <2>1, ClientWithId DEF ClientFrame
  <2>2. CASE d # c
    BY <2>2 DEF ClientFrame, Untouched
  <2>. QED BY <2>1, <2>2
<1>2. UNCHANGED all_connection
  BY DEF ClientFrame
<1>3. ASSUME NEW d \in Clients, HasId(d) PROVE HasId(d)' /\ ConnOf(d)' = ConnOf(d)
  BY <1>1, <1>2, <1>3 DEF HasId, ConnOf
<1>4. OneCopy'
  <2>1. ASSUME NEW i \in Slots, all_connection[i].myfile # <<>> \/ all_connection[i].is_FIN = 1
        PROVE  id_num'[all_connection[i].src_addr] = i
    <3>1. all_connection[i].src_addr \in Clients
      BY <2>1 DEF InductiveInv, SlotInv, InUse, Unused
    <3>2. id_num[all_connection[i].src_addr] = i
      BY <2>1, DeliveryParts DEF OneCopy
    <3>3. i # 0
      BY SlotsAssumption DEF Slots
    <3>. QED BY <1>1, <3>1, <3>2, <3>3 DEF HasId
  <2>. QED BY <1>2, <2>1 DEF OneCopy
<1>5. ASSUME NEW d \in Clients, HasId(d)', ConnOf(d)'.is_FIN = 1 PROVE phase'[d] \in FinSent
  <2>1. id_num'[d] \in Slots /\ all_connection[id_num'[d]].src_addr = d
    BY <1>2, <1>5 DEF InductiveInv, ClientInv, ClientInvAt, OwnsSlot, ConnOf
  <2>2. id_num[d] = id_num'[d]
    BY <1>2, <1>5, <2>1, DeliveryParts DEF OneCopy, ConnOf
  <2>3. phase[d] \in FinSent
    BY <1>2, <1>5, <2>2, DeliveryParts DEF HasId, ConnOf
  <2>. QED BY <1>1, <2>3
<1>6. ASSUME NEW m \in net, PacketTrue(m) PROVE PacketTrue(m)'
  <2>1. m.dst = Server => m.src \in Clients
    BY DEF InductiveInv, NetInv, PacketInv, ToServer
  <2>2. m.dst \in Clients /\ Confirms(m) => Confirms(m)'
    BY <1>3 DEF Confirms, Stored
  <2>. QED BY <1>1, <1>6, <2>1, <2>2 DEF PacketTrue
<1>7. ASSUME NEW d \in Clients PROVE SenderInv(d)' /\ Complete(d)'
  <2>1. CASE d = c
    BY <2>1
  <2>2. CASE d # c
    <3>1. Untouched(d) /\ ConnOf(d)' = ConnOf(d)
      BY <1>2, <2>2 DEF ClientFrame, Untouched, ConnOf
    <3>2. SenderInv(d) /\ Complete(d)
      BY DeliveryParts
    <3>3. SenderInv(d)'
      BY <3>1, <3>2 DEF SenderInv, Untouched, Stored, LogsCover, LogEnd, ReadLen
    <3>4. Complete(d)'
      BY <3>1, <3>2 DEF Complete, Untouched
    <3>. QED BY <3>3, <3>4
  <2>. QED BY <2>1, <2>2
<1>8. \A m \in net' : PacketTrue(m)'
  BY <1>6, DeliveryParts
<1>9. \A d \in Clients : HasId(d)' /\ ConnOf(d)'.is_FIN = 1 => phase'[d] \in FinSent
  BY <1>5
<1>10. \A d \in Clients : SenderInv(d)' /\ Complete(d)'
  BY <1>7
<1>. QED BY <1>4, <1>8, <1>9, <1>10, DeliveryParts
         DEF DeliveryInv, FinLast, AcksTrue, PacketTrue, FinishedComplete, Complete

(* A step of the server keeps DeliveryInv if no slot loses bytes and its new packets are true. *)
LEMMA DeliveryServer ==
  ASSUME TypeOK, InductiveInv, DeliveryInv, UNCHANGED clientVars, OneCopy',
         \A d \in Clients : HasId(d) =>
            /\ Stored(d)' \in Nat /\ Stored(d) <= Stored(d)'
            /\ ConnOf(d).is_FIN = 1 => ConnOf(d)'.is_FIN = 1
            /\ ConnOf(d)'.is_FIN = 1 => phase[d] \in FinSent
            /\ phase[d] \in Finished => ConnOf(d)'.myfile = ConnOf(d).myfile,
         \A m \in net' : m \in net \/ PacketTrue(m)'
  PROVE  DeliveryInv'
<1>1. /\ phase' = phase /\ id_num' = id_num /\ CWND_logs' = CWND_logs /\ file_pos' = file_pos
      /\ eof' = eof /\ CWND' = CWND /\ CWND_space' = CWND_space
  BY DEF clientVars
<1>2. WindowInv'
  BY <1>1, DeliveryParts DEF WindowInv, NeverBlocked
<1>3. ASSUME NEW m \in net PROVE PacketTrue(m)'
  <2>1. PacketTrue(m)
    BY DeliveryParts
  <2>2. ASSUME m.dst \in Clients, Confirms(m) PROVE Confirms(m)'
    <3>1. HasId(m.dst) /\ HasId(m.dst)'
      BY <1>1, <2>2 DEF Confirms, HasId
    <3>2. CASE ConnOf(m.dst).is_FIN = 1
      BY <2>2, <3>1, <3>2 DEF Confirms
    <3>3. CASE \E q \in Boundaries(m.dst) : q <= Stored(m.dst) /\ m.ack = SeqAt(q)
      <4>1. PICK q \in Boundaries(m.dst) : q <= Stored(m.dst) /\ m.ack = SeqAt(q)
        BY <3>3
      <4>2. q \in Nat /\ Stored(m.dst) \in Nat /\ Stored(m.dst)' \in Nat /\ Stored(m.dst) <= Stored(m.dst)'
        BY <2>2, <3>1, BoundaryIn, ClientSlot
      <4>3. q <= Stored(m.dst)'
        BY <4>1, <4>2
      <4>. QED BY <3>1, <4>1, <4>3 DEF Confirms
    <3>. QED BY <2>2, <3>2, <3>3 DEF Confirms
  <2>. QED BY <1>1, <2>1, <2>2 DEF PacketTrue
<1>4. ASSUME NEW d \in Clients PROVE SenderInv(d)' /\ Complete(d)'
  <2>1. SenderInv(d) /\ Complete(d)
    BY DeliveryParts
  <2>2. SenderInv(d)'
    <3>1. CASE phase[d] \in {"top", "recv"}
      <4>1. HasId(d) /\ Logged(d, CWND_logs[d]) /\ file_pos[d] \in Nat
        BY <3>1, ClientWithId, ClientLogged
      <4>2. Stored(d) \in Nat /\ Stored(d)' \in Nat /\ Stored(d) <= Stored(d)'
        BY <4>1, ClientSlot
      <4>3. LogsCover(d, CWND_logs[d], file_pos[d], Stored(d))
        BY <2>1, <3>1 DEF SenderInv
      <4>4. LogsCover(d, CWND_logs[d], file_pos[d], Stored(d)')
        BY <4>1, <4>2, <4>3, CoverMore
      <4>5. LogsCover(d, CWND_logs[d], file_pos[d], Stored(d))'
        BY <1>1, <4>4 DEF LogsCover, LogEnd, ReadLen
      <4>. QED BY <1>1, <2>1, <4>5 DEF SenderInv
    <3>2. CASE phase[d] \notin {"top", "recv"}
      BY <1>1, <2>1, <3>2 DEF SenderInv
    <3>. QED BY <3>1, <3>2
  <2>3. Complete(d)'
    <3>1. phase[d] \in Finished => HasId(d)
      BY ClientWithId DEF Connected, Finished
    <3>. QED BY <1>1, <2>1, <3>1 DEF Complete
  <2>. QED BY <2>2, <2>3
<1>5. ASSUME NEW d \in Clients, HasId(d)', ConnOf(d)'.is_FIN = 1 PROVE phase'[d] \in FinSent
  <2>1. HasId(d)
    BY <1>1, <1>5 DEF HasId
  <2>. QED BY <1>1, <1>5, <2>1
<1>6. \A m \in net' : PacketTrue(m)'
  BY <1>3
<1>. QED BY <1>2, <1>4, <1>5, <1>6
         DEF DeliveryInv, FinLast, AcksTrue, PacketTrue, FinishedComplete, Complete

(* The server changes the slot of client c, in which it has every byte it had, and no other. *)
LEMMA DeliverySlot ==
  ASSUME TypeOK, InductiveInv, DeliveryInv, UNCHANGED clientVars, NEW c \in Clients, HasId(c), NEW con,
         all_connection' = [all_connection EXCEPT ![id_num[c]] = con],
         con.src_addr = c, Len(con.myfile) \in Nat, Stored(c) <= Len(con.myfile),
         ConnOf(c).is_FIN = 1 => con.is_FIN = 1,
         con.is_FIN = 1 => phase[c] \in FinSent,
         phase[c] \in Finished => con.myfile = ConnOf(c).myfile,
         \A m \in net' : m \in net \/ PacketTrue(m)'
  PROVE  DeliveryInv'
<1>1. id_num[c] \in Slots /\ id_num' = id_num /\ all_connection \in [Slots -> connection_info]
  BY ClientSlot DEF clientVars, TypeOK
<1>2. \A i \in Slots : all_connection'[i] = IF i = id_num[c] THEN con ELSE all_connection[i]
  BY <1>1
<1>3. ConnOf(c)' = con
  BY <1>1, <1>2 DEF ConnOf
<1>4. \A d \in Clients : HasId(d) /\ d # c => ConnOf(d)' = ConnOf(d)
  <2>1. ASSUME NEW d \in Clients, HasId(d), d # c PROVE id_num[d] # id_num[c] /\ id_num[d] \in Slots
    BY <2>1, ClientSlot DEF ConnOf
  <2>. QED BY <1>1, <1>2, <2>1 DEF ConnOf
<1>5. OneCopy'
  <2>1. ASSUME NEW i \in Slots, all_connection'[i].myfile # <<>> \/ all_connection'[i].is_FIN = 1
        PROVE  id_num[all_connection'[i].src_addr] = i
    <3>1. CASE i = id_num[c]
      BY <1>2, <3>1
    <3>2. CASE i # id_num[c]
      BY <1>2, <2>1, <3>2, DeliveryParts DEF OneCopy
    <3>. QED BY <3>1, <3>2
  <2>. QED BY <1>1, <2>1 DEF OneCopy
<1>6. ASSUME NEW d \in Clients, HasId(d)
      PROVE  /\ Stored(d)' \in Nat /\ Stored(d) <= Stored(d)'
             /\ ConnOf(d).is_FIN = 1 => ConnOf(d)'.is_FIN = 1
             /\ ConnOf(d)'.is_FIN = 1 => phase[d] \in FinSent
             /\ phase[d] \in Finished => ConnOf(d)'.myfile = ConnOf(d).myfile
  <2>1. CASE d = c
    BY <1>3, <2>1 DEF Stored
  <2>2. CASE d # c
    <3>1. ConnOf(d)' = ConnOf(d) /\ Stored(d) \in Nat
      BY <1>4, <1>6, <2>2, ClientSlot
    <3>2. ConnOf(d).is_FIN = 1 => phase[d] \in FinSent
      BY <1>6, DeliveryParts
    <3>3. Stored(d)' = Stored(d)
      BY <3>1 DEF Stored
    <3>. QED BY <3>1, <3>2, <3>3
  <2>. QED BY <2>1, <2>2
<1>. QED BY <1>5, <1>6, DeliveryServer

(* No slot and no client changes. *)
LEMMA DeliveryIdle ==
  ASSUME TypeOK, InductiveInv, DeliveryInv, UNCHANGED <<all_connection, clientVars>>,
         \A m \in net' : m \in net \/ PacketTrue(m)'
  PROVE  DeliveryInv'
<1>1. UNCHANGED <<phase, id_num>> /\ UNCHANGED clientVars
  BY DEF clientVars
<1>2. OneCopy'
  BY <1>1, DeliveryParts DEF OneCopy
<1>3. ASSUME NEW d \in Clients, HasId(d)
      PROVE  /\ Stored(d)' \in Nat /\ Stored(d) <= Stored(d)'
             /\ ConnOf(d).is_FIN = 1 => ConnOf(d)'.is_FIN = 1
             /\ ConnOf(d)'.is_FIN = 1 => phase[d] \in FinSent
             /\ phase[d] \in Finished => ConnOf(d)'.myfile = ConnOf(d).myfile
  <2>1. ConnOf(d)' = ConnOf(d) /\ Stored(d)' = Stored(d) /\ Stored(d) \in Nat
    BY <1>1, <1>3, ClientSlot DEF ConnOf, Stored
  <2>2. ConnOf(d).is_FIN = 1 => phase[d] \in FinSent
    BY <1>3, DeliveryParts
  <2>. QED BY <2>1, <2>2
<1>. QED BY <1>1, <1>2, <1>3, DeliveryServer

-----------------------------------------------------------------------------
(* The handlers of the server. *)

(* A zero reads as zero whatever its byte order. *)
LEMMA HtonZero == hton32(0) = 0
<1>1. 0 % 256 = 0 /\ 0 \div 256 = 0 /\ 0 % 65536 = 0 /\ 0 \div 65536 = 0
  OBVIOUS
<1>2. hton16(0) = 0
  BY <1>1 DEF hton16
<1>. QED BY <1>1, <1>2 DEF hton32

(* The echo of a SYN acknowledges nothing. *)
LEMMA EchoTrue ==
  ASSUME TypeOK, InductiveInv, NEW m \in Inbox(Server), m.flags = SYN, NEW k \in Slots,
         InUseFor(k, m), NEW q, q = EchoOf(m, all_connection[k])
  PROVE  PacketTrue(q)'
<1>1. PacketInv(m) /\ m.dst = Server
  BY DEF InductiveInv, NetInv, Inbox
<1>2. IsSyn(m)
  BY <1>1 DEF PacketInv, ToServer, IsChunk, IsLastAck, SYN, ACK, FIN
<1>3. q.ack = 0 /\ q.flags = 512
  BY <1>2, HtonZero, EchoFlags DEF EchoOf, IsSyn
<1>4. q.flags # ACK /\ q.flags # FIN
  BY <1>3 DEF ACK, FIN
<1>. QED BY <1>3, <1>4 DEF PacketTrue

(* A new connection takes a slot that held nothing. *)
LEMMA DeliveryRecvSyn ==
  ASSUME TypeOK, InductiveInv, DeliveryInv, NEW m \in Inbox(Server), AtServer(RecvSyn(m))
  PROVE  DeliveryInv'
<1>1. UNCHANGED clientVars /\ m.flags = SYN
  BY DEF AtServer, RecvSyn
<1>2. \A d \in Clients : HasId(d) /\ ConnOf(d).is_FIN = 1 => phase[d] \in FinSent
  BY DeliveryParts
<1>3. ASSUME NEW i \in FirstFree(m), AcceptSyn(m, i) PROVE DeliveryInv'
  <2> DEFINE con == NewConnection(i, m)
  <2>1. i \in Slots /\ FreeFor(i, m) /\ 1..(i-1) \subseteq Slots /\ i # 0
    BY SlotsAssumption DEF FirstFree, Slots
  <2>2. /\ all_connection' = [all_connection EXCEPT ![i] = con]
        /\ Deliver(m, Echoes(m, 1..(i-1)) \cup {SynAckOf(con)})
    BY <1>3 DEF AcceptSyn
  <2>3. Unused(all_connection[i]) /\ all_connection[i] \in connection_info
    BY <2>1 DEF FreeFor, InductiveInv, SlotInv, InUse, TypeOK
  <2>4. con.myfile = <<>> /\ con.is_FIN = 0
    BY <2>3 DEF NewConnection, Unused, connection_info
  <2>5. SynAckOf(con).flags = SYN_ACK
    BY DEF SynAckOf, Reply
  <2> HIDE DEF con
  <2>6. \A j \in Slots : all_connection'[j] = IF j = i THEN con ELSE all_connection[j]
    BY <2>2 DEF TypeOK
  <2>7. OneCopy'
    <3>1. ASSUME NEW j \in Slots, all_connection'[j].myfile # <<>> \/ all_connection'[j].is_FIN = 1
          PROVE  id_num'[all_connection'[j].src_addr] = j
      <4>1. j # i
        BY <2>4, <2>6, <3>1
      <4>. QED BY <1>1, <2>6, <3>1, <4>1, DeliveryParts DEF OneCopy, clientVars
    <3>. QED BY <3>1 DEF OneCopy
  <2>8. ASSUME NEW d \in Clients, HasId(d) PROVE ConnOf(d)' = ConnOf(d) /\ Stored(d)' = Stored(d) /\ Stored(d) \in Nat
    <3>1. id_num[d] \in Slots /\ ConnOf(d).src_addr = d /\ Stored(d) \in Nat
      BY <2>8, ClientSlot
    <3>2. id_num[d] # i
      BY <2>3, <3>1, AddrAssumption DEF ConnOf, Unused
    <3>3. ConnOf(d)' = ConnOf(d)
      BY <1>1, <2>6, <3>1, <3>2 DEF ConnOf, clientVars
    <3>. QED BY <3>1, <3>3 DEF Stored
  <2>9. ASSUME NEW q \in net' PROVE q \in net \/ PacketTrue(q)'
    <3>1. q \in net \/ q \in Echoes(m, 1..(i-1)) \/ q = SynAckOf(con)
      BY <2>2, DeliverNet
    <3>2. CASE q \in Echoes(m, 1..(i-1))
      <4>1. PICK k \in Slots : InUseFor(k, m) /\ q = EchoOf(m, all_connection[k])
        BY <2>1, <3>2 DEF Echoes
      <4>. QED BY <1>1, <4>1, EchoTrue
    <3>3. CASE q = SynAckOf(con)
      <4>1. q.flags # ACK /\ q.flags # FIN /\ q.flags # hton16(SYN)
        BY <2>5, <3>3, EchoFlags DEF SYN_ACK, ACK, FIN
      <4>. QED BY <4>1 DEF PacketTrue
    <3>. QED BY <3>1, <3>2, <3>3
  <2>. QED
    <3>1. ASSUME NEW d \in Clients, HasId(d)
          PROVE  /\ Stored(d)' \in Nat /\ Stored(d) <= Stored(d)'
                 /\ ConnOf(d).is_FIN = 1 => ConnOf(d)'.is_FIN = 1
                 /\ ConnOf(d)'.is_FIN = 1 => phase[d] \in FinSent
                 /\ phase[d] \in Finished => ConnOf(d)'.myfile = ConnOf(d).myfile
      <4>1. ConnOf(d)' = ConnOf(d) /\ Stored(d)' = Stored(d) /\ Stored(d) \in Nat
        BY <2>8, <3>1
      <4>2. ConnOf(d).is_FIN = 1 => phase[d] \in FinSent
        BY <1>2, <3>1
      <4>. QED BY <4>1, <4>2
    <3>. QED BY <1>1, <2>7, <2>9, <3>1, DeliveryServer
<1>4. ASSUME RefuseSyn(m) PROVE DeliveryInv'
  <2>1. UNCHANGED all_connection /\ Deliver(m, Echoes(m, Slots))
    BY <1>4 DEF RefuseSyn
  <2>2. ASSUME NEW q \in net' PROVE q \in net \/ PacketTrue(q)'
    <3>1. q \in net \/ q \in Echoes(m, Slots)
      BY <2>1, DeliverNet
    <3>2. CASE q \in Echoes(m, Slots)
      <4>1. PICK k \in Slots : InUseFor(k, m) /\ q = EchoOf(m, all_connection[k])
        BY <3>2 DEF Echoes
      <4>. QED BY <1>1, <4>1, EchoTrue
    <3>. QED BY <3>1, <3>2
  <2>. QED BY <1>1, <2>1, <2>2, DeliveryIdle
<1>. QED BY <1>3, <1>4 DEF RecvSyn, AtServer

(* The data handler: what is acknowledged is in the file, and only prefixes are. *)
LEMMA DeliveryRecvData ==
  ASSUME TypeOK, InductiveInv, DeliveryInv, BoundariesDistinct, NEW m \in Inbox(Server), AtServer(RecvData(m))
  PROVE  DeliveryInv'
<1>1. UNCHANGED clientVars /\ m.flags \in {ACK, 0} /\ m.flags # SYN /\ m.flags # FIN /\ m \in packet
  BY DEF AtServer, RecvData, ACK, SYN, FIN, TypeOK, Inbox
<1>2. ASSUME NEW i \in FirstMatch(m)
      PROVE  /\ m.src \in Clients /\ HasId(m.src) /\ id_num[m.src] = i
             /\ all_connection[i] = ConnOf(m.src) /\ all_connection[i] \in connection_info
             /\ all_connection[i].src_addr = m.src /\ i \in Slots /\ InUse(all_connection[i], i)
             /\ IsChunk(m) \/ IsLastAck(m)
             /\ ConnOf(m.src).is_FIN = 1 => phase[m.src] \in FinSent
  <2>1. /\ i \in Slots /\ InUse(all_connection[i], i) /\ m.src \in Clients /\ FromConnected(m)
        /\ id_num[m.src] = i /\ all_connection[i].src_addr = m.src
        /\ IsChunk(m) \/ IsLastAck(m)
    BY <1>1, MatchedSlot
  <2>2. all_connection[i] = ConnOf(m.src) /\ HasId(m.src) /\ all_connection[i] \in connection_info
    BY <2>1 DEF ConnOf, FromConnected, TypeOK
  <2>. QED BY <2>1, <2>2, DeliveryParts
<1>3. ASSUME NEW i \in FirstMatch(m), CloseFile(m, i) PROVE DeliveryInv'
  <2> DEFINE con == [all_connection[i] EXCEPT !.is_open = FALSE]
             c == m.src
  <2>1. all_connection' = [all_connection EXCEPT ![id_num[c]] = con] /\ Deliver(m, {})
    BY <1>2, <1>3 DEF CloseFile
  <2>2. con.src_addr = c /\ con.myfile = ConnOf(c).myfile /\ con.is_FIN = ConnOf(c).is_FIN
    BY <1>2 DEF connection_info
  <2>3. c \in Clients /\ HasId(c) /\ (ConnOf(c).is_FIN = 1 => phase[c] \in FinSent)
    BY <1>2
  <2>4. \A q \in net' : q \in net
    BY <2>1, DeliverNet
  <2> HIDE DEF con, c
  <2>5. Len(con.myfile) \in Nat /\ Stored(c) <= Len(con.myfile)
    BY <2>2, <2>3, ClientSlot DEF Stored
  <2>. QED BY <1>1, <2>1, <2>2, <2>3, <2>4, <2>5, DeliverySlot
<1>4. ASSUME NEW i \in FirstMatch(m), all_connection[i].is_FIN # 1, Acknowledge(m, i)
      PROVE  DeliveryInv'
  <2> DEFINE old == all_connection[i]
             c == m.src
  <2>0. PICK con : con = AfterData(old, m)
    OBVIOUS
  <2>1. /\ c \in Clients /\ HasId(c) /\ id_num[c] = i /\ i \in Slots /\ old = ConnOf(c)
        /\ old \in connection_info /\ old.is_FIN = 0 /\ old.src_addr = c /\ InUse(old, i)
    BY <1>2, <1>4 DEF connection_info
  <2>2. IsChunk(m)
    BY <1>2, <2>1 DEF IsLastAck
  <2>3. all_connection' = [all_connection EXCEPT ![id_num[c]] = con] /\ Deliver(m, {AckOf(con)})
    BY <1>4, <2>0, <2>1 DEF Acknowledge
  <2>4. /\ con.src_addr = c /\ con.is_FIN = 0
        /\ con.myfile = Written(old, m)
    BY <2>0, <2>1 DEF AfterData, connection_info
  <2>5. InUse(con, i)
    BY <1>1, <2>0, <2>1, <2>2, ChunkWritten
  <2>6. /\ AckOf(con).dst = c /\ AckOf(con).flags = ACK /\ AckOf(con).ack = con.ack
    BY <2>4 DEF AckOf, Reply
  <2> DEFINE n == Len(con.myfile)
  <2>7. /\ n \in Boundaries(c) /\ n \in Nat /\ con.myfile = Payload(c, 0, n) /\ con.ack = SeqAt(n)
    <3>1. n \in Boundaries(c) \cup {0} /\ con.myfile = Payload(c, 0, n) /\ con.ack = SeqAt(n)
      BY <2>4, <2>5 DEF InUse, HoldsPrefix
    <3>2. PICK p \in Boundaries(c) : TRUE
      BY <2>2 DEF IsChunk
    <3>3. 0 \in Boundaries(c)
      BY <2>1, <3>2, ZeroBoundary
    <3>. QED BY <2>1, <3>1, <3>3, BoundaryIn
  <2>8. Stored(c) <= n
    <3>1. CASE InOrder(old, m)
      <4>1. old.myfile \in Seq(Byte) /\ m.data \in Seq(Byte) /\ con.myfile = old.myfile \o m.data
        BY <1>1, <2>1, <2>4, <3>1 DEF Written, connection_info, packet
      <4>2. PICK a \in Nat, b \in Nat : Len(old.myfile) = a /\ Len(m.data) = b
        BY <4>1, LenProperties
      <4>3. Len(con.myfile) = a + b
        BY <4>1, <4>2, ConcatProperties
      <4>4. Stored(c) = a
        BY <2>1, <4>2 DEF Stored
      <4>5. a <= a + b
        BY <4>2
      <4>. QED BY <4>3, <4>4, <4>5
    <3>2. CASE ~InOrder(old, m)
      <4>1. con.myfile = old.myfile
        BY <2>4, <3>2 DEF Written
      <4>. QED BY <2>1, <2>7, <4>1 DEF Stored
    <3>. QED BY <3>1, <3>2
  <2>9. phase[c] \in Finished => con.myfile = ConnOf(c).myfile
    <3>1. SUFFICES ASSUME phase[c] \in Finished PROVE con.myfile = ConnOf(c).myfile
      OBVIOUS
    <3>2. ConnOf(c).myfile = Payload(c, 0, FileLen[c])
      BY <2>1, <3>1, DeliveryParts DEF Complete
    <3>3. FileLen[c] \in Nat /\ n <= FileLen[c]
      BY <2>1, <2>7, BoundaryIn
    <3>4. Len(Payload(c, 0, FileLen[c])) = FileLen[c]
      BY <2>1, <3>3, PayloadSeq
    <3>5. n = FileLen[c]
      BY <2>7, <2>8, <3>2, <3>3, <3>4 DEF Stored
    <3>. QED BY <2>7, <3>2, <3>5
  <2> HIDE DEF c, n, old
  <2>10. con.myfile = Payload(c, 0, n) /\ n = Len(con.myfile)
    BY <2>7 DEF n
  <2>11. ConnOf(c)' = con /\ id_num' = id_num
    BY <1>1, <2>1, <2>3 DEF ConnOf, clientVars, TypeOK
  <2>12. PacketTrue(AckOf(con))'
    <3>1. Confirms(AckOf(con))'
      <4>1. HasId(c)' /\ Stored(c)' = n
        BY <2>1, <2>10, <2>11 DEF HasId, Stored
      <4>2. \E q \in Boundaries(c) : q <= Stored(c)' /\ AckOf(con).ack = SeqAt(q)
        BY <2>6, <2>7, <4>1
      <4>. QED BY <2>6, <4>1, <4>2 DEF Confirms
    <3>2. AckOf(con).flags # FIN /\ AckOf(con).flags # hton16(SYN)
      BY <2>6, EchoFlags DEF ACK, FIN
    <3>. QED BY <3>1, <3>2 DEF PacketTrue
  <2>13. \A q \in net' : q \in net \/ PacketTrue(q)'
    BY <2>3, <2>12, DeliverNet
  <2>14. Len(con.myfile) \in Nat /\ Stored(c) <= Len(con.myfile)
    BY <2>7, <2>8, <2>10
  <2>15. (ConnOf(c).is_FIN = 1 => con.is_FIN = 1) /\ (con.is_FIN = 1 => phase[c] \in FinSent)
    BY <2>1, <2>4
  <2>. QED BY <1>1, <2>1, <2>3, <2>4, <2>9, <2>13, <2>14, <2>15, DeliverySlot
<1>5. ASSUME Ignore(m) PROVE DeliveryInv'
  <2>1. UNCHANGED all_connection /\ \A q \in net' : q \in net
    BY <1>5, DeliverNet DEF Ignore
  <2>. QED BY <1>1, <2>1, DeliveryIdle
<1>. QED BY <1>3, <1>4, <1>5 DEF RecvData, AtServer

(* The FIN handler: the client has left the data loop, so its file is finished. *)
LEMMA DeliveryRecvFin ==
  ASSUME TypeOK, InductiveInv, DeliveryInv, NEW m \in Inbox(Server), AtServer(RecvFin(m))
  PROVE  DeliveryInv'
<1>1. UNCHANGED clientVars /\ m.flags = FIN /\ m.flags # SYN
  BY DEF AtServer, RecvFin, SYN, FIN
<1>2. ASSUME NEW i \in FirstMatch(m), AnswerFin(m, i) PROVE DeliveryInv'
  <2> DEFINE c == m.src
  <2>0. PICK con : con = AfterFin(all_connection[i], m)
    OBVIOUS
  <2>1. /\ i \in Slots /\ id_num[c] = i /\ all_connection[i].src_addr = c /\ c \in Clients /\ HasId(c)
    BY <1>1, MatchedSlot DEF FromConnected
  <2>2. all_connection[i] = ConnOf(c) /\ all_connection[i] \in connection_info
    BY <2>1 DEF ConnOf, TypeOK
  <2>3. /\ all_connection' = [all_connection EXCEPT ![id_num[c]] = con]
        /\ Deliver(m, {AckOf(con), FinOf(con)})
    BY <1>2, <2>0, <2>1 DEF AnswerFin
  <2>4. con.src_addr = c /\ con.myfile = ConnOf(c).myfile /\ con.is_FIN = 1
    BY <2>0, <2>1, <2>2 DEF AfterFin, connection_info
  <2>5. phase[c] \in FinSent
    BY <1>1, DeliveryParts DEF PacketTrue, Inbox
  <2>6. /\ AckOf(con).dst = c /\ AckOf(con).flags = ACK /\ FinOf(con).dst = c /\ FinOf(con).flags = FIN
    BY <2>4 DEF AckOf, FinOf, Reply
  <2> HIDE DEF c
  <2>7. ConnOf(c)' = con /\ id_num' = id_num
    BY <1>1, <2>1, <2>3 DEF ConnOf, clientVars, TypeOK
  <2>8. PacketTrue(AckOf(con))'
    <3>1. Confirms(AckOf(con))'
      BY <2>1, <2>4, <2>6, <2>7 DEF Confirms, HasId
    <3>2. AckOf(con).flags # FIN /\ AckOf(con).flags # hton16(SYN)
      BY <2>6, EchoFlags DEF ACK, FIN
    <3>. QED BY <3>1, <3>2 DEF PacketTrue
  <2>9. PacketTrue(FinOf(con))'
    <3>1. FinOf(con).flags # ACK /\ FinOf(con).flags # hton16(SYN)
      BY <2>6, EchoFlags DEF ACK, FIN
    <3>2. FinOf(con).dst # Server
      BY <2>1, <2>6, AddrAssumption
    <3>. QED BY <3>1, <3>2 DEF PacketTrue
  <2>10. \A q \in net' : q \in net \/ PacketTrue(q)'
    BY <2>3, <2>8, <2>9, DeliverNet
  <2>11. Len(con.myfile) \in Nat /\ Stored(c) <= Len(con.myfile)
    BY <2>1, <2>4, ClientSlot DEF Stored
  <2>. QED BY <1>1, <2>1, <2>3, <2>4, <2>5, <2>10, <2>11, DeliverySlot
<1>3. ASSUME Ignore(m) PROVE DeliveryInv'
  <2>1. UNCHANGED all_connection /\ \A q \in net' : q \in net
    BY <1>3, DeliverNet DEF Ignore
  <2>. QED BY <1>1, <2>1, DeliveryIdle
<1>. QED BY <1>2, <1>3 DEF RecvFin, AtServer

-----------------------------------------------------------------------------
(* The steps of the clients. *)

(* Every packet of a client is a SYN, a chunk or the last ACK, or a FIN sent after the data loop. *)
LEMMA ClientSends ==
  ASSUME TypeOK, NEW c \in Clients,
         \/ AtClient(SendSyn(c)) \/ AtClient(SynTimeout(c)) \/ AtClient(Quiet(c))
         \/ AtClient(SendFin(c)) \/ AtClient(FinTimeout(c))
         \/ \E m \in Inbox(c) : \/ AtClient(HandshakeRecv(c, m)) \/ AtClient(DataRecv(c, m))
                                \/ AtClient(FinRecv(c, m)) \/ AtClient(TimeWaitRecv(c, m))
         \/ AtClient(OpenFile(c)) \/ AtClient(SendNext(c)) \/ AtClient(Retransmit(c))
  PROVE  \A q \in net' : q \in net \/ PacketTrue(q)'
<1>1. F[c] \in {0, ACK}
  BY DEF TypeOK
<1>2. ASSUME NEW q, q.dst = Server, q.flags # FIN PROVE PacketTrue(q)'
  BY <1>2, AddrAssumption DEF PacketTrue
<1>3. ASSUME NEW q, NEW seq, NEW ack, NEW id, NEW flags, NEW data, flags # FIN,
             q = set_header(c, seq, ack, id, flags, data)
      PROVE  PacketTrue(q)'
  BY <1>2, <1>3 DEF set_header
<1>4. SYN # FIN /\ ACK # FIN /\ F[c] # FIN
  BY <1>1 DEF SYN, ACK, FIN
<1>5. ASSUME NEW out, net' \subseteq net \cup out, \A q \in out : PacketTrue(q)'
      PROVE  \A q \in net' : q \in net \/ PacketTrue(q)'
  BY <1>5
<1>6. \A q : q = SynOf(c) => PacketTrue(q)'
  BY <1>3, <1>4 DEF SynOf
<1>7. \A q, seq, pos : q = ChunkOf(c, seq, pos) => PacketTrue(q)'
  BY <1>3, <1>4 DEF ChunkOf
<1>8. \A q : q = FinOfClient(c) /\ phase'[c] \in FinSent => PacketTrue(q)'
  <2> SUFFICES ASSUME NEW q, q = FinOfClient(c), phase'[c] \in FinSent PROVE PacketTrue(q)'
    OBVIOUS
  <2>1. q.dst = Server /\ q.src = c
    BY DEF FinOfClient, set_header
  <2>. QED BY <2>1, AddrAssumption DEF PacketTrue
<1>9. ASSUME NEW m, LastAck(c, m) PROVE \A q \in net' : q \in net \/ PacketTrue(q)'
  <2>1. PICK q : q = set_header(c, seq_num[c], m.seq + 1, id_num[c], ACK, Padding)
    OBVIOUS
  <2>2. PacketTrue(q)'
    BY <1>3, <1>4, <2>1
  <2>3. net' \subseteq net \cup {q}
    BY <1>9, <2>1, DeliverNet DEF LastAck
  <2>. QED BY <2>2, <2>3
<1>10. CASE AtClient(SendSyn(c)) \/ AtClient(SynTimeout(c))
  <2>1. net' = net \cup {SynOf(c)}
    BY <1>10 DEF AtClient, SendSyn, SynTimeout, Send, Expire
  <2>. QED BY <1>6, <2>1
<1>11. CASE AtClient(Quiet(c)) \/ AtClient(OpenFile(c))
  <2>1. net' = net
    BY <1>11 DEF AtClient, Quiet, HandshakeGiveUp, SkipSend, DataIdle, DataGiveUp, FinGiveUp,
                 TimeWaitEnd, OpenFile, netVars
  <2>. QED BY <2>1
<1>12. CASE AtClient(SendFin(c)) \/ AtClient(FinTimeout(c))
  <2>1. net' = net \cup {FinOfClient(c)}
    BY <1>12 DEF AtClient, SendFin, FinTimeout, Send, Expire
  <2>2. phase'[c] = "finwait"
    BY <1>12, ClientFunctions DEF AtClient, SendFin, FinTimeout, Goto, clientVars
  <2>. QED BY <1>8, <2>1, <2>2 DEF FinSent
<1>13. ASSUME NEW m \in Inbox(c), AtClient(HandshakeRecv(c, m))
       PROVE  \A q \in net' : q \in net \/ PacketTrue(q)'
  <2>1. net' \subseteq net \cup {SynOf(c)}
    BY <1>13, DeliverNet DEF AtClient, HandshakeRecv, Established
  <2>. QED BY <1>6, <2>1
<1>14. ASSUME NEW m \in Inbox(c), AtClient(DataRecv(c, m)) PROVE net' \subseteq net
  BY <1>14, DataRecvStep
<1>15. ASSUME NEW m \in Inbox(c), AtClient(FinRecv(c, m)) \/ AtClient(TimeWaitRecv(c, m))
       PROVE  \A q \in net' : q \in net \/ PacketTrue(q)'
  <2>1. LastAck(c, m) \/ Deliver(m, {})
    BY <1>15 DEF AtClient, FinRecv, TimeWaitRecv
  <2>2. Deliver(m, {}) => net' \subseteq net
    BY DeliverNet
  <2>. QED BY <1>9, <2>1, <2>2
<1>16. CASE AtClient(SendNext(c)) \/ AtClient(Retransmit(c))
  <2>1. \E seq, pos : net' = net \cup {ChunkOf(c, seq, pos)}
    BY <1>16 DEF AtClient, SendNext, Retransmit, Send, Expire
  <2>. QED BY <1>7, <2>1
<1>. QED BY <1>10, <1>11, <1>12, <1>13, <1>14, <1>15, <1>16

(* A client at the end of its file without logs has everything delivered. *)
LEMMA LoopEnd ==
  ASSUME TypeOK, InductiveInv, BoundariesDistinct, NEW c \in Clients, phase[c] \in {"top", "recv"},
         file_pos[c] = FileLen[c], LogsCover(c, <<>>, file_pos[c], Stored(c))
  PROVE  ConnOf(c).myfile = Payload(c, 0, FileLen[c])
<1>1. HasId(c) /\ file_pos[c] \in Nat
  BY ClientWithId, ClientFunctions
<1>2. FileLen[c] \in Nat /\ FileLen[c] <= Stored(c)
  BY <1>1 DEF LogsCover
<1>. QED BY <1>1, <1>2, WholeFile

(* A step that only moves the thread. *)
LEMMA DeliveryMove ==
  ASSUME TypeOK, InductiveInv, DeliveryInv, BoundariesDistinct, NEW c \in Clients,
         \/ AtClient(SendSyn(c)) \/ AtClient(SynTimeout(c)) \/ AtClient(Quiet(c))
         \/ AtClient(SendFin(c)) \/ AtClient(FinTimeout(c))
         \/ \E m \in Inbox(c) : AtClient(FinRecv(c, m)) \/ AtClient(TimeWaitRecv(c, m))
  PROVE  SenderInv(c)' /\ Complete(c)'
<1>1. /\ UNCHANGED <<all_connection, id_num, CWND_logs, file_pos, eof>>
      /\ \/ phase[c] = "start" /\ phase'[c] = "synwait"
         \/ phase[c] = "top" /\ phase'[c] = "recv" /\ ~CanSend(c)
         \/ /\ phase[c] = "recv"
            /\ phase'[c] = "failed" \/ phase'[c] = IF eof[c] /\ CWND_logs[c] = <<>> THEN "fin" ELSE "top"
         \/ phase[c] \in {"synwait", "finwait"} /\ phase'[c] = "failed"
         \/ phase[c] = "fin" /\ phase'[c] = "finwait"
         \/ phase[c] = "finwait" /\ phase'[c] = "timewait"
         \/ phase[c] = "timewait" /\ phase'[c] = "done"
         \/ phase[c] \in {"synwait", "finwait", "timewait"} /\ phase'[c] = phase[c]
  BY MoveSteps DEF ClientFrame
<1>2. SenderInv(c) /\ Complete(c)
  BY DeliveryParts
<1>3. ConnOf(c)' = ConnOf(c) /\ Stored(c)' = Stored(c)
  BY <1>1 DEF ConnOf, Stored
<1>4. phase'[c] \in {"top", "recv"} => phase[c] \in {"top", "recv"}
  BY <1>1
<1>5. SenderInv(c)'
  BY <1>1, <1>2, <1>3, <1>4 DEF SenderInv, LogsCover, LogEnd, ReadLen
<1>6. ASSUME phase'[c] \in Finished PROVE ConnOf(c).myfile = Payload(c, 0, FileLen[c])
  <2>1. phase[c] \in Finished \/ (phase[c] = "recv" /\ eof[c] /\ CWND_logs[c] = <<>>)
    BY <1>1, <1>6 DEF Finished
  <2>2. CASE phase[c] \in Finished
    BY <1>2, <2>2 DEF Complete
  <2>3. CASE phase[c] = "recv" /\ eof[c] /\ CWND_logs[c] = <<>>
    BY <1>2, <2>3, LoopEnd DEF SenderInv
  <2>. QED BY <2>1, <2>2, <2>3
<1>. QED BY <1>3, <1>5, <1>6 DEF Complete

(* The handshake: there is nothing to deliver yet. *)
LEMMA DeliveryHandshake ==
  ASSUME TypeOK, InductiveInv, DeliveryInv, NEW c \in Clients, NEW m \in Inbox(c),
         AtClient(HandshakeRecv(c, m))
  PROVE  SenderInv(c)' /\ Complete(c)'
<1>1. phase'[c] \in {"synwait", "open"} /\ UNCHANGED <<file_pos, eof>>
  BY HandshakeStep
<1>2. SenderInv(c)
  BY DeliveryParts
<1>. QED BY <1>1, <1>2 DEF SenderInv, Complete, Finished

(* The file is opened: nothing is read of it. *)
LEMMA DeliveryOpen ==
  ASSUME TypeOK, InductiveInv, DeliveryInv, NEW c \in Clients, AtClient(OpenFile(c))
  PROVE  SenderInv(c)' /\ Complete(c)'
<1>1. /\ phase[c] = "open" /\ phase'[c] \in {"top", "failed"}
      /\ UNCHANGED <<all_connection, id_num, CWND_logs, file_pos, eof>>
  BY OpenStep DEF ClientFrame
<1>2. file_pos[c] = 0 /\ CWND_logs[c] = <<>> /\ HasId(c)
  BY <1>1, ClientWithId DEF Connected
<1>3. Stored(c) \in Nat /\ Stored(c)' = Stored(c)
  BY <1>1, <1>2, ClientSlot DEF Stored, ConnOf
<1>4. LogsCover(c, CWND_logs[c], file_pos[c], Stored(c))'
  BY <1>1, <1>2, <1>3 DEF LogsCover
<1>5. SenderInv(c)
  BY DeliveryParts
<1>. QED BY <1>1, <1>4, <1>5 DEF SenderInv, Complete, Finished

(* A chunk sent: its log covers it, and the file ends where a read comes up short. *)
LEMMA DeliveryChunk ==
  ASSUME TypeOK, InductiveInv, DeliveryInv, NEW c \in Clients, NEW logs, NEW pos, ChunkStep(c, logs, pos),
         \A log \in logger : log.file_pos = pos /\ LogInv(c, log) =>
            LogsCover(c, Append(logs, log), LogEnd(c, log), Stored(c))
  PROVE  SenderInv(c)' /\ Complete(c)'
<1>1. /\ phase'[c] = "recv" /\ pos \in Boundaries(c) /\ UNCHANGED <<all_connection, id_num>>
      /\ file_pos'[c] = pos + ReadLen(c, pos) /\ eof'[c] = (ReadLen(c, pos) < MSS)
  BY DEF ChunkStep, ClientFrame
<1>2. PICK log \in logger : log.file_pos = pos /\ LogInv(c, log) /\ CWND_logs'[c] = Append(logs, log)
  BY DEF ChunkStep
<1>3. LogsCover(c, CWND_logs'[c], file_pos'[c], Stored(c))
  BY <1>1, <1>2 DEF LogEnd
<1>4. Stored(c)' = Stored(c)
  BY <1>1 DEF Stored, ConnOf
<1>5. LogsCover(c, CWND_logs[c], file_pos[c], Stored(c))'
  BY <1>3, <1>4 DEF LogsCover, LogEnd, ReadLen
<1>6. eof'[c] => file_pos'[c] = FileLen[c]
  <2>1. FileLen[c] \in Nat /\ pos \in Nat /\ MSS \in Nat
    BY <1>1, BoundaryIn, MSSAssumption
  <2>2. eof'[c] => ReadLen(c, pos) < MSS
    BY <1>1
  <2>3. ReadLen(c, pos) < MSS => pos + ReadLen(c, pos) = FileLen[c]
    BY <2>1 DEF ReadLen
  <2>. QED BY <1>1, <2>2, <2>3
<1>. QED BY <1>1, <1>5, <1>6 DEF SenderInv, Complete, Finished

(* A packet that fits a log in the data loop acknowledges bytes the server has. *)
LEMMA AckedDelivered ==
  ASSUME TypeOK, InductiveInv, DeliveryInv, NoFalseAck, BoundariesDistinct,
         NEW c \in Clients, NEW m \in Inbox(c),
         phase[c] = "recv", NEW i \in DOMAIN CWND_logs[c], CWND_logs[c][i].E_ACK = m.ack
  PROVE  LogEnd(c, CWND_logs[c][i]) <= Stored(c)
<1>1. HasId(c) /\ Logged(c, CWND_logs[c])
  BY ClientWithId, ClientLogged
<1>2. PICK e : e = LogEnd(c, CWND_logs[c][i])
  OBVIOUS
<1>3. e \in Nat /\ e \in Boundaries(c) /\ m.ack = SeqAt(e)
  BY <1>1, <1>2, LogEnds DEF Logged
<1>4. Stored(c) \in Nat
  BY <1>1, ClientSlot
<1>5. m.dst = c /\ ToClient(m) /\ PacketTrue(m)
  BY AddrAssumption, DeliveryParts DEF InductiveInv, NetInv, PacketInv, Inbox
<1>6. ConnOf(c).is_FIN # 1
  BY <1>1, DeliveryParts DEF FinSent
<1>7. CASE m.flags = ACK
  <2>1. PICK q \in Boundaries(c) : q <= Stored(c) /\ m.ack = SeqAt(q)
    BY <1>5, <1>6, <1>7 DEF PacketTrue, Confirms
  <2>2. q = e
    BY <1>3, <2>1 DEF BoundariesDistinct
  <2>. QED BY <1>2, <2>1, <2>2
<1>8. CASE m.flags = SYN_ACK
  <2>1. m.ack = SeqAt(0) /\ 0 \in Boundaries(c)
    BY <1>3, <1>5, <1>8, SeqAtZero, ZeroBoundary DEF ToClient
  <2>2. e = 0
    BY <1>3, <2>1 DEF BoundariesDistinct
  <2>. QED BY <1>2, <1>4, <2>2
<1>9. CASE m.flags = FIN
  BY <1>5, <1>6, <1>9 DEF ToClient
<1>10. CASE m.flags = hton16(SYN)
  <2>1. m.ack = 0
    BY <1>5, <1>10 DEF PacketTrue
  <2>. QED BY <1>3, <2>1 DEF NoFalseAck
<1>. QED BY <1>5, <1>7, <1>8, <1>9, <1>10 DEF ToClient

(* A packet is read in the data loop. *)
LEMMA DeliveryRecv ==
  ASSUME TypeOK, InductiveInv, DeliveryInv, NoFalseAck, BoundariesDistinct,
         NEW c \in Clients, NEW m \in Inbox(c),
         AtClient(DataRecv(c, m))
  PROVE  SenderInv(c)' /\ Complete(c)'
<1>1. /\ phase[c] = "recv" /\ UNCHANGED <<all_connection, id_num, file_pos, eof>>
      /\ \/ \E i \in DOMAIN CWND_logs[c] :
              /\ CWND_logs[c][i].E_ACK = m.ack
              /\ CWND_logs'[c] = SubSeq(CWND_logs[c], i + 1, Len(CWND_logs[c]))
         \/ CWND_logs'[c] = CWND_logs[c]
      /\ phase'[c] = IF eof[c] /\ CWND_logs'[c] = <<>> THEN "fin" ELSE "top"
  BY DataRecvStep DEF ClientFrame
<1>2. /\ HasId(c) /\ Logged(c, CWND_logs[c]) /\ file_pos[c] \in Nat /\ Stored(c) \in Nat
      /\ LogsCover(c, CWND_logs[c], file_pos[c], Stored(c))
      /\ eof[c] => file_pos[c] = FileLen[c]
  BY <1>1, ClientWithId, ClientLogged, ClientSlot, DeliveryParts DEF SenderInv
<1>3. LogsCover(c, CWND_logs'[c], file_pos[c], Stored(c))
  <2>1. CASE CWND_logs'[c] = CWND_logs[c]
    BY <1>2, <2>1
  <2>2. ASSUME NEW i \in DOMAIN CWND_logs[c], CWND_logs[c][i].E_ACK = m.ack,
               CWND_logs'[c] = SubSeq(CWND_logs[c], i + 1, Len(CWND_logs[c]))
        PROVE  LogsCover(c, CWND_logs'[c], file_pos[c], Stored(c))
    <3>1. LogEnd(c, CWND_logs[c][i]) <= Stored(c)
      BY <1>1, <2>2, AckedDelivered
    <3>2. LogsCover(c, SubSeq(CWND_logs[c], i + 1, Len(CWND_logs[c])), file_pos[c], Stored(c))
      BY <1>2, <3>1, CoverErase
    <3>. QED BY <2>2, <3>2
  <2>. QED BY <1>1, <2>1, <2>2
<1>4. ConnOf(c)' = ConnOf(c) /\ Stored(c)' = Stored(c)
  BY <1>1 DEF ConnOf, Stored
<1>5. LogsCover(c, CWND_logs[c], file_pos[c], Stored(c))'
  BY <1>1, <1>3, <1>4 DEF LogsCover, LogEnd, ReadLen
<1>6. ASSUME phase'[c] \in Finished PROVE ConnOf(c).myfile = Payload(c, 0, FileLen[c])
  <2>1. eof[c] /\ CWND_logs'[c] = <<>>
    BY <1>1, <1>6 DEF Finished
  <2>. QED BY <1>1, <1>2, <1>3, <2>1, LoopEnd
<1>. QED BY <1>1, <1>2, <1>4, <1>5, <1>6 DEF SenderInv, Complete

-----------------------------------------------------------------------------
(* The whole of Next. *)

(* Nothing is sent, received, or owned. *)
LEMMA DeliveryInit == Init => DeliveryInv
<1> SUFFICES ASSUME Init PROVE DeliveryInv
  OBVIOUS
<1>1. WindowInv
  BY WindowInit
<1>2. /\ net = {} /\ phase = [c \in Clients |-> "start"] /\ eof = [c \in Clients |-> FALSE]
      /\ id_num = [c \in Clients |-> 0]
      /\ \A i \in Slots : all_connection[i].myfile = <<>> /\ all_connection[i].is_FIN = 0
  BY DEF Init, NetInit, ServerInit, ClientInit
<1>3. OneCopy /\ FinLast /\ AcksTrue
  BY <1>2 DEF OneCopy, FinLast, AcksTrue, HasId
<1>4. (\A c \in Clients : SenderInv(c)) /\ FinishedComplete
  BY <1>2 DEF SenderInv, FinishedComplete, Finished
<1>. QED BY <1>1, <1>3, <1>4 DEF DeliveryInv

(* A step of a client keeps DeliveryInv. *)
LEMMA DeliveryClientStep ==
  ASSUME TypeOK, InductiveInv, DeliveryInv, InductiveInv', WindowInv', NoFalseAck, BoundariesDistinct,
         NEW c \in Clients,
         \/ AtClient(SendSyn(c)) \/ AtClient(SynTimeout(c)) \/ AtClient(Quiet(c))
         \/ AtClient(SendFin(c)) \/ AtClient(FinTimeout(c))
         \/ \E m \in Inbox(c) : \/ AtClient(HandshakeRecv(c, m)) \/ AtClient(DataRecv(c, m))
                                \/ AtClient(FinRecv(c, m)) \/ AtClient(TimeWaitRecv(c, m))
         \/ AtClient(OpenFile(c)) \/ AtClient(SendNext(c)) \/ AtClient(Retransmit(c))
  PROVE  DeliveryInv'
<1>1. ClientFrame(c)
  BY DeliveryParts, WindowClient
<1>2. \A q \in net' : q \in net \/ PacketTrue(q)'
  BY ClientSends
<1>3. SenderInv(c)' /\ Complete(c)'
  <2>1. CASE \/ AtClient(SendSyn(c)) \/ AtClient(SynTimeout(c)) \/ AtClient(Quiet(c))
             \/ AtClient(SendFin(c)) \/ AtClient(FinTimeout(c))
             \/ \E m \in Inbox(c) : AtClient(FinRecv(c, m)) \/ AtClient(TimeWaitRecv(c, m))
    BY <2>1, DeliveryMove
  <2>2. CASE \E m \in Inbox(c) : AtClient(HandshakeRecv(c, m))
    BY <2>2, DeliveryHandshake
  <2>3. CASE \E m \in Inbox(c) : AtClient(DataRecv(c, m))
    BY <2>3, DeliveryRecv
  <2>4. CASE AtClient(OpenFile(c))
    BY <2>4, DeliveryOpen
  <2>5. CASE AtClient(SendNext(c))
    <3>1. ChunkStep(c, CWND_logs[c], file_pos[c]) /\ phase[c] = "top"
      BY <2>5, SendNextStep DEF ChunkStep
    <3>2. /\ HasId(c) /\ Logged(c, CWND_logs[c]) /\ Stored(c) \in Nat
          /\ LogsCover(c, CWND_logs[c], file_pos[c], Stored(c))
      BY <3>1, ClientWithId, ClientLogged, ClientSlot, DeliveryParts DEF SenderInv
    <3>3. ASSUME NEW log \in logger, log.file_pos = file_pos[c], LogInv(c, log)
          PROVE  LogsCover(c, Append(CWND_logs[c], log), LogEnd(c, log), Stored(c))
      BY <3>2, <3>3, CoverNext
    <3>. QED BY <3>1, <3>3, DeliveryChunk
  <2>6. CASE AtClient(Retransmit(c))
    <3>1. /\ ChunkStep(c, Tail(CWND_logs[c]), Head(CWND_logs[c]).file_pos) /\ phase[c] = "top"
          /\ CWND_logs[c] # <<>>
      BY <2>6, RetransmitStep DEF ChunkStep
    <3>2. /\ HasId(c) /\ Logged(c, CWND_logs[c]) /\ Stored(c) \in Nat
          /\ LogsCover(c, CWND_logs[c], file_pos[c], Stored(c))
      BY <3>1, ClientWithId, ClientLogged, ClientSlot, DeliveryParts DEF SenderInv
    <3>3. ASSUME NEW log \in logger, log.file_pos = Head(CWND_logs[c]).file_pos, LogInv(c, log)
          PROVE  LogsCover(c, Append(Tail(CWND_logs[c]), log), LogEnd(c, log), Stored(c))
      BY <3>1, <3>2, <3>3, CoverAgain
    <3>. QED BY <3>1, <3>3, DeliveryChunk
  <2>. QED BY <2>1, <2>2, <2>3, <2>4, <2>5, <2>6
<1>. QED BY <1>1, <1>2, <1>3, DeliveryClient

(* Every step of the system keeps DeliveryInv. *)
LEMMA DeliveryNext ==
  NoFalseAck /\ BoundariesDistinct /\ TypeOK /\ InductiveInv /\ DeliveryInv /\ [Next]_vars => DeliveryInv'
<1> SUFFICES ASSUME NoFalseAck, BoundariesDistinct, TypeOK, InductiveInv, DeliveryInv, [Next]_vars PROVE DeliveryInv'
  OBVIOUS
<1>1. InductiveInv' /\ WindowInv'
  BY NextInv, WindowNext, DeliveryParts
<1>2. ASSUME NEW c \in Clients,
             \/ AtClient(SendSyn(c)) \/ AtClient(SynTimeout(c)) \/ AtClient(Quiet(c))
             \/ AtClient(SendFin(c)) \/ AtClient(FinTimeout(c))
             \/ \E m \in Inbox(c) : \/ AtClient(HandshakeRecv(c, m)) \/ AtClient(DataRecv(c, m))
                                    \/ AtClient(FinRecv(c, m)) \/ AtClient(TimeWaitRecv(c, m))
             \/ AtClient(OpenFile(c)) \/ AtClient(SendNext(c)) \/ AtClient(Retransmit(c))
      PROVE  DeliveryInv'
  BY <1>1, <1>2, DeliveryClientStep
<1>3. ASSUME NEW m \in Inbox(Server), AtServer(RecvSyn(m)) \/ AtServer(RecvData(m)) \/ AtServer(RecvFin(m))
      PROVE  DeliveryInv'
  BY <1>3, DeliveryRecvSyn, DeliveryRecvData, DeliveryRecvFin
<1>4. ASSUME NEW m \in net, Lose(m), UNCHANGED <<all_connection, clientVars>> PROVE DeliveryInv'
  <2>1. \A q \in net' : q \in net
    BY <1>4 DEF Lose
  <2>. QED BY <1>4, <2>1, DeliveryIdle
<1>5. ASSUME UNCHANGED vars PROVE DeliveryInv'
  <2>1. UNCHANGED <<all_connection, clientVars>> /\ \A q \in net' : q \in net
    BY <1>5 DEF vars
  <2>. QED BY <2>1, DeliveryIdle
<1>6. \A c \in Clients :
        \/ AtClient(HandshakeGiveUp(c)) \/ AtClient(SkipSend(c)) \/ AtClient(DataIdle(c))
        \/ AtClient(DataGiveUp(c)) \/ AtClient(FinGiveUp(c)) \/ AtClient(TimeWaitEnd(c))
        => AtClient(Quiet(c))
  BY DEF AtClient, Quiet
<1>. QED BY <1>2, <1>3, <1>4, <1>5, <1>6 DEF Next

-----------------------------------------------------------------------------
(***************************************************************************)
(* The congestion window of client.cpp never falls below one packet, and   *)
(* no client reaches the data loop at the end of its file.                 *)
(***************************************************************************)
THEOREM WindowHolds == Spec => []WindowInv
<1>1. Init => WindowInv
  BY WindowInit
<1>2. TypeOK /\ InductiveInv /\ WindowInv /\ [Next]_vars => WindowInv'
  BY WindowNext
<1>. QED BY <1>1, <1>2, TypeCorrect, InvariantHolds, PTL DEF Spec

(***************************************************************************)
(* The data loop of client.cpp never waits for a window that nothing will  *)
(* open: it has a log whose timeout sends again, or a packet to send.      *)
(***************************************************************************)
THEOREM NeverBlockedHolds == Spec => []NeverBlocked
<1>1. WindowInv => NeverBlocked
  BY DEF WindowInv
<1>. QED BY <1>1, WindowHolds, PTL

(***************************************************************************)
(* When no packet of a file ends at sequence number 0 (NoFalseAck) and no  *)
(* two at the same one (BoundariesDistinct), every acknowledgement that    *)
(* server.cpp has in flight is true and the logs of client.cpp cover what  *)
(* it has read and the server has not.                                     *)
(***************************************************************************)
THEOREM DeliveryHolds == NoFalseAck /\ BoundariesDistinct => (Spec => []DeliveryInv)
<1>1. Init => DeliveryInv
  BY DeliveryInit
<1>2. NoFalseAck /\ BoundariesDistinct /\ TypeOK /\ InductiveInv /\ DeliveryInv /\ [Next]_vars => DeliveryInv'
  BY DeliveryNext
<1>3. ASSUME NoFalseAck, BoundariesDistinct PROVE Spec => []DeliveryInv
  <2>1. TypeOK /\ InductiveInv /\ DeliveryInv /\ [Next]_vars => DeliveryInv'
    BY <1>2, <1>3
  <2>. QED BY <1>1, <2>1, TypeCorrect, InvariantHolds, PTL DEF Spec
<1>. QED BY <1>3

(***************************************************************************)
(* A client that has left the data loop of client.cpp has its whole file   *)
(* on the server, whatever was lost, repeated, held back or timed out.     *)
(***************************************************************************)
THEOREM FinishedHolds == NoFalseAck /\ BoundariesDistinct => (Spec => []FinishedComplete)
<1>1. DeliveryInv => FinishedComplete
  BY DEF DeliveryInv
<1>2. ASSUME NoFalseAck, BoundariesDistinct PROVE Spec => []FinishedComplete
  <2>1. Spec => []DeliveryInv
    BY <1>2, DeliveryHolds
  <2>. QED BY <1>1, <2>1, PTL
<1>. QED BY <1>2

(***************************************************************************)
(* Every byte that client.cpp has read and server.cpp does not have is in  *)
(* a packet of CWND_logs, whatever order timeouts have left the logs in.   *)
(***************************************************************************)
THEOREM NothingForgottenHolds == NoFalseAck /\ BoundariesDistinct => (Spec => []NothingForgotten)
<1>1. TypeOK /\ InductiveInv /\ DeliveryInv => NothingForgotten
  <2> SUFFICES ASSUME TypeOK, InductiveInv, DeliveryInv, NEW c \in Clients, phase[c] \in {"top", "recv"},
                      NEW p \in 1..FileLen[c], Stored(c) < p, p <= file_pos[c]
               PROVE  \E k \in DOMAIN CWND_logs[c] :
                        CWND_logs[c][k].file_pos < p /\ p <= LogEnd(c, CWND_logs[c][k])
    <3>1. ASSUME NEW c \in Clients, phase[c] \in {"top", "recv"}, TypeOK, InductiveInv
          PROVE  Stored(c) \in Nat /\ file_pos[c] \in Nat /\ FileLen[c] \in Int
      BY <3>1, ClientWithId, ClientSlot, ClientFunctions, FileLenAssumption
    <3>2. \A c \in Clients : \A p \in 1..FileLen[c] :
            phase[c] \in {"top", "recv"} /\ TypeOK /\ InductiveInv =>
              p <= Stored(c) \/ p > file_pos[c] \/ (Stored(c) < p /\ p <= file_pos[c])
      BY <3>1
    <3>. QED BY <3>2 DEF NothingForgotten, Covered, Stored, LogEnd
  <2>1. /\ HasId(c) /\ Logged(c, CWND_logs[c]) /\ file_pos[c] \in Nat /\ Stored(c) \in Nat
        /\ LogsCover(c, CWND_logs[c], file_pos[c], Stored(c))
    BY ClientWithId, ClientLogged, ClientSlot, DeliveryParts DEF SenderInv
  <2>2. p \in Nat
    BY FileLenAssumption
  <2>. QED BY <2>1, <2>2, CoverAll
<1>2. ASSUME NoFalseAck, BoundariesDistinct PROVE Spec => []NothingForgotten
  <2>1. Spec => []DeliveryInv
    BY <1>2, DeliveryHolds
  <2>. QED BY <1>1, <2>1, TypeCorrect, InvariantHolds, PTL
<1>. QED BY <1>2

-----------------------------------------------------------------------------
(* Confundo implements FileTransfer. *)

(* The copies and reports at the start. *)
LEMMA TransferInit == Init => Transfer!Init
<1> SUFFICES ASSUME Init PROVE Transfer!Init
  OBVIOUS
<1>1. phase = [c \in Clients |-> "start"] /\ id_num = [c \in Clients |-> 0]
  BY DEF Init, ClientInit
<1>2. 0 \notin Slots
  BY SlotsAssumption DEF Slots
<1>3. Copy = [c \in Clients |-> <<>>]
  BY <1>1, <1>2 DEF Copy
<1>4. Outcome = [c \in Clients |-> "sending"]
  BY <1>1 DEF Outcome, Finished
<1>. QED BY <1>3, <1>4 DEF Transfer!Init

(* The step of FileTransfer, or a stutter. *)
TransferStep == Transfer!Next \/ UNCHANGED <<Copy, Outcome>>

(* A client's report follows its thread. *)
OutcomeAt(c) == IF phase[c] \in Finished THEN "sent" ELSE IF phase[c] = "failed" THEN "failed" ELSE "sending"

(* Outcome is OutcomeAt of every client, before a step and after it. *)
LEMMA OutcomeByPhase ==
  Outcome = [c \in Clients |-> OutcomeAt(c)] /\ Outcome' = [c \in Clients |-> OutcomeAt(c)']
<1>1. ASSUME NEW p
      PROVE  (CASE p \in Finished -> "sent" [] p = "failed" -> "failed" [] OTHER -> "sending")
             = (IF p \in Finished THEN "sent" ELSE IF p = "failed" THEN "failed" ELSE "sending")
  BY DEF Finished
<1>2. \A c \in Clients :
        (CASE phase[c] \in Finished -> "sent" [] phase[c] = "failed" -> "failed" [] OTHER -> "sending") = OutcomeAt(c)
  BY <1>1 DEF OutcomeAt
<1>3. \A c \in Clients :
        (CASE phase'[c] \in Finished -> "sent" [] phase'[c] = "failed" -> "failed" [] OTHER -> "sending") = OutcomeAt(c)'
  BY <1>1 DEF OutcomeAt
<1>4. Outcome = [c \in Clients |-> OutcomeAt(c)]
  BY <1>2 DEF Outcome
<1>5. Outcome' = [c \in Clients |-> OutcomeAt(c)']
  BY <1>3 DEF Outcome
<1>. QED BY <1>4, <1>5

(* A step of a client leaves the copies alone: the slot it is given holds nothing. *)
LEMMA CopyClient ==
  ASSUME TypeOK, InductiveInv, DeliveryInv, InductiveInv', NEW c \in Clients, ClientFrame(c)
  PROVE  UNCHANGED Copy
<1>1. UNCHANGED all_connection /\ (id_num'[c] = id_num[c] \/ phase[c] = "synwait")
  BY DEF ClientFrame
<1>2. \A d \in Clients \ {c} : id_num'[d] = id_num[d]
  BY DEF ClientFrame, Untouched
<1>3. 0 \notin Slots
  BY SlotsAssumption DEF Slots
<1>4. ASSUME id_num'[c] # id_num[c], id_num'[c] \in Slots
      PROVE  id_num[c] \notin Slots /\ all_connection[id_num'[c]].myfile = <<>>
  <2>1. id_num[c] = 0
    BY <1>1, <1>4, ClientWithId DEF HasId
  <2>2. OwnsSlot(c)'
    BY <1>3, <1>4 DEF InductiveInv, ClientInv, ClientInvAt, HasId
  <2>3. all_connection[id_num'[c]].src_addr = c
    BY <1>1, <2>2 DEF OwnsSlot, ConnOf
  <2>. QED BY <1>3, <1>4, <2>1, <2>3, DeliveryParts DEF OneCopy
<1>5. ASSUME id_num'[c] # id_num[c] PROVE id_num[c] \notin Slots
  BY <1>1, <1>3, <1>5, ClientWithId DEF HasId
<1>6. ASSUME NEW d \in Clients
      PROVE  (IF id_num'[d] \in Slots THEN ConnOf(d)'.myfile ELSE <<>>)
             = (IF id_num[d] \in Slots THEN ConnOf(d).myfile ELSE <<>>)
  <2>1. CASE id_num'[d] = id_num[d]
    BY <1>1, <2>1 DEF ConnOf
  <2>2. CASE id_num'[d] # id_num[d]
    <3>1. d = c
      BY <1>2, <2>2
    <3>. QED BY <1>1, <1>4, <1>5, <2>2, <3>1 DEF ConnOf
  <2>. QED BY <2>1, <2>2
<1>. QED BY <1>6 DEF Copy

(* A step of a client is a report, a failure or a stutter. *)
LEMMA TransferClient ==
  ASSUME TypeOK, InductiveInv, DeliveryInv, InductiveInv', DeliveryInv', NEW c \in Clients, ClientFrame(c)
  PROVE  TransferStep
<1>1. UNCHANGED Copy
  BY CopyClient
<1>2. /\ phase[c] \in Finished => phase'[c] \in Finished \cup {"failed"}
      /\ phase[c] # "failed" /\ \A d \in Clients \ {c} : phase'[d] = phase[d]
  BY DEF ClientFrame, Untouched
<1>3. Outcome = [d \in Clients |-> OutcomeAt(d)] /\ Outcome' = [d \in Clients |-> OutcomeAt(d)']
  BY OutcomeByPhase
<1>4. \A d \in Clients \ {c} : OutcomeAt(d)' = OutcomeAt(d)
  BY <1>2 DEF OutcomeAt
<1>5. Outcome' = [Outcome EXCEPT ![c] = OutcomeAt(c)']
  BY <1>3, <1>4
<1>6. CASE phase'[c] = "failed"
  <2>1. OutcomeAt(c)' = "failed"
    BY <1>6 DEF OutcomeAt, Finished
  <2>2. Transfer!Fail(c)
    BY <1>1, <1>5, <2>1 DEF Transfer!Fail
  <2>. QED BY <2>2 DEF TransferStep, Transfer!Next
<1>7. CASE phase[c] \notin Finished /\ phase'[c] \in Finished
  <2>1. OutcomeAt(c) = "sending" /\ OutcomeAt(c)' = "sent"
    BY <1>2, <1>7 DEF OutcomeAt
  <2>2. Outcome[c] = "sending"
    BY <1>3, <2>1
  <2>3. Copy[c] = FirstBytes(c, FileLen[c])
    <3>1. ConnOf(c)'.myfile = Payload(c, 0, FileLen[c])
      BY <1>7 DEF DeliveryInv, FinishedComplete
    <3>2. id_num'[c] \in Slots
      BY <1>7 DEF InductiveInv, ClientInv, ClientInvAt, OwnsSlot, Finished, Connected
    <3>3. Copy'[c] = Payload(c, 0, FileLen[c])
      BY <3>1, <3>2 DEF Copy
    <3>. QED BY <1>1, <3>3 DEF FirstBytes
  <2>4. Transfer!Report(c)
    BY <1>1, <1>5, <2>1, <2>2, <2>3 DEF Transfer!Report
  <2>. QED BY <2>4 DEF TransferStep, Transfer!Next
<1>8. CASE phase'[c] # "failed" /\ (phase[c] \in Finished \/ phase'[c] \notin Finished)
  <2>1. OutcomeAt(c)' = OutcomeAt(c)
    BY <1>2, <1>8 DEF OutcomeAt
  <2>2. Outcome' = Outcome
    BY <1>3, <1>4, <2>1
  <2>. QED BY <1>1, <2>2 DEF TransferStep
<1>. QED BY <1>6, <1>7, <1>8

(* The server keeps every file as it was. *)
LEMMA TransferSame ==
  ASSUME TypeOK, UNCHANGED clientVars,
         \A i \in Slots : all_connection'[i].myfile = all_connection[i].myfile
  PROVE  TransferStep
<1>1. UNCHANGED <<phase, id_num>>
  BY DEF clientVars
<1>2. Copy' = Copy
  BY <1>1 DEF Copy, ConnOf
<1>3. Outcome' = Outcome
  BY <1>1 DEF Outcome
<1>. QED BY <1>2, <1>3 DEF TransferStep

(* The server appends a chunk to the file of one client. *)
LEMMA TransferReceive ==
  ASSUME TypeOK, InductiveInv, DeliveryInv, BoundariesDistinct, UNCHANGED clientVars, NEW c \in Clients, HasId(c),
         NEW k \in 1..MSS, NEW con, Stored(c) + k <= FileLen[c],
         all_connection' = [all_connection EXCEPT ![id_num[c]] = con],
         con.myfile = Payload(c, 0, Stored(c) + k)
  PROVE  TransferStep
<1>1. UNCHANGED <<phase, id_num>> /\ all_connection \in [Slots -> connection_info]
  BY DEF clientVars, TypeOK
<1>2. /\ id_num[c] \in Slots /\ Stored(c) \in Nat /\ k \in Nat /\ k > 0
      /\ ConnOf(c).myfile = Payload(c, 0, Stored(c)) /\ FileLen[c] \in Int
  BY ClientSlot, MSSAssumption, FileLenAssumption
<1>3. Copy[c] = ConnOf(c).myfile /\ Len(Copy[c]) = Stored(c)
  BY <1>2 DEF Copy, Stored
<1>4. ASSUME NEW d \in Clients \ {c}, id_num[d] \in Slots PROVE id_num[d] # id_num[c]
  <2>1. HasId(d)
    BY <1>4, SlotsAssumption DEF HasId, Slots
  <2>. QED BY <2>1, ClientSlot DEF ConnOf
<1>5. \A i \in Slots : all_connection'[i] = IF i = id_num[c] THEN con ELSE all_connection[i]
  BY <1>1
<1>6. Copy' = [Copy EXCEPT ![c] = con.myfile]
  BY <1>1, <1>2, <1>4, <1>5 DEF Copy, ConnOf
<1>7. Outcome' = Outcome
  BY <1>1 DEF Outcome
<1>8. Outcome[c] # "sent"
  <2>1. SUFFICES ASSUME phase[c] \in Finished PROVE FALSE
    BY OutcomeByPhase DEF OutcomeAt
  <2>2. ConnOf(c).myfile = Payload(c, 0, FileLen[c])
    BY <2>1 DEF DeliveryInv, FinishedComplete
  <2>3. FileLen[c] \in Nat
    BY <1>2
  <2>4. Stored(c) = FileLen[c]
    <3>1. Len(Payload(c, 0, FileLen[c])) = FileLen[c]
      BY <2>3, PayloadSeq
    <3>. QED BY <2>2, <3>1 DEF Stored
  <2>. QED BY <1>2, <2>4
<1>9. con.myfile = FirstBytes(c, Len(Copy[c]) + k)
  BY <1>3 DEF FirstBytes
<1>10. Transfer!Receive(c)
  <2>1. Copy' = [Copy EXCEPT ![c] = FirstBytes(c, Len(Copy[c]) + k)] /\ Len(Copy[c]) + k <= FileLen[c]
    BY <1>3, <1>6, <1>9
  <2>. QED BY <1>7, <1>8, <2>1 DEF Transfer!Receive
<1>. QED BY <1>10 DEF TransferStep, Transfer!Next

(* The handlers of the server: only an in-order chunk changes a file. *)
LEMMA TransferServer ==
  ASSUME TypeOK, InductiveInv, DeliveryInv, BoundariesDistinct, NEW m \in Inbox(Server),
         AtServer(RecvSyn(m)) \/ AtServer(RecvData(m)) \/ AtServer(RecvFin(m))
  PROVE  TransferStep
<1>1. UNCHANGED clientVars /\ all_connection \in [Slots -> connection_info]
  BY DEF AtServer, TypeOK
<1>2. ASSUME NEW i \in Slots, NEW con, con.myfile = all_connection[i].myfile,
             all_connection' = [all_connection EXCEPT ![i] = con]
      PROVE  TransferStep
  <2>1. \A j \in Slots : all_connection'[j].myfile = all_connection[j].myfile
    BY <1>1, <1>2
  <2>. QED BY <1>1, <2>1, TransferSame
<1>3. ASSUME UNCHANGED all_connection PROVE TransferStep
  BY <1>1, <1>3, TransferSame
<1>4. ASSUME NEW i \in FirstFree(m), AcceptSyn(m, i) PROVE TransferStep
  <2>1. i \in Slots /\ all_connection[i] \in connection_info
    BY <1>1 DEF FirstFree
  <2>2. NewConnection(i, m).myfile = all_connection[i].myfile
    BY <2>1 DEF NewConnection, connection_info
  <2>. QED BY <1>2, <1>4, <2>1, <2>2 DEF AcceptSyn
<1>5. ASSUME NEW i \in FirstMatch(m), CloseFile(m, i) PROVE TransferStep
  <2>1. i \in Slots /\ all_connection[i] \in connection_info
    BY <1>1 DEF FirstMatch
  <2>2. [all_connection[i] EXCEPT !.is_open = FALSE].myfile = all_connection[i].myfile
    BY <2>1 DEF connection_info
  <2>. QED BY <1>2, <1>5, <2>1, <2>2 DEF CloseFile
<1>6. ASSUME NEW i \in FirstMatch(m), AnswerFin(m, i) PROVE TransferStep
  <2>1. i \in Slots /\ all_connection[i] \in connection_info
    BY <1>1 DEF FirstMatch
  <2>2. AfterFin(all_connection[i], m).myfile = all_connection[i].myfile
    BY <2>1 DEF AfterFin, connection_info
  <2>. QED BY <1>2, <1>6, <2>1, <2>2 DEF AnswerFin
<1>7. ASSUME NEW i \in FirstMatch(m), all_connection[i].is_FIN # 1, Acknowledge(m, i),
             m.flags \in {ACK, 0}
      PROVE  TransferStep
  <2> DEFINE old == all_connection[i]
             c == m.src
  <2>0. PICK con : con = AfterData(old, m)
    OBVIOUS
  <2>1. /\ i \in Slots /\ InUse(old, i) /\ c \in Clients /\ HasId(c) /\ id_num[c] = i
        /\ old.src_addr = c /\ (IsChunk(m) \/ IsLastAck(m)) /\ m \in packet
    BY <1>7, MatchedSlot DEF FromConnected, SYN, ACK, FIN, TypeOK, Inbox
  <2>2. old \in connection_info /\ old = ConnOf(c) /\ old.is_FIN = 0 /\ IsChunk(m)
    BY <1>1, <1>7, <2>1 DEF ConnOf, connection_info, IsLastAck
  <2>3. all_connection' = [all_connection EXCEPT ![id_num[c]] = con]
    BY <1>7, <2>0, <2>1 DEF Acknowledge
  <2>4. con.src_addr = c /\ con.myfile = Written(old, m)
    BY <2>0, <2>1, <2>2 DEF AfterData, connection_info
  <2>5. InUse(con, i)
    BY <2>0, <2>1, <2>2, ChunkWritten
  <2>6. PICK p \in Boundaries(c) : m.data = Payload(c, p, ReadLen(c, p))
    BY <2>2 DEF IsChunk
  <2>7. PICK k : k = ReadLen(c, p)
    OBVIOUS
  <2>8. k \in 0..MSS /\ k \in Nat /\ p \in Nat
    BY <2>1, <2>6, <2>7, ReadAtBoundary, MSSAssumption
  <2>9. Len(m.data) = k
    BY <2>1, <2>6, <2>7, <2>8, PayloadSeq
  <2>10. CASE ~InOrder(old, m)
    BY <1>2, <2>1, <2>3, <2>4, <2>10 DEF Written
  <2>11. CASE InOrder(old, m)
    <3>1. old.myfile \in Seq(Byte) /\ m.data \in Seq(Byte) /\ con.myfile = old.myfile \o m.data
      BY <2>1, <2>2, <2>4, <2>11 DEF Written, connection_info, packet
    <3>2. Len(con.myfile) = Stored(c) + k /\ Stored(c) \in Nat
      <4>1. Stored(c) = Len(old.myfile) /\ Stored(c) \in Nat
        BY <2>1, <2>2, ClientSlot DEF Stored
      <4>2. Len(con.myfile) = Len(old.myfile) + Len(m.data)
        BY <3>1, ConcatProperties
      <4>. QED BY <2>9, <4>1, <4>2
    <3>3. con.myfile = Payload(c, 0, Stored(c) + k) /\ Stored(c) + k \in Boundaries(c) \cup {0}
      BY <2>4, <2>5, <3>2 DEF InUse, HoldsPrefix
    <3>4. CASE k = 0
      <4>1. Stored(c) + k = Stored(c)
        BY <3>2, <3>4
      <4>2. con.myfile = old.myfile
        BY <2>1, <2>2, <3>3, <4>1, ClientSlot
      <4>. QED BY <1>2, <2>1, <2>3, <4>2
    <3>5. CASE k # 0
      <4>1. k \in 1..MSS
        BY <2>8, <3>5, MSSAssumption
      <4>2. Stored(c) + k <= FileLen[c]
        <5>1. Stored(c) + k # 0
          BY <2>8, <3>2, <3>5
        <5>. QED BY <2>1, <3>3, <5>1, BoundaryIn
      <4> HIDE DEF c
      <4>. QED BY <1>1, <2>1, <2>3, <3>3, <4>1, <4>2, TransferReceive
    <3>. QED BY <3>4, <3>5
  <2>. QED BY <2>10, <2>11
<1>8. CASE AtServer(RecvSyn(m))
  BY <1>3, <1>4, <1>8 DEF AtServer, RecvSyn, RefuseSyn
<1>9. CASE AtServer(RecvData(m))
  BY <1>3, <1>5, <1>7, <1>9 DEF AtServer, RecvData, Ignore
<1>10. CASE AtServer(RecvFin(m))
  BY <1>3, <1>6, <1>10 DEF AtServer, RecvFin, Ignore
<1>. QED BY <1>8, <1>9, <1>10

(* Every step of Confundo is a step of FileTransfer or a stutter. *)
LEMMA TransferNext ==
  /\ BoundariesDistinct /\ TypeOK /\ InductiveInv /\ DeliveryInv /\ InductiveInv' /\ DeliveryInv'
  /\ [Next]_vars
  => TransferStep
<1> SUFFICES ASSUME BoundariesDistinct, TypeOK, InductiveInv, DeliveryInv, InductiveInv', DeliveryInv',
                    [Next]_vars
             PROVE  TransferStep
  OBVIOUS
<1>1. ASSUME NEW c \in Clients,
             \/ AtClient(SendSyn(c)) \/ AtClient(SynTimeout(c)) \/ AtClient(Quiet(c))
             \/ AtClient(SendFin(c)) \/ AtClient(FinTimeout(c))
             \/ \E m \in Inbox(c) : \/ AtClient(HandshakeRecv(c, m)) \/ AtClient(DataRecv(c, m))
                                    \/ AtClient(FinRecv(c, m)) \/ AtClient(TimeWaitRecv(c, m))
             \/ AtClient(OpenFile(c)) \/ AtClient(SendNext(c)) \/ AtClient(Retransmit(c))
      PROVE  TransferStep
  <2>1. ClientFrame(c)
    BY <1>1, DeliveryParts, WindowClient
  <2>. QED BY <2>1, TransferClient
<1>2. ASSUME NEW m \in Inbox(Server), AtServer(RecvSyn(m)) \/ AtServer(RecvData(m)) \/ AtServer(RecvFin(m))
      PROVE  TransferStep
  BY <1>2, TransferServer
<1>3. ASSUME UNCHANGED <<all_connection, clientVars>> PROVE TransferStep
  BY <1>3, TransferSame
<1>4. UNCHANGED vars => UNCHANGED <<all_connection, clientVars>>
  BY DEF vars
<1>5. \A c \in Clients :
        \/ AtClient(HandshakeGiveUp(c)) \/ AtClient(SkipSend(c)) \/ AtClient(DataIdle(c))
        \/ AtClient(DataGiveUp(c)) \/ AtClient(FinGiveUp(c)) \/ AtClient(TimeWaitEnd(c))
        => AtClient(Quiet(c))
  BY DEF AtClient, Quiet
<1>. QED BY <1>1, <1>2, <1>3, <1>4, <1>5 DEF Next

(***************************************************************************)
(* client.cpp and server.cpp together implement FileTransfer: the server's *)
(* copy grows in order, a piece at a time, and a client reports its file   *)
(* as sent only when the copy is whole.                                    *)
(***************************************************************************)
THEOREM TransferHolds == NoFalseAck /\ BoundariesDistinct => (Spec => TransferSpec)
<1>1. Init => Transfer!Init
  BY TransferInit
<1>2. /\ BoundariesDistinct /\ TypeOK /\ InductiveInv /\ DeliveryInv /\ InductiveInv' /\ DeliveryInv'
      /\ [Next]_vars
      => [Transfer!Next]_<<Copy, Outcome>>
  BY TransferNext DEF TransferStep
<1>3. ASSUME NoFalseAck, BoundariesDistinct PROVE Spec => TransferSpec
  <2>1. Spec => []DeliveryInv
    BY <1>3, DeliveryHolds
  <2>2. TypeOK /\ InductiveInv /\ DeliveryInv /\ InductiveInv' /\ DeliveryInv' /\ [Next]_vars
        => [Transfer!Next]_<<Copy, Outcome>>
    BY <1>2, <1>3
  <2>. QED BY <1>1, <2>1, <2>2, TypeCorrect, InvariantHolds, PTL DEF Spec, TransferSpec, Transfer!Spec
<1>. QED BY <1>3

-----------------------------------------------------------------------------
(* What the two hypotheses ask of the lengths of the files. *)

(* Positions less than a sequence space apart have different sequence numbers. *)
LEMMA SeqAtDistinct ==
  ASSUME NEW p \in Nat, NEW q \in Nat, p <= q, q - p < SeqMod, SeqAt(p) = SeqAt(q)
  PROVE  p = q
<1>1. SeqMod \in Nat \ {0} /\ ISN \in Nat
  BY SeqAssumption
<1>2. PICK M \in Nat \ {0}, a \in Nat, n \in Nat : M = SeqMod /\ a = ISN + 1 + p /\ n = q - p
  BY <1>1
<1>3. a % M = (a + n) % M
  BY <1>1, <1>2 DEF SeqAt
<1>4. /\ a = M * (a \div M) + (a % M) /\ a \div M \in Int /\ a % M \in 0..(M - 1)
      /\ a + n = M * ((a + n) \div M) + (a % M) /\ (a + n) \div M \in Int
  BY <1>3
<1>5. PICK k \in Int, j \in Int : a = M * k + (a % M) /\ a + n = M * j + (a % M)
  BY <1>4
<1>6. M * k + n = M * j + 0 /\ n \in 0..(M - 1) /\ 0 \in 0..(M - 1)
  <2>1. PICK x \in Int, y \in Int, r \in Int : x = M * k /\ y = M * j /\ r = a % M
    BY <1>4, <1>5
  <2>2. a = x + r /\ a + n = y + r
    BY <1>5, <2>1
  <2>3. x + n = y
    BY <2>1, <2>2
  <2>4. n < M
    BY <1>2
  <2>. QED BY <2>1, <2>3, <2>4
<1>7. n = 0
  BY <1>6, DivUnique
<1>. QED BY <1>2, <1>7

(***************************************************************************)
(* BoundariesDistinct holds for every file shorter than the sequence       *)
(* space: the sequence numbers of client.cpp then tell its packets apart.  *)
(***************************************************************************)
THEOREM ShortFilesDistinct == (\A c \in Clients : FileLen[c] < SeqMod) => BoundariesDistinct
<1>1. SUFFICES ASSUME \A c \in Clients : FileLen[c] < SeqMod, NEW c \in Clients,
                      NEW p \in Boundaries(c), NEW q \in Boundaries(c), SeqAt(p) = SeqAt(q)
               PROVE  p = q
  BY DEF BoundariesDistinct
<1>2. /\ p \in Nat /\ q \in Nat /\ p <= FileLen[c] /\ q <= FileLen[c]
      /\ FileLen[c] \in Nat /\ SeqMod \in Nat /\ FileLen[c] < SeqMod
  BY <1>1, BoundaryIn, SeqAssumption
<1>3. q - p < SeqMod /\ p - q < SeqMod
  BY <1>2
<1>. QED BY <1>1, <1>2, <1>3, SeqAtDistinct

(***************************************************************************)
(* NoFalseAck holds for every file whose sequence numbers do not wrap: the *)
(* echo of a SYN by server.cpp acknowledges no packet of such a file.      *)
(***************************************************************************)
THEOREM ShortFilesNoFalseAck == (\A c \in Clients : ISN + 1 + FileLen[c] < SeqMod) => NoFalseAck
<1>1. SUFFICES ASSUME \A c \in Clients : ISN + 1 + FileLen[c] < SeqMod, NEW c \in Clients,
                      NEW p \in Boundaries(c), SeqAt(p) = 0
               PROVE  FALSE
  BY DEF NoFalseAck
<1>2. /\ p \in Nat /\ p <= FileLen[c] /\ FileLen[c] \in Nat
      /\ SeqMod \in Nat /\ ISN \in Nat /\ ISN + 1 + FileLen[c] < SeqMod
  BY <1>1, BoundaryIn, SeqAssumption
<1>3. PICK a \in Nat, M \in Nat : a = ISN + 1 + p /\ M = SeqMod /\ 0 < a /\ a < M
  BY <1>2
<1>4. a % M = a
  BY <1>3
<1>. QED BY <1>1, <1>3, <1>4 DEF SeqAt

(***************************************************************************)
(* Files whose sequence numbers do not wrap, of up to 90054 bytes in the   *)
(* code, are delivered as FileTransfer promises: no hypothesis is left on  *)
(* what client.cpp and server.cpp exchange.                                *)
(***************************************************************************)
THEOREM ShortFilesDelivered ==
  (\A c \in Clients : ISN + 1 + FileLen[c] < SeqMod) => (Spec => TransferSpec)
<1>1. ASSUME \A c \in Clients : ISN + 1 + FileLen[c] < SeqMod PROVE NoFalseAck /\ BoundariesDistinct
  <2>1. \A c \in Clients : FileLen[c] < SeqMod
    <3>1. ASSUME NEW c \in Clients PROVE FileLen[c] < SeqMod
      <4>1. FileLen[c] \in Int /\ ISN \in Nat /\ SeqMod \in Nat /\ ISN + 1 + FileLen[c] < SeqMod
        BY <1>1, FileLenAssumption, SeqAssumption
      <4>. QED BY <4>1
    <3>. QED BY <3>1
  <2>. QED BY <1>1, <2>1, ShortFilesDistinct, ShortFilesNoFalseAck
<1>. QED BY <1>1, TransferHolds
=============================================================================
