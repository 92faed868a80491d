---------------------------- MODULE ConfundoInv ----------------------------
(***************************************************************************)
(* The inductive invariant behind the theorems of ConfundoProofs: what     *)
(* every packet in flight, every slot and every client's logs say about    *)
(* the file they belong to.                                                *)
(***************************************************************************)
EXTENDS Confundo

(***************************************************************************)
(* The positions at which a packet of c's file may start or end.  That     *)
(* they have different sequence numbers is what the transport relies on    *)
(* and does not test: it holds for every file shorter than the sequence    *)
(* space and, 512 and 102401 being coprime, for most that are longer.      *)
(***************************************************************************)
Boundaries(c) == {p \in 0..FileLen[c] : p = FileLen[c] \/ \E k \in 0..FileLen[c] : p = k * MSS}

BoundariesDistinct == \A c \in Clients : \A p, q \in Boundaries(c) : SeqAt(p) = SeqAt(q) => p = q

HasId(c) == id_num[c] # 0

(***************************************************************************)
(* A slot is unused, or belongs to a client; it holds a prefix of the file *)
(* if boundaries can be told from each other.                              *)
(***************************************************************************)
Unused(con) == con.id = 0 /\ con.src_addr = NoAddr /\ con.myfile = <<>> /\ con.is_FIN = 0
HoldsPrefix(con) ==
    /\ Len(con.myfile) \in Boundaries(con.src_addr) \cup {0}
    /\ con.myfile = Payload(con.src_addr, 0, Len(con.myfile))
    /\ con.is_FIN = 0 => con.ack = SeqAt(Len(con.myfile))
InUse(con, i) ==
    /\ con.id = i
    /\ con.src_addr \in Clients
    /\ BoundariesDistinct => HoldsPrefix(con)
SlotInv == \A i \in Slots : Unused(all_connection[i]) \/ InUse(all_connection[i], i)

(* The id a client was given is that of a slot it owns, even after it exited. *)
OwnsSlot(c) == id_num[c] \in Slots /\ ConnOf(c).src_addr = c

(* Packets to the server. *)
IsSyn(m) == m.flags = SYN /\ m.seq = ISN /\ m.ack = 0 /\ m.id = 0
IsChunk(m) ==
    /\ m.flags \in {0, ACK}
    /\ \E p \in Boundaries(m.src) :
         m.seq = SeqAt(p) /\ m.data = Payload(m.src, p, ReadLen(m.src, p))
IsLastAck(m) == m.flags = ACK /\ ConnOf(m.src).is_FIN = 1
FromConnected(m) == HasId(m.src) /\ m.id = id_num[m.src]
ToServer(m) ==
    /\ m.src \in Clients
    /\ IsSyn(m) \/ (FromConnected(m) /\ (IsChunk(m) \/ IsLastAck(m) \/ m.flags = FIN))

(* Packets to a client. *)
ToClient(m) ==
    /\ m.src = Server
    /\ m.flags \in {SYN_ACK, ACK, FIN, hton16(SYN)}
    /\ m.flags = SYN_ACK =>
         m.seq = ISS /\ m.ack = ISN + 1 /\ m.id \in Slots /\ all_connection[m.id].src_addr = m.dst
    /\ m.flags = FIN => HasId(m.dst) /\ ConnOf(m.dst).is_FIN = 1

PacketInv(m) == IF m.dst = Server THEN ToServer(m) ELSE m.dst \in Clients /\ ToClient(m)
NetInv == \A m \in net : PacketInv(m)

(* A client's read position and logs are boundaries and carry their sequence numbers. *)
LogInv(c, log) ==
    /\ log.file_pos \in Boundaries(c)
    /\ log.seq = SeqAt(log.file_pos)
    /\ log.E_ACK = SeqAt(log.file_pos + ReadLen(c, log.file_pos))

DataInv(c) ==
    /\ file_pos[c] \in Boundaries(c)
    /\ seq_num[c] = SeqAt(file_pos[c])
    /\ \A k \in DOMAIN CWND_logs[c] : LogInv(c, CWND_logs[c][k])

ClientInvAt(c) ==
    /\ phase[c] \in {"start", "synwait"} => id_num[c] = 0 /\ seq_num[c] = ISN /\ ack_num[c] = 0
    /\ phase[c] \in {"start", "synwait", "open"} => file_pos[c] = 0 /\ CWND_logs[c] = <<>>
    /\ phase[c] = "open" => seq_num[c] = SeqAt(0)
    /\ phase[c] \in Connected => HasId(c)
    /\ HasId(c) => OwnsSlot(c)
    /\ phase[c] \in {"top", "recv"} => DataInv(c)
    /\ phase[c] = "timewait" => ConnOf(c).is_FIN = 1

ClientInv == \A c \in Clients : ClientInvAt(c)

InductiveInv == SlotInv /\ NetInv /\ ClientInv
=============================================================================
