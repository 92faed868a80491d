--------------------------- MODULE ConfundoServer ---------------------------
(***************************************************************************)
(* The Confundo server (server.cpp): one thread reads a packet and runs    *)
(* the handler for its flags to completion.  A connection lives in a slot  *)
(* of all_connection; slots are taken by SYNs and never given back.        *)
(***************************************************************************)
EXTENDS ConfundoNet

CONSTANT NumSlots   \* length of all_connection (10 in the code)

ASSUME SlotsAssumption == NumSlots \in Nat

VARIABLE all_connection

Slots == 1..NumSlots

connection_info == [id : Nat, src_addr : Clients \cup {Server, NoAddr}, seq : Nat, ack : Nat,
                    myfile : Seq(Byte), is_open : BOOLEAN, is_FIN : {0, 1}]

ServerInit ==
    all_connection = [i \in Slots |-> [id |-> 0, src_addr |-> NoAddr, seq |-> 0, ack |-> 0,
                                       myfile |-> <<>>, is_open |-> FALSE, is_FIN |-> 0]]

-----------------------------------------------------------------------------
(* Every reply is addressed to the client that opened the slot. *)
Reply(con, seq, ack, flags) ==
    [src |-> Server, dst |-> con.src_addr, seq |-> seq, ack |-> ack,
     id |-> con.id, flags |-> flags, data |-> <<>>]

AckOf(con) == Reply(con, con.seq, con.ack, ACK)
FinOf(con) == Reply(con, con.seq, 0, FIN)
SynAckOf(con) == Reply(con, con.seq, con.ack, SYN_ACK)

(* The received SYN, returned as it stands in memory after the conversion to host order. *)
EchoOf(m, con) ==
    [src |-> Server, dst |-> con.src_addr, seq |-> hton32(m.seq), ack |-> hton32(m.ack),
     id |-> hton16(m.id), flags |-> hton16(m.flags), data |-> <<>>]

-----------------------------------------------------------------------------
(***************************************************************************)
(* SYN: the slots are visited in order up to the first one that is free;   *)
(* a slot in use (its address family is that of the sender) echoes the SYN *)
(* to its own client.                                                      *)
(***************************************************************************)
sa_family(addr) == IF addr = NoAddr THEN 0 ELSE 2

InUseFor(i, m) == sa_family(all_connection[i].src_addr) = sa_family(m.src)
(* Mutant: a slot is taken whether or not it is in use. *)
FreeForAlways(i, m) == TRUE
FreeFor(i, m) == ~InUseFor(i, m) /\ all_connection[i].id = 0
FirstFree(m) == {i \in Slots : FreeFor(i, m) /\ \A j \in 1..(i-1) : ~FreeFor(j, m)}

NewConnection(i, m) ==
    [all_connection[i] EXCEPT !.id = i, !.src_addr = m.src, !.seq = ISS, !.ack = m.seq + 1,
                              !.is_open = TRUE]

Echoes(m, visited) == {EchoOf(m, all_connection[j]) : j \in {k \in visited : InUseFor(k, m)}}

AcceptSyn(m, i) ==
    /\ all_connection' = [all_connection EXCEPT ![i] = NewConnection(i, m)]
    /\ Deliver(m, Echoes(m, 1..(i-1)) \cup {SynAckOf(NewConnection(i, m))})

RefuseSyn(m) ==
    /\ Deliver(m, Echoes(m, Slots))
    /\ UNCHANGED all_connection

RecvSyn(m) ==
    /\ m.flags = SYN
    /\ \/ \E i \in FirstFree(m) : AcceptSyn(m, i)
       \/ FirstFree(m) = {} /\ RefuseSyn(m)

-----------------------------------------------------------------------------
(* Data and ACK packets belong to the first slot that carries their id. *)
FirstMatch(m) ==
    {i \in Slots : all_connection[i].id = m.id /\ \A j \in 1..(i-1) : all_connection[j].id # m.id}

(* Mutant: packets are written in the order in which they arrive. *)
InOrderAlways(con, m) == TRUE
InOrder(con, m) == m.seq = con.ack

(* The server's own sequence number advances when the sender acknowledges it. *)
SeqAfter(con, m) == IF m.ack = con.seq + 1 THEN con.seq + 1 ELSE con.seq

(* Mutant: a packet out of order is acknowledged as if it had been written. *)
AckAfterAlways(con, m) == (m.seq + Len(m.data)) % SeqMod
AckAfter(con, m) == IF InOrder(con, m) THEN (con.ack + Len(m.data)) % SeqMod ELSE con.ack

(* Only an in-order packet is appended to the file, and flushed. *)
Written(con, m) == IF InOrder(con, m) THEN con.myfile \o m.data ELSE con.myfile

(* Once the server has sent its FIN, any packet of the connection closes the file. *)
CloseFile(m, i) ==
    /\ all_connection' = [all_connection EXCEPT ![i].is_open = FALSE]
    /\ Deliver(m, {})

AfterData(con, m) ==
    [con EXCEPT !.ack = AckAfter(con, m), !.seq = SeqAfter(con, m), !.myfile = Written(con, m)]

Acknowledge(m, i) ==
    LET con == AfterData(all_connection[i], m)
    IN  /\ all_connection' = [all_connection EXCEPT ![i] = con]
        /\ Deliver(m, {AckOf(con)})

Ignore(m) == Deliver(m, {}) /\ UNCHANGED all_connection

RecvData(m) ==
    /\ m.flags \in {ACK, 0}
    /\ \/ \E i \in FirstMatch(m) :
            IF all_connection[i].is_FIN = 1 THEN CloseFile(m, i) ELSE Acknowledge(m, i)
       \/ FirstMatch(m) = {} /\ Ignore(m)

-----------------------------------------------------------------------------
(* FIN: acknowledged and answered with the server's FIN, in order or not. *)
(* Mutant: the slot is not marked as finished. *)
AfterFinUnmarked(con, m) == [con EXCEPT !.ack = IF InOrder(con, m) THEN con.ack + 1 ELSE con.ack]

AfterFin(con, m) ==
    [con EXCEPT !.ack = IF InOrder(con, m) THEN con.ack + 1 ELSE con.ack, !.is_FIN = 1]

AnswerFin(m, i) ==
    LET con == AfterFin(all_connection[i], m)
    IN  /\ all_connection' = [all_connection EXCEPT ![i] = con]
        /\ Deliver(m, {AckOf(con), FinOf(con)})

RecvFin(m) ==
    /\ m.flags = FIN
    /\ \/ \E i \in FirstMatch(m) : AnswerFin(m, i)
       \/ FirstMatch(m) = {} /\ Ignore(m)
=============================================================================
