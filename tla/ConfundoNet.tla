---------------------------- MODULE ConfundoNet ----------------------------
(***************************************************************************)
(* What client.cpp and server.cpp of the Confundo transport (CS118-        *)
(* Project2) share: the packet header and its byte order, the sequence     *)
(* space, the constants both programs hard-code, and the UDP network that  *)
(* carries packets between them.                                           *)
(***************************************************************************)
EXTENDS Integers, Sequences, FiniteSets

CONSTANTS
    Clients,        \* addresses of the client processes
    Server,         \* address of the server
    NoAddr,         \* the zeroed sockaddr of an unused connection slot
    MSS,            \* data bytes of a full packet (512 in the code)
    SeqMod,         \* size of the sequence space (102401 in the code)
    ISN,            \* the client's first sequence number (12345)
    ISS,            \* the server's first sequence number (4321)
    MaxFaults       \* bound on packets lost, duplicated or delayed past a timer

ASSUME AddrAssumption == Server \notin Clients /\ NoAddr \notin Clients \cup {Server}
ASSUME MSSAssumption == MSS \in Nat \ {0}
ASSUME SeqAssumption == ISN \in Nat /\ ISS \in Nat /\ SeqMod \in Nat /\ ISN + 1 < SeqMod
ASSUME FaultsAssumption == MaxFaults \in Nat

VARIABLES
    net,            \* packets in flight or waiting in a socket buffer
    faults          \* how many of these faults have happened

netVars == <<net, faults>>

-----------------------------------------------------------------------------
(* The flags field of the header. *)
FIN == 1
SYN == 2
ACK == 4
ACK_FIN == 5
SYN_ACK == 6

(***************************************************************************)
(* A byte of client c's file is <<c, p>>, p its position counted from 1.   *)
(* Packets that carry no file data are still sent at full length by the    *)
(* client, padded with zeroes.                                             *)
(***************************************************************************)
Byte == (Clients \cup {NoAddr}) \X Nat
Payload(c, pos, n) == [i \in 1..n |-> <<c, pos + i>>]
Padding == [i \in 1..MSS |-> <<NoAddr, 0>>]

packet == [src : Clients \cup {Server}, dst : Clients \cup {Server, NoAddr},
           seq : Nat, ack : Nat, id : Nat, flags : Nat, data : Seq(Byte)]

(***************************************************************************)
(* set_header converts to network order and ntoh_reorder converts back, so *)
(* a packet built by one side reads the same on the other.  hton16 and     *)
(* hton32 are what a reader sees of a field sent WITHOUT the conversion    *)
(* by a little-endian host.                                                *)
(***************************************************************************)
hton16(x) == ((x % 256) * 256) + ((x \div 256) % 256)
hton32(x) == (hton16(x % 65536) * 65536) + hton16(x \div 65536)

(* The sequence number of file position p. *)
SeqAt(p) == (ISN + 1 + p) % SeqMod

-----------------------------------------------------------------------------
(***************************************************************************)
(* The network delivers packets in any order.  At most MaxFaults times it  *)
(* loses a packet, delivers one twice, or holds one back for longer than   *)
(* the retransmission timer of its client.  Two equal packets in flight    *)
(* are one element of net; that both arrive is a duplication.              *)
(***************************************************************************)
NetInit == net = {} /\ faults = 0

Fault == faults < MaxFaults /\ faults' = faults + 1

Send(out) == net' = net \cup out /\ UNCHANGED faults

Inbox(a) == {m \in net : m.dst = a}

(* Packet m is read by its receiver, which sends the packets out in reply. *)
Deliver(m, out) ==
    \/ net' = (net \ {m}) \cup out /\ UNCHANGED faults
    \/ net' = net \cup out /\ Fault

Lose(m) == net' = net \ {m} /\ Fault

(***************************************************************************)
(* A retransmission timer of a client expires and the packets out are      *)
(* sent.  The client waits that long only when it is idle, with nothing to *)
(* send and nothing in flight; otherwise a packet has been held back.      *)
(***************************************************************************)
InFlight(c) == {m \in net : c \in {m.src, m.dst}}

Expire(idle, out) ==
    /\ net' = net \cup out
    /\ IF idle THEN UNCHANGED faults ELSE Fault
=============================================================================
