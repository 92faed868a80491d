----------------------------- MODULE TcpStream -----------------------------
(***************************************************************************)
(* TCP as the upload programs of Project1 see it: one connection per       *)
(* client, a queue of connections that wait for accept, and bytes that     *)
(* arrive in order.  A byte counts as readable as soon as it is sent.  A   *)
(* host may vanish without a FIN, and its connection is reset when it      *)
(* comes back.                                                             *)
(***************************************************************************)
EXTENDS Integers, Sequences, FiniteSets, FiniteSetsExt

CONSTANTS
    Clients,
    BUF,            \* buf_size: bytes of one fread, send or recv
    Cap,            \* bytes a connection holds before send blocks
    Backlog         \* connections that may wait for accept

ASSUME TcpAssumption ==
    IsFiniteSet(Clients) /\ BUF \in Nat \ {0} /\ Cap \in Nat /\ Backlog \in Nat

VARIABLES
    link,           \* the connection of each client
    backlog,        \* clients whose connection waits for accept
    sent, rcvd,     \* bytes put into and taken out of each connection
    fin             \* clients that closed their socket

tcpVars == <<link, backlog, sent, rcvd, fin>>

Links == {"none", "waiting", "refused", "open", "closed", "reset"}

TcpInit ==
    /\ link = [c \in Clients |-> "none"]
    /\ backlog = <<>>
    /\ sent = [c \in Clients |-> 0]
    /\ rcvd = [c \in Clients |-> 0]
    /\ fin = {}

InFlight(c) == sent[c] - rcvd[c]

(* select, read side: data, end of file or an error *)
Readable(c) == InFlight(c) > 0 \/ c \in fin \/ link[c] = "reset"

(* select, write side: room for a whole block, or an error *)
Writable(c) == link[c] = "open" => InFlight(c) + BUF <= Cap

(* The handshake, by the server's kernel: answered while it listens and has room. *)
Handshake(c, listening) ==
    /\ link[c] = "waiting"
    /\ \/ /\ listening /\ Len(backlog) < Backlog
          /\ link' = [link EXCEPT ![c] = "open"]
          /\ backlog' = Append(backlog, c)
       \/ /\ ~listening
          /\ link' = [link EXCEPT ![c] = "refused"]
          /\ UNCHANGED backlog
    /\ UNCHANGED <<sent, rcvd, fin>>

(* The server's end of these connections is closed. *)
CloseLinks(cs) == link' = [c \in Clients |-> IF c \in cs /\ link[c] = "open" THEN "closed" ELSE link[c]]
=============================================================================
