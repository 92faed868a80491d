# Formal models of the UCLA CS118 projects

The repository holds three independent network programs. This directory models
all three in TLA+, model-checks the models with TLC and proves theorems about
each of them with TLAPS. File names below are relative to the repository's `src/`.

## 1. Inventory

| Program | Component | State | Operations | What is hard about it |
|---|---|---|---|---|
| CS118-Project2 *Confundo*, a reliable transport over UDP | client (`client.cpp`) | `seq_num`, `ack_num`, `id_num`, `CWND`, `SS_THRESH`, the free window `CWND_space`, the logs `CWND_logs`, the read position of the file | `handshake`, `slidingWindow_data_trans`, `ending` | retransmission against late ACKs, wrap-around of sequence numbers, timers that the wrong packet resets |
| | server (`server.cpp`) | ten slots `all_connection` (address, id, next expected number, file, FIN mark) | handlers for SYN, data/ACK and FIN in one receive loop | repeated SYNs, slots that are never released, a SYN echoed to other clients |
| | network | UDP datagrams | | loss, duplication, reordering, delay |
| CS118-Project3 simple router | packet handlers (`simple-router.cpp`) | interfaces | `handlePacket` and the ARP, IP and ICMP handlers below it, `reset` | every call of the ARP cache is a critical section of its own; a second thread runs in between |
| | ARP cache (`arp-cache.cpp`) | `m_cacheEntries`, `m_arpRequests`, `m_mutex` | lookup, insert, queue, `sendPendingPackets`, the 1 s ticker thread | one access path without the mutex; expiry, retries and late replies |
| | routing table (`routing-table.cpp`) | static entries | longest-prefix lookup | masks are compared in host byte order; throws when nothing matches |
| | checksum (`core/utils.cpp`), header fields | – | verify, rewrite and answer IP packets | fields of 8 and 16 bits that wrap, checksums rewritten in place |
| | Ice/POX link, printing, dumper (`core/`) | – | transport, output | external or pure |
| Project1 TCP upload | server (`server.cpp`) | `connection_num`, `clientSockfd`, descriptors, one thread and one file per connection | accept loop, handler thread, 10 s `select` timeout, signal handler | the handler thread reads the loop's variables through pointers and globals, at its own pace; any error ends the whole process; descriptors are not given back |
| | client (`client.cpp`) | socket, read position | nonblocking connect, send loop | a refused connection looks like a made one at first |

What makes the components correct:

* **Confundo.** The server's file is always a prefix of the client's, a client
  that says it is done has delivered the whole file, connection ids are not
  shared, the window never blocks the sender for good, every client process
  ends.
* **Router.** At most one valid entry and one request per address, a packet
  leaves at most once and is dropped from the queue only after all its tries, no
  packet waits for ever, the two threads do not corrupt each other's data.
* **Packets on the wire.** The longest matching prefix wins, what is sent on and
  what is answered has right checksums and addresses.
* **TCP upload.** Each connection has its own file and its own descriptor; a file
  holds what its client sent, or ERROR; one client cannot end the server for the
  others; every upload ends.

`PROJECT.json` lists the hazards behind these properties, each at its line.

## 2. Modules

| Module | Models | Uses |
|---|---|---|
| `ConfundoNet` | packets, byte order, sequence numbers, UDP and its faults, timers | – |
| `ConfundoServer` | the server's slots and its three handlers | `ConfundoNet` |
| `ConfundoClient` | the client's three phases | `ConfundoNet` |
| `Confundo` | the composition, its fairness and its properties | both |
| `FileTransfer` | the abstract specification: a file arrives piece by piece and is reported only when whole | – |
| `ConfundoInv` | the inductive invariant: ids and the prefix | `Confundo` |
| `ConfundoProofs` | its theorems | `ConfundoInv` |
| `ConfundoDelivery` | the second inductive invariant: acknowledgements and logs | `ConfundoInv` |
| `DeliveryProofs` | its theorems and the refinement of `FileTransfer` | `ConfundoDelivery`, `ConfundoProofs` |
| `MCConfundo` | constants for TLC | `ConfundoDelivery` |
| `ArpCache` | entries, requests, ticker thread, mutex | – |
| `SimpleRouter` | the handler thread, composed with `ArpCache`, and the properties | `ArpCache` |
| `RouterInv` | the inductive invariant | `SimpleRouter` |
| `RouterProofs` | the theorems | `RouterInv` |
| `MCRouter` | constants for TLC | `RouterInv` |
| `IpHeader` | IP and ICMP headers as words, the checksum | – |
| `RoutingTable` | the entries, `load`, `lookup`, and longest-prefix match as a reference | `IpHeader` |
| `RouterWire` | the way of one IP packet through the handlers, and its properties | `RoutingTable` |
| `WireInv` | its inductive invariant | `RouterWire` |
| `ChecksumProofs` | theorems about the checksum | `IpHeader` |
| `TableProofs` | theorems about the routing table | `RoutingTable`, `ChecksumProofs` |
| `WireProofs` | theorems about the packets | `WireInv`, `TableProofs` |
| `MCWire` | constants for TLC | `WireInv` |
| `TcpStream` | TCP connections (external) | – |
| `FileServer` | the upload server: main and its threads | `TcpStream` |
| `FileClient` | the upload client | `TcpStream` |
| `Upload` | the composition, its fairness and its properties | both |
| `UploadInv` | the inductive invariant | `Upload` |
| `UploadProofs` | the theorems | `UploadInv` |
| `MCUpload` | constants for TLC | `UploadInv` |

Operators whose comment begins with "Mutant" are altered forms of the definition
that follows them. No specification uses them: each stands for a plausible
mistake in the code that one property must notice.

### Confundo: state and actions

The variables have the names of the code. `phase` is the place of a client in
`main`: `start`, `synwait` (handshake), `open`, `top` and `recv` (the two halves
of the data loop's body), `fin`, `finwait`, `timewait` (`ending`), then `done` or
`failed`. One action stands for one turn of the corresponding loop:

* `SendSyn`, `SynTimeout`, `HandshakeRecv`, `HandshakeGiveUp`: `handshake` and
  `recv_pack`;
* `OpenFile`, then at the top of the data loop `SendNext`, `SkipSend` or
  `Retransmit`, and at its end `DataRecv`, `DataIdle` or `DataGiveUp`;
* `SendFin`, `FinTimeout`, `FinRecv`, `FinGiveUp`, `TimeWaitRecv`, `TimeWaitEnd`:
  `ending`;
* `RecvSyn`, `RecvData`, `RecvFin`: the three branches of the server's loop,
  including the echo of a SYN, with its header in the wrong byte order, to the
  clients of the slots it passes.

File contents are abstract bytes that know their client and position, so that a
byte in the wrong place is noticed. Packet and sequence sizes are parameters.
The 512-byte padding of control packets matters to the server, which counts the
bytes it received, and is kept.

**Faults.** `MaxFaults` bounds the number of losses, duplications and timers that
fire although the answer is still on its way. A retransmission timer fires for
free when nothing of the client is in flight. Reordering is free.

**Not in the model.** Command-line handling, socket set-up, output lines and the
text of error messages; the client's exit when its file cannot be read
(`client.cpp:220`), and the cut of the file's length to an `int` (`:163`, `:174`),
which no file below 2 GB meets.

### Router: state and actions

The ticker is `Wake` (take the mutex, age the entries), one `CheckRequest` per
request, and `Sweep`. Its sleep of a second makes `age` count ticks; an entry is
found too old at tick `SR_ARPCACHE_TO` or at the next, which assumes that the
sleeps of one entry's life overrun by less than a second in all. `timeSent` is
set while the mutex is held and the sleep that follows is at least a second
long, so the test of `handleArpRequest` on it always succeeds.

The handler thread is a small program counter `pc` with one step per critical
section: `RecvArp`/`RecvIp` (first lookup), `Known` or `Insert`, then
`AnswerIcmp`, `LookupDst`, `Forward`, `Queue`, `SendPending`, `RemoveRequest`;
and `reset` as `Reset` (clears the cache, under the mutex), `ClearIfaces` and
`ResetIfaces` (without it). The program starts in the last of these, with no
interfaces: until then, and whenever a frame names an unknown interface, the frame is
ignored, which is a step that changes nothing. Steps that take `m_mutex` need the ticker to be asleep;
`SendPending` and `RemoveRequest` do not, as in the code. What follows from that
is nondeterministic: `Race` and `CheckRemoved` may end the process or let it go
on. An exception on the ticker's thread or a null pointer ends the process
(`up = FALSE`).

External assumptions: Ice dispatches with a single thread (the default;
`router.config` sets no thread pool) and catches what a handler throws; the
interfaces that routes name exist. MAC addresses are left out: what matters is
whether an entry is there. A packet that was given up may come again; one that waits
or was sent on does not, so that `SentOnce` can count. The first `reset` runs on the
main thread, after the dispatcher was told of the handler (`core/main.cpp:108-111`);
that it may overlap the handling of a frame, which then sees part of the interfaces,
is left out.

### Router: packets on the wire

`SimpleRouter` has the interleaving and treats packets as names; `RouterWire` has
the bytes and treats the ARP cache as an oracle. A behaviour is the way of one
packet: routes are loaded, then `handleIpPacket` drops, echoes, answers, forwards
or queues the packet, and `sendPendingPackets` sends a queued one. `handleIcmpPacket`
is an operator of the two places that call it, as in the code: it reads the byte
after the IP header as an ICMP type whatever the protocol is.

A header is a record of the fields the handlers read or write. `IpWords` and
`IcmpWords` turn it into the words the checksum adds up; words that nobody touches
are constant summands and left out, an address and a mask are one word instead of
two. The size of a byte is the parameter `ByteSize`, and every field wraps at its width.
The arithmetic of the checksum (carries, complement, 0 stored as all ones) does
not depend on the size. Types, codes, lengths and the TTL of answers are
parameters that the configuration scales down. A mask is applied as in the code, bit
by bit: `Bits` is the set of the bits of a word. The host is little-endian, which
matters in two places: the masks `lookup` compares, and the byte of a checksum
that a `uint8_t` keeps. Packets too short for the headers the handlers read are left
out.

### TCP upload: state and actions

`main` is `Listen`, then `Accept`, `Count` and `Spawn` in turn: accept stores the
descriptor, the counter is incremented, the thread is created. A thread is cut
wherever it touches something shared: `Name` (reads `connection_num`), `Sock` (reads
`clientSockfd`), `Fopen` (`fcntl` and the first `fopen`), `SelectReady` or
`SelectTimeout`, `Reopen`, and `RecvData`, `RecvEnd`, `RecvError` or `WriteError` (an
`fwrite` that fails). All exits of the
code are there: `status` tells whether the process was stopped by a signal, ran out
of something (`limit`) or saw an error of a connection (`error`). `accepted` is a
history of what accept returned; `Raced` compares it with what the threads took.

`fds` is the descriptor table, of which accept takes the lowest free number; its
size is chosen in the initial state. Streams count against the limit, their
numbers are left out. A file is written at the position of the stream, so that two
threads with one file overwrite each other.

The client is `Connect`, `Connected` or `ConnectTimeout`, `OpenFile`, `SendBlock`,
`Finish` and `SendTimeout`. `Vanish` and `PeerReset` are a host that crashes and
later comes back.

Simplifications: what stdio buffers counts as written, since `exit` and `fclose`
flush it; bytes count as readable when sent, and a timeout may fire before they
arrive; a send takes its whole block, as `select` waits for room; that a full disk
may lose what was buffered without an error of `fwrite` is left out. On Linux `select` writes the remaining time back, so that the 10 s are
the sum of all waits of a connection: the model lets a timeout fire at any wait
and so covers both readings. `clientSockfd` is one variable, though its scope is
the loop's body: the compilers reuse its place in the frame.

## 3. Runs

Confundo, with MSS = 2 bytes, initial numbers 4 and 3, a size limit of 8 bytes
and an initial threshold of 5 bytes:

| Run | Instance | Shows |
|---|---|---|
| `transfer` | one client, a file of 7 bytes (four packets), sequence space 10, 2 slots, 2 faults | `TypeOK`, `PrefixDelivered`, `FinishedComplete`, `NothingForgotten`, `NeverBlocked`, the two inductive invariants `InductiveInv` and `DeliveryInv`, that Confundo implements `FileTransfer` (`TransferSpec`), and under fairness that one fault, wherever it happens, does not keep the client from its end (`OneFaultEnds`) |
| `sessions` | two clients on 2 slots, 1 fault, files of 2 bytes (which end with an empty packet) and 1 byte | `IdOwnership`, `TransferSpec` with several sessions, and under fairness `Terminates`, also of a client that finds no slot free |
| `livelock` | one client, 2 faults | `Terminates` is violated: finding 1 |
| `falseack` | two clients, no fault, a file whose end has sequence number 0 | `FinishedComplete` is violated: finding 2 |

Router:

| Run | Instance | Shows |
|---|---|---|
| `router` | three hosts, one without a route and one whose route names another; packets that wait for two routed addresses, two of them for the same one, and one each of a corrupt packet, one at its last hop, one for the router, one for no interface and one without a route; 1 try, entries live 1–2 ticks | `TypeOK`, `OneEntry`, `OneRequest`, `IfacesForRequests`, `SentOnce`, `TriedBeforeDrop`, the inductive invariant `InductiveInv`, and under fairness `NoEndlessWait` |
| `reply` | two hosts, a packet each way | `ReplyServes` is violated: finding 3 |
| `mutex` | the same | `NoRace` is violated: finding 4 |
| `noroute` | a packet for an address without a route | `NoRouteSurvived` is violated: finding 5 |
| `wire` | bytes of two bits; every TTL, three protocols, two lengths, echo or not; tables of up to two of ten routes with all prefix lengths | `TypeOK`, `RoutedByPrefix`, `SentOn`, `AnswerWellFormed` |
| `echo` | the same | `EchoVerifies` is violated: finding 7 |

TCP upload:

| Run | Instance | Shows |
|---|---|---|
| `upload` | two clients, one with two blocks (3 bytes of 2 + 1) and one with an empty file; two or four descriptors; a listen queue of 1 | `TypeOK`, `Stored`, `ErrorExplained`, `RefusedNoticed`, the inductive invariant `InductiveInv`, and under fairness `UploadsEnd` |
| `race` | the same with four descriptors | `OwnFile` is violated: finding 6 |

**Why the bounds are enough.** In `transfer` the sequence numbers wrap within the
file, the window opens past one packet, and two faults suffice for a packet to be
sent again and logged twice while its first copy and its ACK are still in
flight. `sessions` has more SYNs than slots: a SYN that is sent again takes the slot
of the other client. In `router` a request may expire, be answered late, be joined by a
second packet and be raced by the ticker, a second request waits behind one at which
the ticker's loop ends, and packets that were given up come again; entries expire
between any two calls of a handler. One try is enough for that: the ticker meets a
request that is to be sent and one that is to be given up, and more tries repeat the
first of these. `wire` has headers on
both sides of every edge: TTL 0, 1 and more, a checksum whose first byte is zero or
not, a length that wraps and the one length that is right. In `upload` one thread
can be overtaken by the other connection at either of its reads; four descriptors
let both uploads run at once, with two the server runs out of them at accept and at
`fopen`, also because of the one that the first upload left open. Deadlock is not
checked where the system may stop: clients exit, the router's process may
die, the upload server may exit, and a packet's way ends.

**Fairness.** Confundo: both programs keep running (weak fairness of their
steps), a timer that is consulted again and again fires in the end, and a client
that polls its socket between other steps reads what has arrived (strong
fairness, also of retransmission, which alternates with polling). The handshake's
10 s timer is reset only by the expected packet and is fair; those of the data
loop and of `ending` are reset by any packet, so nothing is assumed of them.
Router: the ticker thread never stops and the handler finishes what it began.
The handler's fairness is strong because the ticker takes the mutex in between,
once a second and for a short time. That a frame arrives, or a reset is ordered, is
not assumed. TCP upload: weak fairness of `main`, of each
thread and of each client; `select` returns within 10 s, so a waiting thread or
client always has a step, if only its timeout. Nothing is assumed of the network.

## 4. Findings

1. **A client may resend for ever** (`livelock`). After going back, one chunk is
   logged whose expected ACK number the server's cumulative ACK never equals
   again; every answer resets the 10 s timer and the window stays at 0.
2. **A SYN of another client may acknowledge data** (`falseack`). The echo has
   acknowledgement number 0 and the data loop looks at no flags. With the real
   constants a file of 90055 bytes ends where the expected ACK is 0.
3. **An ARP reply may be dropped although packets wait for it** (`reply`), if the
   mapping was learnt from an ARP request or an IP packet first.
4. **The list of requests is shared without a lock** (`mutex`).
5. **A packet without a route ends the router** (`noroute`): it is queued before a
   route is looked up, and the ticker's lookup throws.
6. **Two uploads may share a file** (`race`). A thread takes the number of its file
   from a global that the accept loop may have incremented again.
7. **An echo reply may carry wrong checksums** (`echo`). Its IP checksum is zeroed and
   stored through one of its two bytes (`CS118-Project3/simple-router.cpp:308-310`)
   and is wrong when that byte of the request's was zero; its ICMP checksum is that
   of no bytes at all, since `sizeof` a vector is not its length (`:286`, `:296`).
   The comments there promise a "valid ICMP packet" and a "checksum include data".
   The theorem `EchoesDamaged` says exactly which echoes are wrong.
8. **A packet that is given up is dropped without a word.** The header of the cache
   asks for "icmp host unreachable to source addr of all pkts waiting"
   (`CS118-Project3/arp-cache.hpp:29`, again at `:52`); the code only removes the
   request (`arp-cache.cpp:80`) and says "That's an extra credit, leave for later".
   No action of the model sends that message, so no run is needed to show that it is
   missing. `TriedBeforeDrop` is about what the code does promise: the drop comes
   after all the tries.

Stated exactly by a property that holds, because the code is consistent in it and no
document says otherwise:

* a packet that waits for an ARP reply keeps its TTL, and TTL 0 wraps to 255
  (`SentOn`);
* an answer has the right length only for packets of 60 bytes (`AnswerWellFormed`);
* a client with an empty file reports success although its connection was refused
  (`RefusedNoticed`).

Noticed while modelling, without a property of their own: the FIN is sent again
after 1 s where the comment says "0.5 second" (`CS118-Project2/client.cpp:458`),
since whole seconds are compared; the ACK flag of the handshake's third step is set
on the first data packet only (`client.cpp:164`); the slot of a Confundo client that
is gone is never released, since the check of a timeout "at the beginning of the
while(1) loop" (`CS118-Project2/README.md:53`) is commented out
(`CS118-Project2/server.cpp:242`); a UDP packet for the router whose source port
begins with byte 8 is taken for an echo request; an upload whose client gives up
half-way is stored as if it were complete, since the server sees the same end of
file.

## 5. Theorems

Each program has an inductive invariant in a module of its own (the router one for
the threads and one for the bytes) and a proof
module with one lemma per action. The theorems hold for every value of the constants
that satisfies the assumptions next to their declarations; most of these are typing
assumptions, the others are named below. What a program relies on and does not ensure
is not assumed: it is a hypothesis, written in the statement of each theorem that
needs it.

### Confundo: types, ids and the prefix (`ConfundoProofs`)

For any set of clients, any number of slots and faults, any packet size and any
files:

| Theorem | Statement |
|---|---|
| `TypeCorrect` | `Spec => []TypeOK` |
| `InvariantHolds` | `Spec => []InductiveInv` |
| `OwnershipHolds` | `Spec => []IdOwnership` |
| `PrefixHolds` | `BoundariesDistinct => (Spec => []PrefixDelivered)` |

**Hypothesis.** `BoundariesDistinct`: the positions at which packets of one file
start or end have different sequence numbers. With 512-byte packets and 102401
numbers, which are coprime, full-size boundaries repeat only after 102401 packets
(about 52 MB); the end of a file longer than the sequence space may collide earlier.
Without it an old packet could be appended as a new one. Types, ids and the
invariant do without it.

**Argument.** `PrefixDelivered` is not inductive: whether the server appends the
right bytes depends on what is in flight, which depends on what the client read.
`InductiveInv` adds

* `SlotInv`: a slot is unused, or belongs to a client; if boundaries are distinct,
  its file is a prefix that ends at a packet boundary and its expected number is the
  one of that boundary (`HoldsPrefix`);
* `NetInv`: a packet for the server is a SYN, a chunk with the number of its
  position, a FIN, or an ACK sent after the server's FIN; a SYN-ACK names a slot
  of its receiver;
* `ClientInv`: read position and logs are boundaries with their numbers, and the
  client owns the slot its id names.

A data packet is appended only if its number is the expected one; both are
numbers of boundaries, so with `BoundariesDistinct` the positions are the same and
the copy grows by the right bytes. The types of the read position and the invariant are proved
together, one lemma per action.

### Confundo: delivery and refinement (`DeliveryProofs`)

| Theorem | Statement |
|---|---|
| `WindowHolds` | `Spec => []WindowInv` |
| `NeverBlockedHolds` | `Spec => []NeverBlocked` |
| `DeliveryHolds` | `NoFalseAck /\ BoundariesDistinct => (Spec => []DeliveryInv)` |
| `FinishedHolds` | `NoFalseAck /\ BoundariesDistinct => (Spec => []FinishedComplete)` |
| `NothingForgottenHolds` | `NoFalseAck /\ BoundariesDistinct => (Spec => []NothingForgotten)` |
| `TransferHolds` | `NoFalseAck /\ BoundariesDistinct => (Spec => TransferSpec)` |
| `ShortFilesDistinct` | `(\A c \in Clients : FileLen[c] < SeqMod) => BoundariesDistinct` |
| `ShortFilesNoFalseAck` | `(\A c \in Clients : ISN + 1 + FileLen[c] < SeqMod) => NoFalseAck` |
| `ShortFilesDelivered` | `(\A c \in Clients : ISN + 1 + FileLen[c] < SeqMod) => (Spec => TransferSpec)` |

**Hypotheses.** `NoFalseAck`: no packet of a file ends at sequence number 0. The
program does not ensure it: `falseack` has a file that breaks it, and there
`FinishedComplete` fails (finding 2). With the real constants 90055 bytes is the
shortest such file. `BoundariesDistinct` is the hypothesis of `PrefixHolds`: a true
acknowledgement of an old packet must not be taken for that of another. The last
three theorems say which files satisfy both: all whose sequence numbers do not wrap,
which are those of up to 90054 bytes. Files that wrap may satisfy them too, as the
one of `transfer` does. `WindowHolds` and `NeverBlockedHolds` need neither.

**Argument.** `FinishedComplete` depends on what the acknowledgements in flight
say and on what the logs still cover. `DeliveryInv` adds

* `WindowInv`: the congestion window is at least a packet, and a client in the data
  loop has a log outstanding, or room in its window and more to read;
* `OneCopy`: of the slots that repeated SYNs took for a client, only the one it
  uses receives anything;
* `FinLast`: a FIN, in flight or received, was sent after the data loop;
* `AcksTrue`: an ACK in flight carries the number of a boundary the server has
  reached, unless the server has answered the FIN; an echoed SYN carries 0, which
  by `NoFalseAck` no log waits for;
* `LogsCover`: the logs describe all that was read and is not delivered.

`LogsCover` is the part that is hard to find. Timeouts go back in the file and
leave the logs out of its order, and an ACK removes the log it names and those in
front of it, so that "every byte is in some log" is not inductive. What is:
the last log ends at the read position, some log starts where the server has
everything before it, and no packet starts behind the end of the one logged before
it unless the server has what lies between. From these `CoverAll` derives that
every byte that was read and is not delivered is logged: from the log that starts at
delivered data on, the first one that reaches the byte starts before it, since the
one before ended short of it. What the log that a true ACK names described is
delivered, so that the log after it starts at delivered data again.

`TransferHolds` proves the refinement step by step: the client's end of the data
loop, the arrival of an expected packet and a client that gives up are steps of
`FileTransfer`; every other step leaves the mapped variables alone. `FinishedComplete`
gives the guard of the first, `InvariantHolds` the bytes of the second.
`TransferSpec` has no fairness, so nothing of it is left to TLC.

### Router (`RouterProofs`)

For any sets of hosts, routed hosts and packets, and any limits of tries and
ticks:

| Theorem | Statement |
|---|---|
| `RouterInvariant` | `Spec => [](TypeOK /\ InductiveInv)` |
| `RouterTypes` | `Spec => []TypeOK` |
| `OneEntryHolds` | `Spec => []OneEntry` |
| `OneRequestHolds` | `Spec => []OneRequest` |
| `IfacesForRequestsHolds` | `Spec => []IfacesForRequests` |
| `SentOnceHolds` | `Spec => []SentOnce` |
| `TriedBeforeDropHolds` | `Spec => TriedBeforeDrop` (an action property) |

**Assumptions.** Routed hosts are hosts (`RoutedAssumption`), both limits are at
least 1 (`TimesAssumption`), the address of no interface is none of a host's.

**Argument.** None of the properties is inductive, since the handler acts on what
it read in an earlier critical section. `InductiveInv` says what it may rely on
meanwhile: the frame it holds fits its step (`FrameInv`); an address about to be
inserted is not in the cache, as the ticker only removes (`InsertInv`, for
`OneEntry`); interfaces are missing only at the start and in a reset, when the queue is
empty (`ResetInv`, for `IfacesForRequests`); a packet is in the request for its own
address, once (`QueueInv`), and the one the handler works on is in none (`PacketInv`);
what is in the queue is unsent, except for the
request that is about to be removed (`SentInv`, for `SentOnce`). `AgeInv` relates
ages to validity and bounds them.

### Router: packets on the wire (`ChecksumProofs`, `TableProofs`, `WireProofs`)

For any packets, any table of any length, any interfaces and any size of a byte:

| Theorem | Statement |
|---|---|
| `VerifiesSame` | a sequence of words verifies if and only if it adds up to a multiple of the largest word |
| `LookupLongest` | if masks are those of prefixes, `lookup` returns a longest match, and throws only if there is none |
| `WireInvariant` | `Spec => [](TypeOK /\ InductiveInv)` |
| `WireTypes` | `Spec => []TypeOK` |
| `SentOnHolds` | `Spec => []SentOn` |
| `AnswersWellFormed` | `Spec => []AnswerWellFormed` |
| `EchoesDamaged` | `Spec => []EchoDamage` |
| `RoutesByPrefix` | `PrefixMasked` implies `Spec => []RoutedByPrefix` |

**Assumptions** beyond typing: the ICMP types of the two answers differ, the largest
length the code computes for an answer fits the field, and `NoRoute`, which stands
for the exception of `lookup`, is not a line of the file.

**Hypothesis.** `PrefixMasked`: the masks of the table are those of prefixes. Nothing
checks it when the table is loaded. The code compares masks in host byte order; for
other masks the larger number need not be the longer match.

**Argument.**

* *Checksum.* Adding the carries again keeps a sum modulo the largest word and turns
  a sum that is not zero into a word that is not zero; so `Verifies` holds if and
  only if the sum is a multiple of the largest word (`VerifiesSame`). Setting the sum
  field to the complement of the rest makes the whole a multiple. Setting only its
  first byte, as the code does for an echo, makes it one exactly if the byte that was
  there was not zero: this is the case split behind `EchoDamage`, the exact extent of
  finding 7.
* *Recursion.* `WordSum`, `Folded` and `lookup` are recursive functions. That a
  function with the recursive equation exists, and that a fact about it holds for
  every argument, is proved by the least argument for which it fails.
* *Table.* The masks of prefixes have the same order as numbers and as the numbers
  with swapped bytes that the code compares, so the last entry that was better is a
  longest one.
* *Packets.* The properties are not inductive because a packet may wait for the ARP
  cache and be sent in a later step: `QueuedInv` keeps what was tested when it came
  (a right checksum, an address that is not the router's, hops left).

### TCP upload (`UploadProofs`)

For any finite set of clients, any files, block size, backlog and descriptor
limits:

| Theorem | Statement |
|---|---|
| `UploadInvariant` | `Spec => [](TypeOK /\ InductiveInv)` |
| `UploadTypes` | `Spec => []TypeOK` |
| `StoredHolds` | `Spec => []Stored` |
| `ErrorExplainedHolds` | `Spec => []ErrorExplained` |
| `RefusedNoticedHolds` | `Spec => []RefusedNoticed` |

**Assumptions.** The set of clients is finite, since there is a thread for each,
and the mark of a free descriptor is not a client.

**Argument.** `Stored` speaks of files and `ErrorExplained` of the end of the
process; both depend on which thread has which descriptor. `InductiveInv` adds that
a client has at most one connection (`ConnectionInv`), that `connection_num` counts
what was accepted (`MainInv`), what a thread holds at each step (`ThreadInv`), what
a client sent (`ClientInv`), and, as long as no thread was overtaken by accept,
that each thread reads the descriptor of its own connection, from which nobody else
has read (`OwnInv`). Finding 6 is the case that `OwnInv` leaves out, as the two
properties themselves do: once a thread was overtaken, nothing is promised of the
files.

### Only model-checked

* **Liveness** (`Terminates`, `OneFaultEnds`, `NoEndlessWait`, `UploadsEnd`): it needs fairness and
  ENABLED, which the prover does not handle.
* **What a violation run refutes** (`ReplyServes`, `NoRace`, `NoRouteSurvived`,
  `OwnFile`, `EchoVerifies`, and `FinishedComplete` without `NoFalseAck`).

Every invariant, action property and refinement that a passing run checks is proved.

## 6. Not modelled, and the plan

Not modelled: the packet dumper (unused, pure I/O), the Ice transport and the
start-up of the router (external; it loads the table and starts the dispatcher),
the printing of headers and addresses (pure output), command lines and the text of
configuration files. The upload client does not continue a send that takes
part of a block; with `select` waiting for room and blocks of 1024 bytes the kernel
takes them whole, and the model does the same. That a forwarded packet's second ARP lookup may fail is an outcome of
`Forward`, with no statement in the repository to hold it against.

Next: Confundo with explicit time for the 0.5 s and 10 s timers, to say when a timer
may fire instead of how often.
