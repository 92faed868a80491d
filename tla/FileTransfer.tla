---------------------------- MODULE FileTransfer ----------------------------
(***************************************************************************)
(* What Confundo promises, without packets, windows or timers: the server  *)
(* receives every client's file in order, a piece at a time, and a client  *)
(* reports its file as sent only when the server's copy is whole.          *)
(***************************************************************************)
EXTENDS Integers, Sequences

CONSTANTS
    Clients,
    MSS,            \* the most bytes that arrive in one piece
    FileLen,        \* length of each client's file, -1 when it has none
    Content(_, _)   \* Content(c, n) is the first n bytes of client c's file

VARIABLES
    copy,           \* the server's copy of each client's file
    outcome         \* what each client reports

Init ==
    /\ copy = [c \in Clients |-> <<>>]
    /\ outcome = [c \in Clients |-> "sending"]

(* The server appends the next piece; packets of a client that gave up may still arrive. *)
Receive(c) ==
    /\ outcome[c] # "sent"
    /\ \E n \in 1..MSS :
         /\ Len(copy[c]) + n <= FileLen[c]
         /\ copy' = [copy EXCEPT ![c] = Content(c, Len(@) + n)]
    /\ UNCHANGED outcome

Report(c) ==
    /\ outcome[c] = "sending"
    /\ copy[c] = Content(c, FileLen[c])
    /\ outcome' = [outcome EXCEPT ![c] = "sent"]
    /\ UNCHANGED copy

(* The transfer may fail, or the closing of the connection after it. *)
Fail(c) ==
    /\ outcome' = [outcome EXCEPT ![c] = "failed"]
    /\ UNCHANGED copy

Next == \E c \in Clients : Receive(c) \/ Report(c) \/ Fail(c)

Spec == Init /\ [][Next]_<<copy, outcome>>
=============================================================================
