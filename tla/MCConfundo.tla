----------------------------- MODULE MCConfundo -----------------------------
(***************************************************************************)
(* Instances of Confundo for TLC: up to two clients, whose files have      *)
(* lengths Len1 and Len2 (-1: the file cannot be opened).                  *)
(***************************************************************************)
EXTENDS ConfundoDelivery, TLC

CONSTANTS c1, c2, Len1, Len2

MCFileLen == [c \in Clients |-> IF c = c1 THEN Len1 ELSE Len2]
=============================================================================
