------------------------------ MODULE MCRouter ------------------------------
(***************************************************************************)
(* Instances of SimpleRouter for TLC: hosts a, b and c, where the route    *)
(* that c matches names b as its dest, the packets p1 and p2 (a to c), p3  *)
(* (c to a), p4 and p5 (a to b), p6 (b to c), p7 (a to the router) and p8  *)
(* (b to a).                                                               *)
(***************************************************************************)
EXTENDS RouterInv

CONSTANTS a, b, c, p1, p2, p3, p4, p5, p6, p7, p8

MCSrc == [p \in Packets |-> CASE p = p3 -> c [] p \in {p6, p8} -> b [] OTHER -> a]
MCDst == [p \in Packets |->
            CASE p \in {p1, p2, p6} -> c [] p \in {p3, p8} -> a [] p \in {p4, p5} -> b [] OTHER -> NoIp]
MCNextHop == [i \in Routed |-> IF i = c /\ b \in Ips THEN b ELSE i]
=============================================================================
