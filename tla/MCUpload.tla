------------------------------ MODULE MCUpload ------------------------------
(***************************************************************************)
(* Instances of Upload for TLC: client c1 has two blocks to send, the last *)
(* of them short, and c2 an empty file.                                    *)
(***************************************************************************)
EXTENDS UploadInv

CONSTANTS c1, c2

MCFileLen == [x \in Clients |-> IF x = c1 THEN 3 ELSE 0]
=============================================================================
