------------------------------ MODULE IpHeader ------------------------------
(***************************************************************************)
(* IP and ICMP headers as 16-bit words, and their checksum (utils.cpp).    *)
(* The size of a byte is a parameter, so that all headers can be tried.    *)
(* Words that no handler of the router looks at or changes are left out,   *)
(* and an address is one word.                                             *)
(***************************************************************************)
EXTENDS Integers, Sequences, SequencesExt

CONSTANT ByteSize                   \* 256

ASSUME ByteAssumption == ByteSize \in Nat \ {0, 1}

WordSize == ByteSize * ByteSize
Byte == 0..(ByteSize - 1)
Word == 0..(WordSize - 1)

(* ip_hdr, then icmp_hdr, then what follows *)
Packet == [ip_len : Word, ip_ttl : Byte, ip_p : Byte, ip_sum : Word, ip_src : Word, ip_dst : Word,
           icmp_type : Byte, icmp_code : Byte, icmp_sum : Word, data : Seq(Word)]

IpWords(p) == <<p.ip_len, ByteSize * p.ip_ttl + p.ip_p, p.ip_sum, p.ip_src, p.ip_dst>>
IcmpWords(p) == <<ByteSize * p.icmp_type + p.icmp_code, p.icmp_sum>> \o p.data

(* data[0] << 8 | data[1] of each word, added up *)
WordSum(words) ==
    LET sum[k \in 0..Len(words)] == IF k = 0 THEN 0 ELSE sum[k - 1] + words[k]
    IN  sum[Len(words)]

(* The carries are added again until none is left. *)
Folded[n \in Nat] == IF n < WordSize THEN n ELSE Folded[(n \div WordSize) + (n % WordSize)]

(***************************************************************************)
(* The result is the word in network order, as it is stored in memory; a   *)
(* length of 0 or less is the empty sequence.                              *)
(***************************************************************************)
cksum(words) ==
    LET c == WordSize - 1 - Folded[WordSum(words)]
    IN  IF c = 0 THEN WordSize - 1 ELSE c

AllOnes == WordSize - 1
Verifies(words) == cksum(words) = AllOnes

(* The first byte of a word in memory, which a little-endian host takes for its low byte *)
FirstByte(w) == w \div ByteSize
=============================================================================
