----------------------------- MODULE WireProofs -----------------------------
(***************************************************************************)
(* What the simple router puts on the wire, for any table, any packets and *)
(* any size of a byte.                                                     *)
(***************************************************************************)
EXTENDS WireInv, TableProofs

-----------------------------------------------------------------------------
(* Headers as words. *)

(* Two bytes make a word. *)
LEMMA TwoBytes ==
  ASSUME NEW hi \in Byte, NEW lo \in Byte
  PROVE  ByteSize * hi + lo \in Word /\ FirstByte(ByteSize * hi + lo) = hi /\ (ByteSize * hi + lo) % ByteSize = lo
<1>1. hi \in Nat /\ lo \in Nat /\ hi <= ByteSize - 1 /\ lo <= ByteSize - 1
  BY Sizes DEF Byte
<1>2. ByteSize * hi <= ByteSize * (ByteSize - 1)
  <2>1. ByteSize * (ByteSize - 1) = ByteSize * hi + ByteSize * ((ByteSize - 1) - hi)
    BY <1>1, Sizes
  <2>2. ByteSize * ((ByteSize - 1) - hi) >= 0
    BY <1>1, Sizes
  <2>. QED BY <1>1, <2>1, <2>2, Sizes
<1>3. ByteSize * hi + lo \in Word
  BY <1>1, <1>2, Sizes DEF Word
<1>4. ByteSize * hi + lo \in Int /\ ByteSize \in Nat \ {0} /\ hi \in Int /\ lo \in 0..(ByteSize - 1)
  BY <1>1, <1>3, Sizes
<1>5. (ByteSize * hi + lo) \div ByteSize = hi /\ (ByteSize * hi + lo) % ByteSize = lo
  BY <1>4, DivModUnique
<1>. QED BY <1>3, <1>5 DEF FirstByte

(* A word is its two bytes. *)
LEMMA BytesOf ==
  ASSUME NEW w \in Word
  PROVE  FirstByte(w) \in Byte /\ w % ByteSize \in Byte /\ w = ByteSize * FirstByte(w) + (w % ByteSize)
<1> DEFINE hi == w \div ByteSize
           lo == w % ByteSize
<1>1. w \in Int /\ w >= 0 /\ w <= WordSize - 1
  BY Sizes DEF Word
<1>2. hi \in Int /\ lo \in 0..(ByteSize - 1) /\ w = ByteSize * hi + lo
  <2>1. ByteSize \in Nat \ {0}
    BY Sizes
  <2>. QED BY <1>1, <2>1, DivMod
<1> HIDE DEF hi, lo
<1>3. ~(hi >= ByteSize)
  <2> SUFFICES ASSUME hi >= ByteSize PROVE FALSE
    OBVIOUS
  <2>1. ByteSize * hi = ByteSize * ByteSize + ByteSize * (hi - ByteSize) /\ ByteSize * (hi - ByteSize) >= 0
    BY <1>2, Sizes
  <2>. QED BY <1>1, <1>2, <2>1, Sizes
<1>4. ~(hi <= -1)
  <2> SUFFICES ASSUME hi <= -1 PROVE FALSE
    OBVIOUS
  <2>1. ByteSize * hi = (0 - ByteSize) - ByteSize * (-1 - hi) /\ ByteSize * (-1 - hi) >= 0
    BY <1>2, Sizes
  <2>. QED BY <1>1, <1>2, <2>1, Sizes
<1>. QED BY <1>2, <1>3, <1>4, Sizes DEF hi, lo, FirstByte, Byte

(* A sequence of words is one of numbers. *)
LEMMA WordSeq ==
  ASSUME NEW words \in Seq(Word)
  PROVE  words \in Seq(Nat)
<1>1. Word \subseteq Nat
  BY Sizes DEF Word
<1>2. words \in [1..Len(words) -> Word] /\ Len(words) \in Nat
  OBVIOUS
<1>3. words \in [1..Len(words) -> Nat]
  BY <1>1, <1>2
<1>. QED BY <1>2, <1>3

(* The words of an IP header, and their sum *)
LEMMA IpSum ==
  ASSUME NEW p \in Packet
  PROVE  /\ IpWords(p) \in Seq(Word) /\ IpWords(p) \in Seq(Nat)
         /\ ByteSize * p.ip_ttl + p.ip_p \in Nat
         /\ WordSum(IpWords(p)) = p.ip_len + (ByteSize * p.ip_ttl + p.ip_p) + p.ip_sum + p.ip_src + p.ip_dst
<1>1. /\ p.ip_len \in Word /\ p.ip_sum \in Word /\ p.ip_src \in Word /\ p.ip_dst \in Word
      /\ p.ip_ttl \in Byte /\ p.ip_p \in Byte
  BY DEF Packet
<1>2. ByteSize * p.ip_ttl + p.ip_p \in Word
  BY <1>1, TwoBytes
<1>3. Word \subseteq Nat
  BY Sizes DEF Word
<1> DEFINE w == ByteSize * p.ip_ttl + p.ip_p
<1>4. w \in Word
  BY <1>2
<1>5. IpWords(p) = <<p.ip_len, w, p.ip_sum, p.ip_src, p.ip_dst>>
  BY DEF IpWords
<1> HIDE DEF w
<1>6. IpWords(p) \in Seq(Word) /\ IpWords(p) \in Seq(Nat)
  <2>1. IpWords(p) \in Seq(Word)
    BY <1>1, <1>4, <1>5
  <2>. QED BY <2>1, WordSeq
<1>7. WordSum(IpWords(p)) = p.ip_len + w + p.ip_sum + p.ip_src + p.ip_dst
  <2>1. /\ Len(IpWords(p)) = 5
        /\ IpWords(p)[1] = p.ip_len /\ IpWords(p)[2] = w /\ IpWords(p)[3] = p.ip_sum
        /\ IpWords(p)[4] = p.ip_src /\ IpWords(p)[5] = p.ip_dst
    BY <1>5
  <2>. QED BY <1>6, <2>1, SumOfFive
<1>. QED BY <1>3, <1>4, <1>6, <1>7 DEF w

(* The words of an ICMP message *)
LEMMA IcmpSeq ==
  ASSUME NEW p \in Packet
  PROVE  /\ IcmpWords(p) \in Seq(Word) /\ IcmpWords(p) \in Seq(Nat)
         /\ Len(IcmpWords(p)) = 2 + Len(p.data)
         /\ IcmpWords(p)[1] = ByteSize * p.icmp_type + p.icmp_code
         /\ IcmpWords(p)[2] = p.icmp_sum
         /\ \A k \in 3..(2 + Len(p.data)) : IcmpWords(p)[k] = p.data[k - 2]
<1>1. p.icmp_type \in Byte /\ p.icmp_code \in Byte /\ p.icmp_sum \in Word /\ p.data \in Seq(Word)
  BY DEF Packet
<1>2. ByteSize * p.icmp_type + p.icmp_code \in Word
  BY <1>1, TwoBytes
<1>3. Word \subseteq Nat
  BY Sizes DEF Word
<1> DEFINE w == ByteSize * p.icmp_type + p.icmp_code
<1>4. w \in Word
  BY <1>2
<1>5. IcmpWords(p) = <<w, p.icmp_sum>> \o p.data
  BY DEF IcmpWords
<1> HIDE DEF w
<1>6. IcmpWords(p) \in Seq(Word)
  BY <1>1, <1>4, <1>5
<1>7. IcmpWords(p) \in Seq(Nat)
  BY <1>6, WordSeq
<1>8. /\ Len(IcmpWords(p)) = 2 + Len(p.data) /\ IcmpWords(p)[1] = w /\ IcmpWords(p)[2] = p.icmp_sum
      /\ \A k \in 3..(2 + Len(p.data)) : IcmpWords(p)[k] = p.data[k - 2]
  BY <1>1, <1>4, <1>5
<1>. QED BY <1>6, <1>7, <1>8 DEF w

-----------------------------------------------------------------------------
(* What the router writes into a header. *)

(* A byte is a number below the size of a byte, 0 is a byte and a word. *)
LEMMA Zero == 0 \in Byte /\ 0 \in Word /\ Word \subseteq Nat /\ Byte \subseteq Nat
BY Sizes DEF Byte, Word

(* A header whose checksum was computed over a zero field verifies (handleIpPacket). *)
LEMMA WithSumVerifies ==
  ASSUME NEW p \in Packet
  PROVE  /\ WithSum(p) \in Packet /\ Verifies(IpWords(WithSum(p)))
         /\ \E c \in Word : WithSum(p) = [p EXCEPT !.ip_sum = c]
<1> DEFINE q == [p EXCEPT !.ip_sum = 0]
           c == cksum(IpWords(q))
           r == [p EXCEPT !.ip_sum = c]
<1>1. q \in Packet /\ q.ip_sum = 0
  BY Zero DEF Packet
<1>2. /\ q.ip_len = p.ip_len /\ q.ip_ttl = p.ip_ttl /\ q.ip_p = p.ip_p
      /\ q.ip_src = p.ip_src /\ q.ip_dst = p.ip_dst
  BY DEF Packet
<1> HIDE DEF q
<1>3. IpWords(q) \in Seq(Nat)
  BY <1>1, IpSum
<1>4. c \in Word /\ c \in Nat /\ Same(WordSum(IpWords(q)) + c, 0)
  BY <1>3, CksumWord, Zero
<1>5. WithSum(p) = r
  BY DEF WithSum, q
<1> HIDE DEF c
<1>6. r \in Packet /\ r.ip_sum = c
  BY <1>4 DEF Packet
<1>7. /\ r.ip_len = p.ip_len /\ r.ip_ttl = p.ip_ttl /\ r.ip_p = p.ip_p
      /\ r.ip_src = p.ip_src /\ r.ip_dst = p.ip_dst
  BY DEF Packet
<1>8. \E cc \in Word : r = [p EXCEPT !.ip_sum = cc]
  BY <1>4
<1> HIDE DEF r
<1> DEFINE w == ByteSize * p.ip_ttl + p.ip_p
<1>9. /\ w \in Nat
      /\ WordSum(IpWords(q)) = p.ip_len + w + 0 + p.ip_src + p.ip_dst
      /\ WordSum(IpWords(r)) = p.ip_len + w + c + p.ip_src + p.ip_dst
  BY <1>1, <1>2, <1>6, <1>7, IpSum
<1> HIDE DEF w
<1>10. p.ip_len \in Nat /\ p.ip_src \in Nat /\ p.ip_dst \in Nat
  BY Zero DEF Packet
<1>11. WordSum(IpWords(r)) = WordSum(IpWords(q)) + c
  BY <1>4, <1>9, <1>10
<1>12. Verifies(IpWords(r))
  <2>1. IpWords(r) \in Seq(Nat)
    BY <1>6, IpSum
  <2>. QED BY <1>4, <1>11, <2>1, VerifiesSame
<1>. QED BY <1>5, <1>6, <1>8, <1>12

(* The TTL is a byte that loses one, and 0 wraps. *)
LEMMA LessByte ==
  ASSUME NEW ttl \in Byte
  PROVE  Less(ttl) \in Byte /\ Less(ttl) = IF ttl = 0 THEN ByteSize - 1 ELSE ttl - 1
<1>1. ttl \in Nat /\ ttl <= ByteSize - 1 /\ ByteSize \in Nat \ {0} /\ ttl - 1 \in Int
  BY Sizes DEF Byte
<1>2. CASE ttl = 0
  <2>1. ttl - 1 = ByteSize * (0 - 1) + (ByteSize - 1) /\ ByteSize - 1 \in 0..(ByteSize - 1) /\ 0 - 1 \in Int
    BY <1>1, <1>2, Sizes
  <2>2. (ttl - 1) % ByteSize = ByteSize - 1
    BY <1>1, <2>1, DivModUnique
  <2>. QED BY <1>2, <2>1, <2>2 DEF Less, Byte
<1>3. CASE ttl # 0
  <2>1. ttl - 1 = ByteSize * 0 + (ttl - 1) /\ ttl - 1 \in 0..(ByteSize - 1) /\ 0 \in Int
    BY <1>1, <1>3, Sizes
  <2>2. (ttl - 1) % ByteSize = ttl - 1
    BY <1>1, <2>1, DivModUnique
  <2>. QED BY <1>3, <2>1, <2>2 DEF Less, Byte
<1>. QED BY <1>2, <1>3

(* A header that is sent on differs in its TTL and its checksum only, and verifies. *)
LEMMA ForwardedOk ==
  ASSUME NEW p \in Packet
  PROVE  /\ Forwarded(p) \in Packet /\ Verifies(IpWords(Forwarded(p)))
         /\ Forwarded(p).ip_ttl = Less(p.ip_ttl)
         /\ [Forwarded(p) EXCEPT !.ip_ttl = p.ip_ttl, !.ip_sum = p.ip_sum] = p
<1> DEFINE q == [p EXCEPT !.ip_ttl = Less(@)]
<1>1. p.ip_ttl \in Byte
  BY DEF Packet
<1>2. Less(p.ip_ttl) \in Byte
  BY <1>1, LessByte
<1>3. q \in Packet /\ q.ip_ttl = Less(p.ip_ttl)
  BY <1>2 DEF Packet
<1>4. Forwarded(p) = WithSum(q)
  BY DEF Forwarded
<1>5. PICK c \in Word : WithSum(q) = [q EXCEPT !.ip_sum = c]
  <2> HIDE DEF q
  <2>. QED BY <1>3, WithSumVerifies
<1>6. [[q EXCEPT !.ip_sum = c] EXCEPT !.ip_ttl = p.ip_ttl, !.ip_sum = p.ip_sum] = p
  BY <1>2 DEF Packet
<1>7. [q EXCEPT !.ip_sum = c].ip_ttl = Less(p.ip_ttl)
  BY <1>2 DEF Packet
<1> HIDE DEF q
<1>. QED BY <1>3, <1>4, <1>5, <1>6, <1>7, WithSumVerifies

(* The multiples of the largest word *)
LEMMA SameMod ==
  ASSUME NEW n \in Nat
  PROVE  Same(n, 0) <=> n % AllOnes = 0
<1>1. n \in Int /\ AllOnes \in Nat \ {0}
  BY Sizes
<1>2. n \div AllOnes \in Int /\ n = AllOnes * (n \div AllOnes) + (n % AllOnes)
  BY <1>1, DivMod
<1>3. ASSUME n % AllOnes = 0 PROVE Same(n, 0)
  <2>1. n = 0 + (n \div AllOnes) * AllOnes
    BY <1>1, <1>2, <1>3
  <2>. QED BY <1>2, <2>1 DEF Same
<1>4. ASSUME Same(n, 0) PROVE n % AllOnes = 0
  <2>1. PICK k \in Int : n = 0 + k * AllOnes
    BY <1>4 DEF Same
  <2>2. n = AllOnes * k + 0 /\ 0 \in 0..(AllOnes - 1)
    BY <2>1, Sizes
  <2>. QED BY <1>1, <2>2, DivModUnique
<1>. QED BY <1>3, <1>4

(***************************************************************************)
(* The checksum of an echo reply, of which one byte is zeroed and stored   *)
(* again: it comes out right unless that byte was zero (handleIcmpPacket). *)
(***************************************************************************)
LEMMA EchoSumOk ==
  ASSUME NEW p \in Packet, Verifies(IpWords(p))
  PROVE  \E c \in Word : /\ EchoSum(p) = [p EXCEPT !.ip_sum = c]
                         /\ Verifies(IpWords([p EXCEPT !.ip_sum = c])) <=> FirstByte(p.ip_sum) # 0
<1> DEFINE h == FirstByte(p.ip_sum)
           l == p.ip_sum % ByteSize
           half == [p EXCEPT !.ip_sum = @ % ByteSize]
           c == cksum(IpWords(half))
           d == ByteSize * FirstByte(c) + l
           r == [p EXCEPT !.ip_sum = d]
           s == p.ip_len + (ByteSize * p.ip_ttl + p.ip_p) + p.ip_src + p.ip_dst
<1>1. p.ip_sum \in Word /\ p.ip_len \in Nat /\ p.ip_src \in Nat /\ p.ip_dst \in Nat
  BY Zero DEF Packet
<1>2. h \in Byte /\ l \in Byte /\ p.ip_sum = ByteSize * h + l
  BY <1>1, BytesOf
<1>3. h \in Nat /\ l \in Nat /\ l \in Word /\ h <= ByteSize - 1
  BY <1>2, Sizes DEF Byte, Word
<1>4. half \in Packet /\ half.ip_sum = l
  BY <1>3 DEF Packet
<1>5. /\ half.ip_len = p.ip_len /\ half.ip_ttl = p.ip_ttl /\ half.ip_p = p.ip_p
      /\ half.ip_src = p.ip_src /\ half.ip_dst = p.ip_dst
  BY DEF Packet
<1>6. IpWords(half) \in Seq(Nat)
  <2> HIDE DEF half
  <2>. QED BY <1>4, IpSum
<1>7. c \in 1..AllOnes /\ c \in Word /\ Same(WordSum(IpWords(half)) + c, 0)
  <2> HIDE DEF half
  <2>. QED BY <1>6, CksumWord
<1>8. FirstByte(c) \in Byte /\ d \in Word
  <2>1. FirstByte(c) \in Byte
    <3> HIDE DEF c
    <3>. QED BY <1>7, BytesOf
  <2> HIDE DEF l, c
  <2>. QED BY <1>2, <2>1, TwoBytes
<1>9. EchoSum(p) = r
  <2>1. EchoSum(p) = [half EXCEPT !.ip_sum = ByteSize * FirstByte(cksum(IpWords(half))) + @]
    BY DEF EchoSum
  <2>2. [half EXCEPT !.ip_sum = ByteSize * FirstByte(c) + @] = r
    <3> HIDE DEF c
    <3>. QED BY DEF Packet
  <2>. QED BY <2>1, <2>2
<1>10. r \in Packet /\ r.ip_sum = d
  <2> HIDE DEF d
  <2>. QED BY <1>8 DEF Packet
<1>11. /\ r.ip_len = p.ip_len /\ r.ip_ttl = p.ip_ttl /\ r.ip_p = p.ip_p
       /\ r.ip_src = p.ip_src /\ r.ip_dst = p.ip_dst
  <2> HIDE DEF d
  <2>. QED BY DEF Packet
<1> HIDE DEF half, c, h, l, d, r
<1>12. ByteSize * p.ip_ttl + p.ip_p \in Nat
  BY IpSum
<1>13. /\ s \in Nat
       /\ WordSum(IpWords(p)) = s + p.ip_sum
       /\ WordSum(IpWords(half)) = s + l
       /\ WordSum(IpWords(r)) = s + d
       /\ IpWords(p) \in Seq(Nat) /\ IpWords(r) \in Seq(Nat)
  <2> DEFINE w == ByteSize * p.ip_ttl + p.ip_p
  <2>1. /\ w \in Nat
        /\ WordSum(IpWords(p)) = p.ip_len + w + p.ip_sum + p.ip_src + p.ip_dst
        /\ WordSum(IpWords(half)) = p.ip_len + w + l + p.ip_src + p.ip_dst
        /\ WordSum(IpWords(r)) = p.ip_len + w + d + p.ip_src + p.ip_dst
        /\ IpWords(p) \in Seq(Nat) /\ IpWords(r) \in Seq(Nat)
    BY <1>4, <1>5, <1>10, <1>11, IpSum
  <2> HIDE DEF w
  <2>2. s = p.ip_len + w + p.ip_src + p.ip_dst
    BY DEF w
  <2> HIDE DEF s
  <2>3. d \in Nat /\ p.ip_sum \in Nat
    BY <1>1, <1>8, Zero
  <2>4. s \in Nat
    BY <1>1, <2>1, <2>2
  <2>5. ASSUME NEW x \in Nat PROVE p.ip_len + w + x + p.ip_src + p.ip_dst = s + x
    <3>1. PICK a \in Nat, b \in Nat, e \in Nat : a = p.ip_len /\ b = p.ip_src /\ e = p.ip_dst
      BY <1>1
    <3>2. w \in Nat /\ s = a + w + b + e
      BY <2>1, <2>2, <3>1
    <3>3. a + w + x + b + e = s + x
      BY <3>2
    <3>. QED BY <3>1, <3>3
  <2>6. WordSum(IpWords(p)) = s + p.ip_sum
    BY <2>1, <2>3, <2>5
  <2>7. WordSum(IpWords(half)) = s + l
    BY <1>3, <2>1, <2>5
  <2>8. WordSum(IpWords(r)) = s + d
    BY <2>1, <2>3, <2>5
  <2>. QED BY <2>1, <2>4, <2>6, <2>7, <2>8
<1> HIDE DEF s
<1> DEFINE t == ByteSize * h
<1>14. /\ t \in Nat /\ t <= AllOnes - 1 /\ (h = 0 => t = 0) /\ (h # 0 => t >= ByteSize)
  <2>1. h # 0 => ByteSize <= h * ByteSize
    BY <1>3, Sizes, Times
  <2>2. ByteSize * (ByteSize - 1) = t + ByteSize * ((ByteSize - 1) - h) /\ ByteSize * ((ByteSize - 1) - h) >= 0
    BY <1>3, Sizes
  <2>3. ByteSize * (ByteSize - 1) = WordSize - ByteSize
    BY Sizes
  <2>. QED BY <1>3, <2>1, <2>2, <2>3, Sizes
<1>15. p.ip_sum = t + l
  BY <1>2
<1>16. Same(s + (t + l), 0)
  BY <1>13, <1>15, VerifiesSame
<1>17. Verifies(IpWords(r)) <=> Same(s + d, 0)
  BY <1>13, VerifiesSame
<1>18. d = ByteSize * FirstByte(c) + l
  BY DEF d
<1> HIDE DEF t
<1>19. c = t \/ (t = 0 /\ c = AllOnes)
  <2>1. Same((s + l) + c, 0)
    BY <1>7, <1>13
  <2>2. Same(((s + l) + c) - (s + (t + l)), 0 - 0)
    BY <1>3, <1>7, <1>13, <1>14, <1>16, <2>1, SameAdd
  <2>3. PICK k \in Int : ((s + l) + c) - (s + (t + l)) = (0 - 0) + k * AllOnes
    BY <2>2 DEF Same
  <2>4. c = t + k * AllOnes
    BY <1>3, <1>7, <1>13, <1>14, <2>3, Sizes
  <2>5. Same(c, t)
    BY <2>4 DEF Same
  <2>. QED BY <1>7, <1>14, <2>5, SameEnds, Sizes
<1>20. CASE h # 0
  <2>1. c = ByteSize * h + 0 /\ FirstByte(c) = h
    <3>1. c = ByteSize * h + 0
      BY <1>3, <1>7, <1>14, <1>19, <1>20, Sizes DEF t
    <3>. QED BY <1>2, <3>1, TwoBytes, Zero
  <2>2. d = t + l
    BY <1>18, <2>1 DEF t
  <2>3. Verifies(IpWords(r))
    BY <1>16, <1>17, <2>2
  <2>. QED BY <1>8, <1>9, <1>20, <2>3 DEF r, h
<1>21. CASE h = 0
  <2>1. c = AllOnes /\ t = 0
    BY <1>7, <1>14, <1>19, <1>21, Sizes
  <2>2. c = ByteSize * (ByteSize - 1) + (ByteSize - 1) /\ ByteSize - 1 \in Byte
    BY <2>1, Sizes DEF Byte
  <2>3. FirstByte(c) = ByteSize - 1
    BY <2>2, TwoBytes
  <2> DEFINE u == ByteSize * (ByteSize - 1)
  <2>4. u \in 1..(AllOnes - 1) /\ d = u + l
    BY <1>18, <2>3, Sizes
  <2> HIDE DEF u
  <2>5. ~Same(s + d, 0)
    <3> SUFFICES ASSUME Same(s + d, 0) PROVE FALSE
      OBVIOUS
    <3>1. Same((s + d) - (s + (t + l)), 0 - 0)
      BY <1>3, <1>13, <1>14, <1>16, <2>4, SameAdd
    <3>2. (s + d) - (s + (t + l)) = u /\ 0 - 0 = 0
      BY <1>3, <1>13, <2>1, <2>4
    <3>3. Same(u, 0)
      BY <3>1, <3>2
    <3>. QED BY <2>4, <3>3, SameEnds, Sizes
  <2>6. ~Verifies(IpWords(r))
    BY <1>17, <2>5
  <2>. QED BY <1>8, <1>9, <1>21, <2>6 DEF r, h
<1>. QED BY <1>20, <1>21

(* The checksum field of an ICMP message adds its value to the sum of the message. *)
LEMMA IcmpSumAt ==
  ASSUME NEW p \in Packet
  PROVE  LET q == [p EXCEPT !.icmp_sum = 0]
         IN  /\ q \in Packet
             /\ WordSum(IcmpWords(p)) = WordSum(IcmpWords(q)) + p.icmp_sum
<1> DEFINE q == [p EXCEPT !.icmp_sum = 0]
<1>1. q \in Packet /\ q.icmp_sum = 0
  BY Zero DEF Packet
<1>2. q.icmp_type = p.icmp_type /\ q.icmp_code = p.icmp_code /\ q.data = p.data
  BY DEF Packet
<1>3. p.data \in Seq(Word)
  BY DEF Packet
<1> HIDE DEF q
<1> DEFINE old == IcmpWords(q)
           new == IcmpWords(p)
           n == 2 + Len(p.data)
<1>4. n \in Nat /\ 2 \in 1..n
  BY <1>3
<1>5. /\ old \in Seq(Nat) /\ Len(old) = n /\ old[1] = ByteSize * p.icmp_type + p.icmp_code /\ old[2] = 0
      /\ \A k \in 3..n : old[k] = p.data[k - 2]
  <2>1. /\ old \in Seq(Nat) /\ Len(old) = 2 + Len(q.data)
        /\ old[1] = ByteSize * q.icmp_type + q.icmp_code /\ old[2] = q.icmp_sum
        /\ \A k \in 3..(2 + Len(q.data)) : old[k] = q.data[k - 2]
    BY <1>1, IcmpSeq
  <2>. QED BY <1>1, <1>2, <2>1
<1>6. /\ new \in Seq(Nat) /\ Len(new) = n /\ new[1] = ByteSize * p.icmp_type + p.icmp_code
      /\ new[2] = p.icmp_sum
      /\ \A k \in 3..n : new[k] = p.data[k - 2]
  BY IcmpSeq
<1> HIDE DEF old, new, n
<1>7. ASSUME NEW k \in 1..n, k # 2 PROVE new[k] = old[k]
  <2>1. k = 1 \/ k \in 3..n
    BY <1>4, <1>7
  <2>. QED BY <1>5, <1>6, <2>1
<1>8. WordSum(new) = WordSum(old) + new[2]
  <2>1. Len(new) = Len(old) /\ 2 \in 1..Len(old) /\ old[2] = 0 /\ old \in Seq(Nat) /\ new \in Seq(Nat)
    BY <1>4, <1>5, <1>6
  <2>2. \A k \in 1..Len(old) : k # 2 => new[k] = old[k]
    BY <1>5, <1>7
  <2>. QED BY <2>1, <2>2, SumAt
<1>. QED BY <1>1, <1>6, <1>8 DEF old, new, q

(* The ICMP checksum over no bytes is all ones, and right if the rest adds up to nothing. *)
LEMMA EmptySum == cksum(<<>>) = AllOnes /\ cksum(<<>>) \in Word
<1> DEFINE e == <<>>
<1>1. e \in Seq(Nat) /\ Len(e) = 0
  OBVIOUS
<1> HIDE DEF e
<1>2. WordSum(e) = 0
  BY <1>1, SumDef DEF Adds
<1>3. cksum(e) \in 1..AllOnes /\ cksum(e) \in Word /\ Same(WordSum(e) + cksum(e), 0)
  BY <1>1, CksumWord
<1>4. Same(cksum(e), 0)
  BY <1>2, <1>3, Sizes
<1>5. cksum(e) = AllOnes
  BY <1>3, <1>4, SameEnds, Sizes
<1>. QED BY <1>3, <1>5 DEF e

(* What the router makes of an echo request (handleIcmpPacket) *)
LEMMA EchoReplyOk ==
  ASSUME NEW p \in Packet, Verifies(IpWords(p)), NEW time_exceed
  PROVE  LET out_pkt == EchoReply(p, time_exceed)
         IN  /\ out_pkt \in Packet
             /\ Verifies(IpWords(out_pkt)) <=> FirstByte(p.ip_sum) # 0
             /\ Verifies(IcmpWords(out_pkt))
                  <=> WordSum(IcmpWords([out_pkt EXCEPT !.icmp_sum = 0])) % AllOnes = 0
<1> DEFINE x == EchoReply(p, time_exceed)
           type == IF time_exceed = 0 THEN 0 ELSE EXCEEDED
<1>1. PICK c \in Word : /\ EchoSum(p) = [p EXCEPT !.ip_sum = c]
                        /\ Verifies(IpWords([p EXCEPT !.ip_sum = c])) <=> FirstByte(p.ip_sum) # 0
  BY EchoSumOk
<1> DEFINE q == [p EXCEPT !.ip_sum = c]
<1>2. q \in Packet
  BY DEF Packet
<1>3. type \in Byte
  BY Zero, WireAssumption
<1>4. x = [q EXCEPT !.icmp_type = type, !.icmp_sum = cksum(<<>>), !.ip_src = p.ip_dst, !.ip_dst = p.ip_src]
  BY <1>1 DEF EchoReply
<1>5. q.ip_src = p.ip_src /\ q.ip_dst = p.ip_dst /\ p.ip_src \in Word /\ p.ip_dst \in Word
  BY DEF Packet
<1> HIDE DEF q, type, x
<1>6. x \in Packet /\ x.icmp_sum = AllOnes
  BY <1>2, <1>3, <1>4, <1>5, EmptySum DEF Packet
<1>7. /\ x.ip_len = q.ip_len /\ x.ip_ttl = q.ip_ttl /\ x.ip_p = q.ip_p /\ x.ip_sum = q.ip_sum
      /\ x.ip_src = q.ip_dst /\ x.ip_dst = q.ip_src
  BY <1>2, <1>4, <1>5 DEF Packet
<1>8. WordSum(IpWords(x)) = WordSum(IpWords(q))
  <2> DEFINE w == ByteSize * q.ip_ttl + q.ip_p
  <2>1. /\ WordSum(IpWords(x)) = q.ip_len + w + q.ip_sum + q.ip_dst + q.ip_src
        /\ WordSum(IpWords(q)) = q.ip_len + w + q.ip_sum + q.ip_src + q.ip_dst
        /\ w \in Nat
    BY <1>2, <1>6, <1>7, IpSum
  <2>2. q.ip_len \in Nat /\ q.ip_sum \in Nat /\ q.ip_src \in Nat /\ q.ip_dst \in Nat
    BY <1>2, Zero DEF Packet
  <2> HIDE DEF w
  <2>. QED BY <2>1, <2>2
<1>9. Verifies(IpWords(x)) <=> FirstByte(p.ip_sum) # 0
  <2>1. IpWords(x) \in Seq(Nat) /\ IpWords(q) \in Seq(Nat)
    BY <1>2, <1>6, IpSum
  <2>2. Verifies(IpWords(x)) <=> Verifies(IpWords(q))
    BY <1>8, <2>1, VerifiesSame
  <2>. QED BY <1>1, <2>2 DEF q
<1> DEFINE z == [x EXCEPT !.icmp_sum = 0]
           s == WordSum(IcmpWords(z))
<1>10. z \in Packet /\ WordSum(IcmpWords(x)) = s + AllOnes
  BY <1>6, IcmpSumAt
<1> HIDE DEF z
<1>11. IcmpWords(x) \in Seq(Nat) /\ IcmpWords(z) \in Seq(Nat)
  BY <1>6, <1>10, IcmpSeq
<1>12. s \in Nat
  BY <1>11, SumType
<1> HIDE DEF s
<1>13. Same(s + AllOnes, 0) <=> Same(s, 0)
  <2>1. Same(s + AllOnes, s)
    <3>1. s + AllOnes = s + 1 * AllOnes
      BY <1>12, Sizes
    <3>. QED BY <3>1 DEF Same
  <2>2. s \in Int /\ s + AllOnes \in Int /\ 0 \in Int
    BY <1>12, Sizes
  <2>3. Same(s, s + AllOnes)
    BY <2>1, <2>2, SameSym
  <2>. QED BY <2>1, <2>2, <2>3, SameTrans
<1>14. Verifies(IcmpWords(x)) <=> s % AllOnes = 0
  BY <1>10, <1>11, <1>12, <1>13, VerifiesSame, SameMod
<1>. QED BY <1>6, <1>9, <1>14 DEF x, z, s

(* The ICMP part of an answer has the right checksum, whatever it quotes. *)
LEMMA QuoteOk ==
  ASSUME NEW p \in Packet
  PROVE  /\ Quote(p) \in Packet /\ Verifies(IcmpWords(Quote(p)))
         /\ Quote(p).icmp_type = IF Own(p.ip_dst) THEN UNREACHABLE ELSE EXCEEDED
         /\ Quote(p).ip_len = p.ip_len
<1> DEFINE type == IF Own(p.ip_dst) THEN UNREACHABLE ELSE EXCEEDED
           code == IF Own(p.ip_dst) THEN PORT ELSE 0
           quoted == <<0>> \o IpWords(p) \o IcmpWords(p)
           q == [p EXCEPT !.icmp_type = type, !.icmp_code = code, !.icmp_sum = 0, !.data = quoted]
           c == cksum(IcmpWords(q))
           x == [q EXCEPT !.icmp_sum = c]
<1>1. type \in Byte /\ code \in Byte
  BY Zero, WireAssumption
<1>2. quoted \in Seq(Word)
  <2>1. IpWords(p) \in Seq(Word) /\ IcmpWords(p) \in Seq(Word) /\ <<0>> \in Seq(Word)
    BY IpSum, IcmpSeq, Zero
  <2>. QED BY <2>1
<1>3. Quote(p) = x
  BY DEF Quote
<1> HIDE DEF type, code, quoted
<1>4. q \in Packet /\ q.icmp_type = type /\ q.ip_len = p.ip_len /\ q.icmp_sum = 0
  BY <1>1, <1>2, Zero DEF Packet
<1> HIDE DEF q
<1>5. IcmpWords(q) \in Seq(Nat)
  BY <1>4, IcmpSeq
<1>6. c \in Word /\ Same(WordSum(IcmpWords(q)) + c, 0)
  BY <1>5, CksumWord
<1> HIDE DEF c
<1>7. x \in Packet /\ x.icmp_sum = c /\ x.icmp_type = type /\ x.ip_len = p.ip_len
  BY <1>4, <1>6 DEF Packet
<1>8. [x EXCEPT !.icmp_sum = 0] = q
  BY <1>4 DEF Packet
<1> HIDE DEF x
<1>9. WordSum(IcmpWords(x)) = WordSum(IcmpWords(q)) + c
  BY <1>7, <1>8, IcmpSumAt
<1>10. Verifies(IcmpWords(x))
  <2>1. IcmpWords(x) \in Seq(Nat)
    BY <1>7, IcmpSeq
  <2>. QED BY <1>6, <1>9, <2>1, VerifiesSame
<1>. QED BY <1>3, <1>7, <1>10 DEF type

(* The length of an answer, which is right for one length of a packet only *)
LEMMA ShrunkOk ==
  ASSUME NEW len \in Word
  PROVE  Shrunk(len) \in Word /\ (Shrunk(len) = ANSWER_LEN <=> len = ANSWER_LEN + CUT)
<1>1. /\ ANSWER_LEN \in Nat /\ CUT \in Nat /\ ANSWER_LEN + CUT <= WordSize - 1
      /\ len \in Nat /\ len <= WordSize - 1 /\ WordSize \in Nat \ {0} /\ len - CUT \in Int
  BY WireAssumption, Sizes DEF Word
<1>2. CASE len >= CUT
  <2>1. len - CUT = WordSize * 0 + (len - CUT) /\ len - CUT \in 0..(WordSize - 1) /\ 0 \in Int
    BY <1>1, <1>2
  <2>2. (len - CUT) % WordSize = len - CUT
    BY <1>1, <2>1, DivModUnique
  <2>. QED BY <1>1, <2>1, <2>2 DEF Shrunk, Word
<1>3. CASE ~(len >= CUT)
  <2> DEFINE rest == (len - CUT) + WordSize
  <2>1. len - CUT = WordSize * (0 - 1) + rest /\ rest \in 0..(WordSize - 1) /\ 0 - 1 \in Int
    BY <1>1, <1>3
  <2>2. rest # ANSWER_LEN
    BY <1>1, <1>3
  <2> HIDE DEF rest
  <2>3. (len - CUT) % WordSize = rest
    BY <1>1, <2>1, DivModUnique
  <2>. QED BY <1>1, <1>3, <2>1, <2>2, <2>3 DEF Shrunk, Word
<1>. QED BY <1>2, <1>3

(* An answer of the router (handleIcmpPacket) *)
LEMMA AnswerOk ==
  ASSUME NEW p \in Packet, NEW iface \in Ifaces
  PROVE  LET x == Answer(p, iface)
         IN  /\ x \in Packet
             /\ Verifies(IpWords(x)) /\ Verifies(IcmpWords(x))
             /\ x.ip_dst = p.ip_src /\ Own(x.ip_src)
             /\ x.icmp_type = UNREACHABLE <=> Own(p.ip_dst)
             /\ x.ip_len = ANSWER_LEN <=> p.ip_len = ANSWER_LEN + CUT
<1> DEFINE x == Answer(p, iface)
           q == Quote(p)
           src == IF Own(p.ip_dst) THEN p.ip_dst ELSE IfaceIp[iface]
           len == Shrunk(q.ip_len)
           r == [q EXCEPT !.ip_len = len, !.ip_p = ICMP, !.ip_ttl = ANSWER_TTL, !.ip_dst = p.ip_src, !.ip_src = src]
<1>1. /\ q \in Packet /\ Verifies(IcmpWords(q)) /\ q.ip_len = p.ip_len
      /\ q.icmp_type = IF Own(p.ip_dst) THEN UNREACHABLE ELSE EXCEEDED
  BY QuoteOk
<1>2. p.ip_len \in Word /\ p.ip_src \in Word /\ p.ip_dst \in Word
  BY DEF Packet
<1>3. src \in Word /\ Own(src)
  BY <1>2, WireAssumption DEF Own
<1>4. len \in Word /\ (len = ANSWER_LEN <=> p.ip_len = ANSWER_LEN + CUT)
  BY <1>1, <1>2, ShrunkOk
<1>5. ICMP \in Byte /\ ANSWER_TTL \in Byte
  BY WireAssumption
<1>6. x = WithSum(r)
  BY DEF Answer
<1> HIDE DEF q, src, len, x
<1>7. r \in Packet /\ r.ip_len = len /\ r.ip_dst = p.ip_src /\ r.ip_src = src
  BY <1>1, <1>2, <1>3, <1>4, <1>5 DEF Packet
<1>8. r.icmp_type = q.icmp_type /\ r.icmp_code = q.icmp_code /\ r.icmp_sum = q.icmp_sum /\ r.data = q.data
  BY <1>1 DEF Packet
<1> HIDE DEF r
<1>9. x \in Packet /\ Verifies(IpWords(x))
  BY <1>6, <1>7, WithSumVerifies
<1>10. PICK c \in Word : x = [r EXCEPT !.ip_sum = c]
  BY <1>6, <1>7, WithSumVerifies
<1>11. /\ x.ip_len = len /\ x.ip_dst = p.ip_src /\ x.ip_src = src
       /\ x.icmp_type = q.icmp_type /\ x.icmp_code = q.icmp_code /\ x.icmp_sum = q.icmp_sum /\ x.data = q.data
  BY <1>7, <1>8, <1>10 DEF Packet
<1>12. IcmpWords(x) = IcmpWords(q)
  BY <1>11 DEF IcmpWords
<1>13. EXCEEDED # UNREACHABLE
  BY WireAssumption
<1>. QED BY <1>1, <1>3, <1>4, <1>9, <1>11, <1>12, <1>13 DEF x

-----------------------------------------------------------------------------
(* The steps of the router. *)

(* A line of the file is an entry, so a table of lines has the type of the table. *)
LEMMA LinesAreEntries ==
  ASSUME NEW entries \in Seq(Lines)
  PROVE  entries \in Seq(RoutingTableEntry)
<1>1. Lines \subseteq RoutingTableEntry
  BY TableAssumption
<1>2. entries \in [1..Len(entries) -> Lines] /\ Len(entries) \in Nat
  OBVIOUS
<1>3. entries \in [1..Len(entries) -> RoutingTableEntry]
  BY <1>1, <1>2
<1>. QED BY <1>2, <1>3

(* Where nothing was sent, discarded or queued there is nothing to show but the table. *)
LEMMA NothingSent ==
  ASSUME m_entries' \in Seq(Lines), fate' \in {"none", "corrupt", "dropped"}
  PROVE  InductiveInv'
BY DEF InductiveInv, QueuedInv, SentOn, AnswerWellFormed, EchoDamage, RoutedByPrefix

(* The first state: the table is empty, and no packet has come. *)
LEMMA WireInit == Init => TypeOK /\ InductiveInv
<1> SUFFICES ASSUME Init PROVE TypeOK /\ InductiveInv
  OBVIOUS
<1>1. m_entries = <<>> /\ got = Nothing /\ out = Nothing /\ fate = "none"
  BY DEF Init
<1>2. m_entries \in Seq(Lines) /\ m_entries \in Seq(RoutingTableEntry)
  BY <1>1
<1>3. TypeOK
  BY <1>1, <1>2 DEF TypeOK
<1>4. InductiveInv
  BY <1>1, <1>2 DEF InductiveInv, QueuedInv, SentOn, AnswerWellFormed, EchoDamage, RoutedByPrefix
<1>. QED BY <1>3, <1>4

(* A line is loaded: the table grows, and no packet has come yet. *)
LEMMA LoadStep ==
  ASSUME TypeOK, InductiveInv, load
  PROVE  TypeOK' /\ InductiveInv'
<1>1. PICK entry \in Lines : m_entries' = Append(m_entries, entry)
  BY DEF load, loadLine, addEntry
<1>2. m_entries' \in Seq(Lines)
  BY <1>1 DEF InductiveInv
<1>3. m_entries' \in Seq(RoutingTableEntry)
  BY <1>2, LinesAreEntries
<1>4. fate' = "none" /\ got' = got /\ out' = out
  BY DEF load
<1>. QED BY <1>2, <1>3, <1>4, NothingSent DEF TypeOK

(* A packet that the router answers, echoes or drops (handleIcmpPacket) *)
LEMMA IcmpStep ==
  ASSUME TypeOK, InductiveInv, UNCHANGED m_entries,
         NEW p \in Packet, NEW iface \in Ifaces, NEW time_exceed,
         got' = [pkt |-> p, iface |-> iface], Verifies(IpWords(p)),
         handleIcmpPacket(p, iface, time_exceed)
  PROVE  TypeOK' /\ InductiveInv'
<1>1. m_entries' \in Seq(Lines) /\ m_entries' \in Seq(RoutingTableEntry)
  BY LinesAreEntries DEF InductiveInv
<1>2. got' \in [pkt : Packet, iface : Ifaces] /\ got'.pkt = p
  OBVIOUS
<1>3. CASE Send("echoed", EchoReply(p, time_exceed), iface)
  <2> DEFINE x == EchoReply(p, time_exceed)
  <2>1. /\ x \in Packet
        /\ Verifies(IpWords(x)) <=> FirstByte(p.ip_sum) # 0
        /\ Verifies(IcmpWords(x)) <=> WordSum(IcmpWords([x EXCEPT !.icmp_sum = 0])) % AllOnes = 0
    BY EchoReplyOk
  <2>2. fate' = "echoed" /\ out' = [pkt |-> x, iface |-> iface]
    BY <1>3 DEF Send
  <2> HIDE DEF x
  <2>3. out' \in [pkt : Packet, iface : Ifaces] /\ out'.pkt = x
    BY <2>1, <2>2
  <2>4. EchoDamage'
    BY <1>2, <2>1, <2>3 DEF EchoDamage
  <2>5. InductiveInv'
    BY <1>1, <2>2, <2>4 DEF InductiveInv, QueuedInv, SentOn, AnswerWellFormed, RoutedByPrefix
  <2>. QED BY <1>1, <1>2, <2>2, <2>3, <2>5 DEF TypeOK
<1>4. CASE Send("answered", Answer(p, iface), iface)
  <2> DEFINE x == Answer(p, iface)
  <2>1. /\ x \in Packet
        /\ Verifies(IpWords(x)) /\ Verifies(IcmpWords(x))
        /\ x.ip_dst = p.ip_src /\ Own(x.ip_src)
        /\ x.icmp_type = UNREACHABLE <=> Own(p.ip_dst)
        /\ x.ip_len = ANSWER_LEN <=> p.ip_len = ANSWER_LEN + CUT
    BY AnswerOk
  <2>2. fate' = "answered" /\ out' = [pkt |-> x, iface |-> iface]
    BY <1>4 DEF Send
  <2> HIDE DEF x
  <2>3. out' \in [pkt : Packet, iface : Ifaces] /\ out'.pkt = x
    BY <2>1, <2>2
  <2>4. AnswerWellFormed'
    BY <1>2, <2>1, <2>3 DEF AnswerWellFormed
  <2>5. InductiveInv'
    BY <1>1, <2>2, <2>4 DEF InductiveInv, QueuedInv, SentOn, EchoDamage, RoutedByPrefix
  <2>. QED BY <1>1, <1>2, <2>2, <2>3, <2>5 DEF TypeOK
<1>5. CASE Drop("dropped")
  BY <1>1, <1>2, <1>5, NothingSent DEF Drop, TypeOK
<1>. QED BY <1>3, <1>4, <1>5 DEF handleIcmpPacket

(* A packet for somebody else with hops left is sent on, discarded or queued (handleIpPacket). *)
LEMMA ForwardStep ==
  ASSUME TypeOK, InductiveInv, UNCHANGED m_entries,
         NEW p \in Packet, NEW iface \in Ifaces,
         got' = [pkt |-> p, iface |-> iface], Verifies(IpWords(p)),
         ~Own(p.ip_dst), Less(p.ip_ttl) > 0,
         ForwardOrQueue(p)
  PROVE  TypeOK' /\ InductiveInv'
<1> DEFINE ip == p.ip_dst
           route == lookup(ip)
<1>1. m_entries \in Seq(Lines) /\ m_entries' \in Seq(Lines) /\ m_entries' \in Seq(RoutingTableEntry)
  BY LinesAreEntries DEF InductiveInv
<1>2. got' \in [pkt : Packet, iface : Ifaces] /\ got'.pkt = p
  OBVIOUS
<1>3. route \in Lines \cup {NoRoute}
  BY <1>1, LookupEntry
<1>4. PrefixMasked => /\ route # NoRoute => route \in LongestPrefix(ip)
                      /\ route = NoRoute => LongestPrefix(ip) = {}
  BY <1>1, LookupLongest DEF PrefixMasked
<1>5. \A ip_dst : LongestPrefix(ip_dst) = LongestPrefix(ip_dst)'
  BY DEF LongestPrefix
<1>6. CASE route # NoRoute /\ Send("forwarded", Forwarded(p), route.ifName)
  <2> DEFINE x == Forwarded(p)
  <2>1. /\ x \in Packet /\ Verifies(IpWords(x)) /\ x.ip_ttl = Less(p.ip_ttl)
        /\ [x EXCEPT !.ip_ttl = p.ip_ttl, !.ip_sum = p.ip_sum] = p
    BY ForwardedOk
  <2>2. fate' = "forwarded" /\ out' = [pkt |-> x, iface |-> route.ifName]
    BY <1>6 DEF Send
  <2>3. route.ifName \in Ifaces
    BY <1>3, <1>6, TableAssumption DEF RoutingTableEntry
  <2> HIDE DEF x, route
  <2>4. out' \in [pkt : Packet, iface : Ifaces] /\ out'.pkt = x /\ out'.iface = route.ifName
    BY <2>1, <2>2, <2>3
  <2>5. /\ p.ip_ttl # 1
        /\ IF p.ip_ttl = 0 THEN x.ip_ttl + 1 \in {0, ByteSize}
                           ELSE x.ip_ttl + 1 = p.ip_ttl /\ x.ip_ttl > 0
    <3>1. p.ip_ttl \in Byte /\ p.ip_ttl \in Nat
      BY Zero DEF Packet
    <3>2. Less(p.ip_ttl) = IF p.ip_ttl = 0 THEN ByteSize - 1 ELSE p.ip_ttl - 1
      BY <3>1, LessByte
    <3>. QED BY <2>1, <3>1, <3>2, Sizes
  <2>6. SentOn'
    BY <1>2, <2>1, <2>2, <2>4, <2>5 DEF SentOn
  <2>7. PrefixMasked => RoutedByPrefix'
    BY <1>2, <1>4, <1>5, <1>6, <2>2, <2>4 DEF RoutedByPrefix
  <2>8. InductiveInv'
    BY <1>1, <2>2, <2>6, <2>7 DEF InductiveInv, QueuedInv, AnswerWellFormed, EchoDamage, PrefixMasked
  <2>. QED BY <1>1, <1>2, <2>2, <2>4, <2>8 DEF TypeOK
<1>7. CASE route = NoRoute /\ Drop("discarded")
  <2>1. fate' = "discarded" /\ out' = out
    BY <1>7 DEF Drop
  <2> HIDE DEF route
  <2>2. PrefixMasked => RoutedByPrefix'
    BY <1>2, <1>4, <1>5, <1>7, <2>1 DEF RoutedByPrefix
  <2>3. InductiveInv'
    BY <1>1, <2>1, <2>2 DEF InductiveInv, QueuedInv, SentOn, AnswerWellFormed, EchoDamage, PrefixMasked
  <2>. QED BY <1>1, <1>2, <2>1, <2>3 DEF TypeOK
<1>8. CASE Drop("queued")
  <2>1. fate' = "queued" /\ out' = out
    BY <1>8 DEF Drop
  <2>2. QueuedInv'
    BY <1>2 DEF QueuedInv
  <2>3. InductiveInv'
    BY <1>1, <2>1, <2>2 DEF InductiveInv, SentOn, AnswerWellFormed, EchoDamage, RoutedByPrefix
  <2>. QED BY <1>1, <1>2, <2>1, <2>3 DEF TypeOK
<1>. QED BY <1>6, <1>7, <1>8 DEF ForwardOrQueue

(* The way of a packet that comes in (handleIpPacket) *)
LEMMA HandleStep ==
  ASSUME TypeOK, InductiveInv, NEW p \in Received, NEW iface \in Ifaces, handleIpPacket(p, iface)
  PROVE  TypeOK' /\ InductiveInv'
<1>1. p \in Packet
  BY WireAssumption
<1>2. got' = [pkt |-> p, iface |-> iface] /\ m_entries' = m_entries
  BY DEF handleIpPacket
<1>3. got' \in [pkt : Packet, iface : Ifaces]
  BY <1>1, <1>2
<1>4. ASSUME NEW what \in {"corrupt", "dropped"}, Drop(what) PROVE TypeOK' /\ InductiveInv'
  BY <1>2, <1>3, <1>4, NothingSent, LinesAreEntries DEF Drop, TypeOK, InductiveInv
<1>5. ASSUME NEW time_exceed, Verifies(IpWords(p)), handleIcmpPacket(p, iface, time_exceed)
      PROVE  TypeOK' /\ InductiveInv'
  BY <1>1, <1>2, <1>5, IcmpStep
<1>6. ASSUME Verifies(IpWords(p)), ~Own(p.ip_dst), Less(p.ip_ttl) > 0, ForwardOrQueue(p)
      PROVE  TypeOK' /\ InductiveInv'
  BY <1>1, <1>2, <1>6, ForwardStep
<1>. QED BY <1>4, <1>5, <1>6 DEF handleIpPacket

(* A queued packet leaves as it came, by the route of its destination (sendPendingPackets). *)
LEMMA FlushStep ==
  ASSUME TypeOK, InductiveInv, sendPendingPackets
  PROVE  TypeOK' /\ InductiveInv'
<1> DEFINE ip == got.pkt.ip_dst
           route == lookup(ip)
<1>1. m_entries \in Seq(Lines) /\ m_entries' \in Seq(Lines) /\ m_entries' \in Seq(RoutingTableEntry)
  BY LinesAreEntries DEF InductiveInv, sendPendingPackets
<1>2. m_entries' = m_entries /\ got' = got
  BY DEF sendPendingPackets
<1>3. /\ got.pkt \in Packet /\ Verifies(IpWords(got.pkt)) /\ Less(got.pkt.ip_ttl) > 0
  BY DEF InductiveInv, QueuedInv, sendPendingPackets
<1>4. route \in Lines \cup {NoRoute}
  BY <1>1, LookupEntry
<1>5. PrefixMasked => /\ route # NoRoute => route \in LongestPrefix(ip)
                      /\ route = NoRoute => LongestPrefix(ip) = {}
  BY <1>1, LookupLongest DEF PrefixMasked
<1>6. LongestPrefix(got.pkt.ip_dst)' = LongestPrefix(ip)
  BY <1>2 DEF LongestPrefix
<1>7. CASE route # NoRoute /\ Send("flushed", got.pkt, route.ifName)
  <2>1. fate' = "flushed" /\ out' = [pkt |-> got.pkt, iface |-> route.ifName]
    BY <1>7 DEF Send
  <2>2. route.ifName \in Ifaces
    BY <1>4, <1>7, TableAssumption DEF RoutingTableEntry
  <2> HIDE DEF route
  <2>3. out' \in [pkt : Packet, iface : Ifaces] /\ out'.pkt = got.pkt /\ out'.iface = route.ifName
    BY <1>3, <2>1, <2>2
  <2>4. /\ got.pkt.ip_ttl # 1
        /\ got.pkt.ip_ttl # 0 => got.pkt.ip_ttl > 0
        /\ got.pkt.ip_ttl + 0 = got.pkt.ip_ttl
    <3>1. got.pkt.ip_ttl \in Byte /\ got.pkt.ip_ttl \in Nat
      BY <1>3, Zero DEF Packet
    <3>2. Less(got.pkt.ip_ttl) = IF got.pkt.ip_ttl = 0 THEN ByteSize - 1 ELSE got.pkt.ip_ttl - 1
      BY <3>1, LessByte
    <3>. QED BY <1>3, <3>1, <3>2
  <2>5. [got.pkt EXCEPT !.ip_ttl = got.pkt.ip_ttl, !.ip_sum = got.pkt.ip_sum] = got.pkt
    BY <1>3 DEF Packet
  <2>6. SentOn'
    BY <1>2, <1>3, <2>1, <2>3, <2>4, <2>5 DEF SentOn
  <2>7. PrefixMasked => RoutedByPrefix'
    BY <1>2, <1>5, <1>6, <1>7, <2>1, <2>3 DEF RoutedByPrefix
  <2>8. InductiveInv'
    BY <1>1, <2>1, <2>6, <2>7 DEF InductiveInv, QueuedInv, AnswerWellFormed, EchoDamage, PrefixMasked
  <2>. QED BY <1>1, <1>2, <2>1, <2>3, <2>8 DEF TypeOK
<1>8. CASE route = NoRoute /\ Drop("discarded")
  <2>1. fate' = "discarded" /\ out' = out
    BY <1>8 DEF Drop
  <2> HIDE DEF route
  <2>2. PrefixMasked => RoutedByPrefix'
    BY <1>2, <1>5, <1>6, <1>8, <2>1 DEF RoutedByPrefix
  <2>3. InductiveInv'
    BY <1>1, <2>1, <2>2 DEF InductiveInv, QueuedInv, SentOn, AnswerWellFormed, EchoDamage, PrefixMasked
  <2>. QED BY <1>1, <1>2, <2>1, <2>3 DEF TypeOK
<1>. QED BY <1>7, <1>8 DEF sendPendingPackets

-----------------------------------------------------------------------------
(* The theorems. *)

(***************************************************************************)
(* The inductive invariant: every packet is in the shape its fate calls    *)
(* for, and one that waits for the ARP cache keeps what was tested when it *)
(* came (handleIpPacket, handleIcmpPacket, sendPendingPackets).            *)
(***************************************************************************)
THEOREM WireInvariant == Spec => [](TypeOK /\ InductiveInv)
<1>1. ASSUME TypeOK, InductiveInv, [Next]_vars PROVE TypeOK' /\ InductiveInv'
  <2>1. CASE load
    BY <1>1, <2>1, LoadStep
  <2>2. ASSUME NEW p \in Received, NEW i \in Ifaces, handleIpPacket(p, i) PROVE TypeOK' /\ InductiveInv'
    BY <1>1, <2>2, HandleStep
  <2>3. CASE sendPendingPackets
    BY <1>1, <2>3, FlushStep
  <2>4. CASE UNCHANGED vars
    <3>1. m_entries' = m_entries /\ got' = got /\ fate' = fate /\ out' = out
      BY <2>4 DEF vars
    <3>2. TypeOK'
      BY <1>1, <3>1 DEF TypeOK
    <3>3. QueuedInv' /\ SentOn' /\ AnswerWellFormed' /\ EchoDamage' /\ (PrefixMasked => RoutedByPrefix)'
      BY <1>1, <3>1
         DEF InductiveInv, QueuedInv, SentOn, AnswerWellFormed, EchoDamage, RoutedByPrefix,
             LongestPrefix, PrefixMasked
    <3>. QED BY <1>1, <3>1, <3>2, <3>3 DEF InductiveInv
  <2>. QED BY <1>1, <2>1, <2>2, <2>3, <2>4 DEF Next
<1>. QED BY <1>1, WireInit, PTL DEF Spec

(***************************************************************************)
(* Every field of every packet keeps to its width, those the router writes *)
(* included, and a packet leaves through an interface the router has       *)
(* (handleIpPacket, handleIcmpPacket).                                     *)
(***************************************************************************)
THEOREM WireTypes == Spec => []TypeOK
BY WireInvariant, PTL

(***************************************************************************)
(* A packet that is sent on verifies, is the one that came, has hops left, *)
(* and has lost one of them unless it was queued (handleIpPacket,          *)
(* sendPendingPackets).                                                    *)
(***************************************************************************)
THEOREM SentOnHolds == Spec => []SentOn
<1>1. InductiveInv => SentOn
  BY DEF InductiveInv
<1>. QED BY <1>1, WireInvariant, PTL

(***************************************************************************)
(* An answer goes to the sender from an address of the router with right   *)
(* checksums, and with the right length only if the packet had the one     *)
(* length the code reckons with (handleIcmpPacket).                        *)
(***************************************************************************)
THEOREM AnswersWellFormed == Spec => []AnswerWellFormed
<1>1. InductiveInv => AnswerWellFormed
  BY DEF InductiveInv
<1>. QED BY <1>1, WireInvariant, PTL

(***************************************************************************)
(* How far the wrong checksums of an echo go, for bytes of any size: the   *)
(* one of IP is wrong exactly if the first byte of the old one was zero,   *)
(* the one of ICMP whenever what it should cover does not add up to        *)
(* nothing (handleIcmpPacket).                                             *)
(***************************************************************************)
THEOREM EchoesDamaged == Spec => []EchoDamage
<1>1. InductiveInv => EchoDamage
  BY DEF InductiveInv
<1>. QED BY <1>1, WireInvariant, PTL

(***************************************************************************)
(* If the masks of the table are those of prefixes, every packet that is   *)
(* sent on takes a route with the longest prefix, and none is discarded    *)
(* that has a route (RoutingTable::lookup).                                *)
(***************************************************************************)
THEOREM RoutesByPrefix == ASSUME PrefixMasked PROVE Spec => []RoutedByPrefix
<1>1. InductiveInv => RoutedByPrefix
  BY PrefixMasked DEF InductiveInv
<1>. QED BY <1>1, WireInvariant, PTL
=============================================================================
