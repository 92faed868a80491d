--------------------------- MODULE ChecksumProofs ---------------------------
(***************************************************************************)
(* The checksum of utils.cpp: it verifies a header if and only if the      *)
(* words of the header add up to a multiple of the largest word, for any   *)
(* size of a byte and any length.                                          *)
(***************************************************************************)
EXTENDS IpHeader, WellFoundedInduction, TLAPS

-----------------------------------------------------------------------------
(* Numbers. *)

(* A set of naturals that is not empty has a least element. *)
LEMMA LeastOf ==
  ASSUME NEW S \in SUBSET Nat, S # {}
  PROVE  \E x \in S : \A y \in S : x <= y
<1> DEFINE R == {ss \in Nat \X Nat : ss[1] < ss[2]}
<1>1. IsWellFoundedOn(R, Nat)
  BY NatLessThanWellFounded, Zenon DEF OpToRel
<1>2. \E x \in S : \A y \in S : ~(<<y, x>> \in R)
  <2> HIDE DEF R
  <2>. QED BY <1>1, WFMin
<1>3. \A x, y \in Nat : <<y, x>> \in R <=> y < x
  OBVIOUS
<1> HIDE DEF R
<1>4. PICK x \in S : \A y \in S : ~(<<y, x>> \in R)
  BY <1>2
<1>5. \A y \in S : ~(y < x)
  BY <1>3, <1>4
<1>. QED BY <1>4, <1>5

(* Quotient and remainder. *)
LEMMA DivMod ==
  ASSUME NEW n \in Int, NEW d \in Nat \ {0}
  PROVE  n \div d \in Int /\ n % d \in 0..(d - 1) /\ n = d * (n \div d) + (n % d)
OBVIOUS

(* A product with a factor of at least 1 is not smaller than the other factor. *)
LEMMA Times ==
  ASSUME NEW k \in Nat \ {0}, NEW d \in Nat
  PROVE  k * d \in Nat /\ d <= k * d
<1>1. k * d = d + (k - 1) * d /\ (k - 1) * d >= 0
  OBVIOUS
<1>. QED BY <1>1

(* They are unique. *)
LEMMA DivModUnique ==
  ASSUME NEW n \in Int, NEW d \in Nat \ {0}, NEW q \in Int, NEW r \in 0..(d - 1), n = d * q + r
  PROVE  n \div d = q /\ n % d = r
<1> DEFINE k == n \div d
           s == n % d
<1>1. k \in Int /\ s \in 0..(d - 1) /\ n = d * k + s
  BY DivMod
<1> HIDE DEF k, s
<1>2. d * (k - q) = r - s
  BY <1>1
<1>3. ~(k - q >= 1)
  <2> SUFFICES ASSUME k - q >= 1 PROVE FALSE
    OBVIOUS
  <2>1. (k - q) * d >= d
    BY <1>1, Times
  <2>. QED BY <1>1, <1>2, <2>1
<1>4. ~(q - k >= 1)
  <2> SUFFICES ASSUME q - k >= 1 PROVE FALSE
    OBVIOUS
  <2>1. (q - k) * d >= d
    BY <1>1, Times
  <2>. QED BY <1>1, <1>2, <2>1
<1>5. k = q
  BY <1>1, <1>3, <1>4
<1>. QED BY <1>1, <1>2, <1>5 DEF k, s

(* The sizes of a byte and of a word, and the largest word *)
LEMMA Sizes ==
  /\ ByteSize \in Nat /\ ByteSize >= 2
  /\ WordSize \in Nat /\ AllOnes \in Nat /\ AllOnes >= 3 /\ WordSize = AllOnes + 1
  /\ WordSize = ByteSize * ByteSize /\ WordSize >= 2 * ByteSize
<1>1. ByteSize \in Nat /\ ByteSize >= 2
  BY ByteAssumption
<1>2. ByteSize * ByteSize = 2 * ByteSize + (ByteSize - 2) * ByteSize /\ (ByteSize - 2) * ByteSize >= 0
  BY <1>1
<1>. QED BY <1>1, <1>2 DEF WordSize, AllOnes

-----------------------------------------------------------------------------
(* The carries. *)

(* Two sums are the same to the checksum if they differ by a multiple of the largest word. *)
Same(a, b) == \E k \in Int : a = b + k * AllOnes

(* The recursion has a solution: what is left of n when AllOnes is taken off, but never to 0. *)
LEMMA FoldedDef ==
  \A n \in Nat : Folded[n] = IF n < WordSize THEN n ELSE Folded[(n \div WordSize) + (n % WordSize)]
<1> DEFINE g == [n \in Nat |-> IF n = 0 THEN 0 ELSE 1 + ((n - 1) % AllOnes)]
           Step(f) == [n \in Nat |-> IF n < WordSize THEN n ELSE f[(n \div WordSize) + (n % WordSize)]]
<1>1. ASSUME NEW n \in Nat, n < WordSize PROVE g[n] = n
  <2>1. CASE n = 0
    BY <2>1
  <2>2. CASE n # 0
    <3>1. (n - 1) % AllOnes = n - 1
      BY <1>1, <2>2, Sizes, DivModUnique, n - 1 = AllOnes * 0 + (n - 1)
    <3>. QED BY <2>2, <3>1
  <2>. QED BY <2>1, <2>2
<1>2. ASSUME NEW x \in Nat, NEW y \in Nat, x # 0, y # 0, (x - 1) % AllOnes = (y - 1) % AllOnes
      PROVE  g[x] = g[y]
  BY <1>2
<1>3. ASSUME NEW n \in Nat, ~(n < WordSize)
      PROVE  LET m == (n \div WordSize) + (n % WordSize) IN m \in Nat /\ g[n] = g[m]
  <2> HIDE DEF g
  <2> DEFINE q == n \div WordSize
             r == n % WordSize
             e == ((q + r) - 1) \div AllOnes
             s == ((q + r) - 1) % AllOnes
  <2>1. q \in Int /\ r \in 0..(WordSize - 1) /\ n = WordSize * q + r
    <3>1. n \in Int /\ WordSize \in Nat \ {0}
      BY Sizes
    <3>. QED BY <3>1, DivMod
  <2> HIDE DEF q, r
  <2>2. q >= 1
    <3> SUFFICES ASSUME ~(q >= 1) PROVE FALSE
      OBVIOUS
    <3>1. WordSize * q <= 0
      <4>1. (0 - q) \in Nat
        BY <2>1
      <4>2. (0 - q) * WordSize >= 0
        BY <4>1, Sizes
      <4>. QED BY <2>1, <4>2, Sizes
    <3>. QED BY <1>3, <2>1, <3>1, Sizes
  <2>3. (q + r) - 1 \in Int /\ e \in Int /\ s \in 0..(AllOnes - 1) /\ (q + r) - 1 = AllOnes * e + s
    BY <2>1, Sizes, DivMod
  <2> HIDE DEF e, s
  <2>4. n - 1 = AllOnes * (q + e) + s
    <3>1. WordSize * q = AllOnes * q + q
      BY <2>1, Sizes
    <3>2. AllOnes * (q + e) = AllOnes * q + AllOnes * e
      BY <2>1, <2>3, Sizes
    <3>. QED BY <2>1, <2>3, <3>1, <3>2, Sizes
  <2>5. (n - 1) % AllOnes = s
    <3>1. n - 1 \in Int /\ AllOnes \in Nat \ {0} /\ q + e \in Int
      BY <2>1, <2>3, Sizes
    <3>. QED BY <2>3, <2>4, <3>1, DivModUnique
  <2>6. q + r \in Nat /\ q + r # 0 /\ n # 0
    BY <1>3, <2>1, <2>2, Sizes
  <2>7. (n - 1) % AllOnes = ((q + r) - 1) % AllOnes
    BY <2>5 DEF s
  <2>8. g[n] = g[q + r]
    BY <2>6, <2>7, <1>2
  <2>. QED BY <2>6, <2>8 DEF q, r
<1>4. g = Step(g)
  <2> SUFFICES ASSUME NEW n \in Nat PROVE g[n] = Step(g)[n]
    BY Zenon
  <2> HIDE DEF g
  <2>. QED BY <1>1, <1>3
<1> HIDE DEF g
<1>5. Folded = Step(Folded)
  BY <1>4, Zenon DEF Folded
<1>. QED BY <1>5

(* A sum is the same as itself. *)
LEMMA SameRefl == ASSUME NEW a \in Int PROVE Same(a, a)
<1>1. a = a + 0 * AllOnes
  BY Sizes
<1>. QED BY <1>1 DEF Same

(* What is the same as b is the same as all that b is the same as. *)
LEMMA SameTrans ==
  ASSUME NEW a \in Int, NEW b \in Int, NEW c \in Int, Same(a, b), Same(b, c)
  PROVE  Same(a, c)
<1>1. PICK j \in Int : a = b + j * AllOnes
  BY DEF Same
<1>2. PICK k \in Int : b = c + k * AllOnes
  BY DEF Same
<1>3. a = c + (j + k) * AllOnes
  BY <1>1, <1>2, Sizes
<1>. QED BY <1>3 DEF Same

(* It does not matter which of the two sums comes first. *)
LEMMA SameSym ==
  ASSUME NEW a \in Int, NEW b \in Int, Same(a, b)
  PROVE  Same(b, a)
<1>1. PICK j \in Int : a = b + j * AllOnes
  BY DEF Same
<1>2. b = a + (0 - j) * AllOnes
  BY <1>1, Sizes
<1>. QED BY <1>2 DEF Same

(* Sums and differences of the same are the same. *)
LEMMA SameAdd ==
  ASSUME NEW a \in Int, NEW b \in Int, NEW c \in Int, NEW d \in Int, Same(a, b), Same(c, d)
  PROVE  Same(a + c, b + d) /\ Same(a - c, b - d)
<1>1. PICK j \in Int : a = b + j * AllOnes
  BY DEF Same
<1>2. PICK k \in Int : c = d + k * AllOnes
  BY DEF Same
<1>3. /\ a + c = (b + d) + (j + k) * AllOnes
      /\ a - c = (b - d) + (j - k) * AllOnes
  BY <1>1, <1>2, Sizes
<1>. QED BY <1>3 DEF Same

(* Among the numbers from 0 to AllOnes only the ends are the same. *)
LEMMA SameEnds ==
  ASSUME NEW a \in 0..AllOnes, NEW b \in 0..AllOnes, Same(a, b)
  PROVE  a = b \/ {a, b} = {0, AllOnes}
<1>1. PICK k \in Int : a = b + k * AllOnes
  BY DEF Same
<1>2. CASE k >= 2
  <2>1. k * AllOnes = 2 * AllOnes + (k - 2) * AllOnes /\ (k - 2) * AllOnes >= 0
    BY <1>2, Sizes
  <2>. QED BY <1>1, <2>1, Sizes
<1>3. CASE k <= -2
  <2>1. k * AllOnes = (0 - 2 * AllOnes) - ((-2 - k) * AllOnes) /\ (-2 - k) * AllOnes >= 0
    BY <1>3, Sizes
  <2>. QED BY <1>1, <2>1, Sizes
<1>4. CASE k = 1
  BY <1>1, <1>4, Sizes
<1>5. CASE k = 0
  BY <1>1, <1>5, Sizes
<1>6. CASE k = -1
  BY <1>1, <1>6, Sizes
<1>. QED BY <1>2, <1>3, <1>4, <1>5, <1>6

(* The carries end at a word that is the same as the sum, and at 0 only if the sum is 0. *)
LEMMA FoldedSame ==
  \A n \in Nat : Folded[n] \in 0..AllOnes /\ Same(Folded[n], n) /\ (Folded[n] = 0 <=> n = 0)
<1> DEFINE P(n) == Folded[n] \in 0..AllOnes /\ Same(Folded[n], n) /\ (Folded[n] = 0 <=> n = 0)
           S == {n \in Nat : ~P(n)}
<1> SUFFICES ASSUME S # {} PROVE FALSE
  OBVIOUS
<1>1. PICK n \in S : \A m \in S : n <= m
  <2>1. S \in SUBSET Nat
    OBVIOUS
  <2> HIDE DEF S
  <2>. QED BY <2>1, LeastOf
<1>2. n \in Nat /\ ~P(n) /\ \A m \in Nat : m < n => P(m)
  BY <1>1
<1> HIDE DEF P, S
<1>3. CASE n < WordSize
  <2>1. Folded[n] = n /\ Same(n, n)
    BY <1>2, <1>3, FoldedDef, SameRefl
  <2>. QED BY <1>2, <1>3, <2>1, Sizes DEF P
<1>4. CASE ~(n < WordSize)
  <2> DEFINE q == n \div WordSize
             r == n % WordSize
  <2>1. q \in Int /\ r \in 0..(WordSize - 1) /\ n = WordSize * q + r
    <3>1. n \in Int /\ WordSize \in Nat \ {0}
      BY <1>2, Sizes
    <3>. QED BY <3>1, DivMod
  <2>2. Folded[n] = Folded[q + r]
    BY <1>2, <1>4, FoldedDef
  <2> HIDE DEF q, r
  <2>3. q >= 1
    <3> SUFFICES ASSUME ~(q >= 1) PROVE FALSE
      OBVIOUS
    <3>1. (0 - q) * WordSize >= 0
      BY <2>1, Sizes
    <3>. QED BY <1>4, <2>1, <3>1, Sizes
  <2>4. n = (q + r) + q * AllOnes /\ q * AllOnes >= AllOnes
    <3>1. q * AllOnes >= AllOnes
      BY <2>1, <2>3, Sizes, Times
    <3>. QED BY <2>1, <3>1, Sizes
  <2>5. q + r \in Nat /\ q + r < n /\ q + r # 0 /\ n # 0
    BY <1>2, <2>1, <2>3, <2>4, Sizes
  <2>6. P(q + r)
    BY <1>2, <2>5
  <2>7. Same(n, q + r)
    BY <2>1, <2>4 DEF Same
  <2>8. Folded[q + r] \in 0..AllOnes /\ Same(Folded[q + r], q + r) /\ Folded[q + r] # 0
    BY <2>5, <2>6 DEF P
  <2>9. Same(Folded[q + r], n)
    <3>1. Folded[q + r] \in Int /\ q + r \in Int /\ n \in Int
      BY <1>2, <2>5, <2>8, Sizes
    <3>. QED BY <2>7, <2>8, <3>1, SameSym, SameTrans
  <2>. QED BY <1>2, <2>2, <2>5, <2>8, <2>9 DEF P
<1>. QED BY <1>3, <1>4

-----------------------------------------------------------------------------
(* The sum of the words. *)

(* The sums of the first words *)
Adds(f, words, n) ==
    f \in [0..n -> Nat] /\ f[0] = 0 /\ \A k \in 1..n : f[k] = f[k - 1] + words[k]

(* Every sequence can be added up, to any of its words. *)
LEMMA AddsExist ==
  ASSUME NEW words \in Seq(Nat), NEW n \in 0..Len(words)
  PROVE  \E f : Adds(f, words, n)
<1> DEFINE P(m) == \E f : Adds(f, words, m)
           S == {m \in 0..Len(words) : ~P(m)}
<1> SUFFICES ASSUME S # {} PROVE FALSE
  OBVIOUS
<1>1. PICK m \in S : \A j \in S : m <= j
  <2>1. S \in SUBSET Nat
    OBVIOUS
  <2> HIDE DEF S
  <2>. QED BY <2>1, LeastOf
<1>2. m \in 0..Len(words) /\ ~P(m) /\ \A j \in 0..Len(words) : j < m => P(j)
  BY <1>1
<1> HIDE DEF S
<1>3. CASE m = 0
  <2> DEFINE f == [k \in 0..0 |-> 0]
  <2>1. Adds(f, words, 0)
    BY DEF Adds
  <2>. QED BY <1>2, <1>3, <2>1
<1>4. CASE m # 0
  <2>1. m - 1 \in 0..Len(words) /\ m - 1 < m /\ m \in 1..Len(words) /\ words[m] \in Nat
    BY <1>2, <1>4
  <2>2. PICK f : Adds(f, words, m - 1)
    BY <1>2, <2>1
  <2> DEFINE g == [k \in 0..m |-> IF k = m THEN f[m - 1] + words[m] ELSE f[k]]
  <2>3. f \in [0..(m - 1) -> Nat] /\ f[0] = 0 /\ \A k \in 1..(m - 1) : f[k] = f[k - 1] + words[k]
    BY <2>2 DEF Adds
  <2>4. g \in [0..m -> Nat]
    BY <2>1, <2>3
  <2>5. g[0] = 0
    BY <1>4, <2>1, <2>3
  <2>6. ASSUME NEW k \in 1..m PROVE g[k] = g[k - 1] + words[k]
    <3>1. k \in 0..m /\ k - 1 \in 0..m /\ k - 1 # m
      BY <2>1
    <3>2. g[k - 1] = f[k - 1] /\ g[k] = IF k = m THEN f[m - 1] + words[m] ELSE f[k]
      BY <3>1
    <3>3. k # m => k \in 1..(m - 1)
      BY <2>1
    <3> HIDE DEF g
    <3>. QED BY <2>3, <3>2, <3>3
  <2>7. Adds(g, words, m)
    <3> HIDE DEF g
    <3>. QED BY <2>4, <2>5, <2>6 DEF Adds
  <2>. QED BY <1>2, <2>7
<1>. QED BY <1>3, <1>4

(* WordSum is the last of these sums. *)
LEMMA SumDef ==
  ASSUME NEW words \in Seq(Nat)
  PROVE  \E f : Adds(f, words, Len(words)) /\ WordSum(words) = f[Len(words)]
<1> DEFINE n == Len(words)
           Step(f) == [k \in 0..n |-> IF k = 0 THEN 0 ELSE f[k - 1] + words[k]]
           sum == CHOOSE f : f = Step(f)
<1>1. n \in Nat
  OBVIOUS
<1>2. PICK g : Adds(g, words, n)
  <2>1. n \in 0..Len(words)
    BY <1>1
  <2> HIDE DEF n
  <2>. QED BY <2>1, AddsExist
<1>3. g = Step(g)
  BY <1>1, <1>2 DEF Adds
<1>4. sum = Step(sum)
  BY <1>3, Zenon
<1>5. WordSum(words) = sum[n]
  BY Zenon DEF WordSum
<1> HIDE DEF sum
<1>6. sum[0] = 0 /\ \A k \in 1..n : sum[k] = sum[k - 1] + words[k]
  <2>1. sum[0] = 0
    BY <1>1, <1>4
  <2>2. ASSUME NEW k \in 1..n PROVE sum[k] = sum[k - 1] + words[k]
    <3>1. k \in 0..n /\ k # 0
      BY <1>1
    <3>2. Step(sum)[k] = sum[k - 1] + words[k]
      BY <3>1
    <3> HIDE DEF Step
    <3>. QED BY <1>4, <3>2
  <2>. QED BY <2>1, <2>2
<1>7. \A k \in 0..n : sum[k] = g[k]
  <2> DEFINE S == {k \in 0..n : sum[k] # g[k]}
  <2> SUFFICES ASSUME S # {} PROVE FALSE
    OBVIOUS
  <2>1. PICK k \in S : \A j \in S : k <= j
    <3>1. S \in SUBSET Nat
      BY <1>1
    <3> HIDE DEF S
    <3>. QED BY <3>1, LeastOf
  <2>2. k # 0
    BY <1>2, <1>6, <2>1 DEF Adds
  <2>3. k \in 1..n /\ k - 1 \in 0..n /\ sum[k] # g[k] /\ sum[k - 1] = g[k - 1]
    BY <1>1, <2>1, <2>2
  <2>. QED BY <1>2, <1>6, <2>3 DEF Adds
<1>8. g[n] = sum[n]
  BY <1>1, <1>7
<1>. QED BY <1>2, <1>5, <1>8

(* A sum of words is a natural number. *)
LEMMA SumType ==
  ASSUME NEW words \in Seq(Nat)
  PROVE  WordSum(words) \in Nat
<1>1. PICK f : Adds(f, words, Len(words)) /\ WordSum(words) = f[Len(words)]
  BY SumDef
<1>2. Len(words) \in 0..Len(words)
  OBVIOUS
<1>. QED BY <1>1, <1>2 DEF Adds

(* A word that is 0 adds nothing; with another value there, the sum grows by that value. *)
LEMMA SumAt ==
  ASSUME NEW old \in Seq(Nat), NEW new \in Seq(Nat), Len(new) = Len(old), NEW i \in 1..Len(old),
         old[i] = 0, \A k \in 1..Len(old) : k # i => new[k] = old[k]
  PROVE  WordSum(new) = WordSum(old) + new[i]
<1> DEFINE n == Len(old)
<1>1. PICK f : Adds(f, old, n) /\ WordSum(old) = f[n]
  BY SumDef
<1>2. PICK g : Adds(g, new, n) /\ WordSum(new) = g[n]
  BY SumDef
<1>3. n \in Nat /\ i \in 1..n /\ new[i] \in Nat /\ \A k \in 1..n : k # i => new[k] = old[k]
  OBVIOUS
<1> HIDE DEF n
<1> DEFINE T(k) == IF k < i THEN g[k] = f[k] ELSE g[k] = f[k] + new[i]
           S == {k \in 0..n : ~T(k)}
<1>4. S = {}
  <2> SUFFICES ASSUME S # {} PROVE FALSE
    OBVIOUS
  <2>1. PICK k \in S : \A j \in S : k <= j
    <3>1. S \in SUBSET Nat
      BY <1>3
    <3> HIDE DEF S
    <3>. QED BY <3>1, LeastOf
  <2>2. k \in 0..n /\ ~T(k)
    BY <2>1
  <2>3. k # 0
    BY <1>1, <1>2, <1>3, <2>2 DEF Adds
  <2>4. k \in 1..n /\ k - 1 \in 0..n /\ T(k - 1)
    <3>1. k \in 1..n /\ k - 1 \in 0..n /\ ~(k <= k - 1)
      BY <1>3, <2>2, <2>3
    <3>. QED BY <2>1, <3>1
  <2>5. /\ f[k] = f[k - 1] + old[k] /\ g[k] = g[k - 1] + new[k]
        /\ f[k - 1] \in Nat /\ g[k - 1] \in Nat
    BY <1>1, <1>2, <2>4 DEF Adds
  <2>6. CASE k = i
    BY <1>3, <2>2, <2>4, <2>5, <2>6
  <2>7. CASE k # i
    <3>1. new[k] = old[k] /\ old[k] \in Nat
      <4>1. k \in 1..n
        BY <2>4
      <4> HIDE DEF T, S
      <4>2. new[k] = old[k]
        BY <1>3, <2>7, <4>1
      <4>. QED BY <4>1, <4>2 DEF n
    <3>2. k < i <=> k - 1 < i
      BY <1>3, <2>4, <2>7
    <3>3. g[k] = g[k - 1] + old[k]
      BY <2>5, <3>1
    <3>4. CASE k < i
      <4>1. g[k - 1] = f[k - 1] /\ g[k] # f[k]
        BY <2>2, <2>4, <3>2, <3>4
      <4>2. g[k] = f[k - 1] + old[k]
        BY <3>3, <4>1
      <4> HIDE DEF T, S
      <4>. QED BY <2>5, <4>1, <4>2
    <3>5. CASE ~(k < i)
      <4>1. g[k - 1] = f[k - 1] + new[i] /\ g[k] # f[k] + new[i]
        BY <2>2, <2>4, <3>2, <3>5
      <4> HIDE DEF T, S
      <4>. QED BY <1>3, <2>5, <3>1, <3>3, <4>1
    <3>. QED BY <3>4, <3>5
  <2>. QED BY <2>6, <2>7
<1>5. T(n) /\ ~(n < i)
  <2>1. n \in 0..n /\ ~(n < i)
    BY <1>3
  <2>2. T(n)
    <3> HIDE DEF T
    <3>. QED BY <1>4, <2>1
  <2>. QED BY <2>1, <2>2
<1>. QED BY <1>1, <1>2, <1>5

(* Every word is a number. *)
LEMMA WordIsNat ==
  ASSUME NEW words \in Seq(Nat), NEW k \in 1..Len(words)
  PROVE  words[k] \in Nat
OBVIOUS

(* The sum of the five words of an IP header *)
LEMMA SumOfFive ==
  ASSUME NEW words \in Seq(Nat), Len(words) = 5
  PROVE  WordSum(words) = words[1] + words[2] + words[3] + words[4] + words[5]
<1>1. \A k \in 1..Len(words) : words[k] \in Nat
  BY WordIsNat
<1>2. PICK f : Adds(f, words, 5) /\ WordSum(words) = f[5]
  BY SumDef
<1>3. /\ f[0] = 0 /\ f[1] = f[0] + words[1] /\ f[2] = f[1] + words[2] /\ f[3] = f[2] + words[3]
      /\ f[4] = f[3] + words[4] /\ f[5] = f[4] + words[5]
  BY <1>2 DEF Adds
<1>4. words[1] \in Nat /\ words[2] \in Nat /\ words[3] \in Nat /\ words[4] \in Nat /\ words[5] \in Nat
  BY <1>1
<1>. QED BY <1>2, <1>3, <1>4

-----------------------------------------------------------------------------
(* The checksum. *)

(* The checksum is a word other than 0 which, added to the sum, gives a multiple of AllOnes. *)
LEMMA CksumWord ==
  ASSUME NEW words \in Seq(Nat)
  PROVE  cksum(words) \in 1..AllOnes /\ cksum(words) \in Word /\ Same(WordSum(words) + cksum(words), 0)
<1> DEFINE s == WordSum(words)
           w == Folded[s]
<1>1. s \in Nat
  BY SumType
<1>2. w \in 0..AllOnes /\ Same(w, s)
  BY <1>1, FoldedSame
<1>3. cksum(words) = IF AllOnes - w = 0 THEN AllOnes ELSE AllOnes - w
  BY Sizes DEF cksum, AllOnes
<1> HIDE DEF s, w
<1>4. cksum(words) \in 1..AllOnes
  BY <1>2, <1>3, Sizes
<1>5. s + cksum(words) = (s - w) + 1 * AllOnes \/ (w = AllOnes /\ s + cksum(words) = (s - w) + 2 * AllOnes)
  BY <1>1, <1>2, <1>3, Sizes
<1>6. PICK k \in Int : w = s + k * AllOnes
  BY <1>2 DEF Same
<1>7. \/ s + cksum(words) = 0 + (1 - k) * AllOnes
      \/ s + cksum(words) = 0 + (2 - k) * AllOnes
  BY <1>1, <1>2, <1>5, <1>6, Sizes
<1>8. Same(s + cksum(words), 0)
  BY <1>6, <1>7 DEF Same
<1>. QED BY <1>4, <1>8, Sizes DEF s, Word

(***************************************************************************)
(* What is verified is that the words add up to a multiple of the largest  *)
(* word (cksum, and its test in handleIpPacket).                           *)
(***************************************************************************)
THEOREM VerifiesSame ==
  ASSUME NEW words \in Seq(Nat)
  PROVE  Verifies(words) <=> Same(WordSum(words), 0)
<1> DEFINE s == WordSum(words)
           c == cksum(words)
<1>1. s \in Int /\ c \in 1..AllOnes /\ Same(s + c, 0)
  BY CksumWord, SumType
<1>2. Verifies(words) <=> c = AllOnes
  BY DEF Verifies
<1> HIDE DEF s, c
<1>3. PICK k \in Int : s + c = 0 + k * AllOnes
  BY <1>1 DEF Same
<1>4. ASSUME c = AllOnes PROVE Same(s, 0)
  <2>1. s = 0 + (k - 1) * AllOnes
    BY <1>1, <1>3, <1>4, Sizes
  <2>. QED BY <2>1 DEF Same
<1>5. ASSUME Same(s, 0) PROVE c = AllOnes
  <2>1. PICK j \in Int : s = 0 + j * AllOnes
    BY <1>5 DEF Same
  <2>2. c = 0 + (k - j) * AllOnes
    BY <1>1, <1>3, <2>1, Sizes
  <2>3. Same(c, 0)
    BY <2>2 DEF Same
  <2>. QED BY <1>1, <2>3, SameEnds, Sizes
<1>. QED BY <1>2, <1>4, <1>5 DEF s
=============================================================================
