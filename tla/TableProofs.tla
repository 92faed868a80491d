---------------------------- MODULE TableProofs ----------------------------
(***************************************************************************)
(* The routing table of routing-table.cpp: lookup finds the longest prefix *)
(* that matches, for any table whose masks are masks of prefixes.          *)
(***************************************************************************)
EXTENDS RoutingTable, ChecksumProofs

-----------------------------------------------------------------------------
(* Masks in the two byte orders. *)

(* The bytes of a mask of a prefix: the second is empty unless the first is full. *)
LEMMA MaskBytes ==
  ASSUME NEW w \in PrefixMasks
  PROVE  \E hi, lo \in 0..(ByteSize - 1) :
           w = ByteSize * hi + lo /\ (lo = 0 \/ hi = ByteSize - 1) /\ HostOrder(w) = hi + ByteSize * lo
<1>1. PrefixBytes \subseteq 0..(ByteSize - 1)
  BY Sizes DEF PrefixBytes, BitValues
<1>2. PICK p \in PrefixBytes : w = ByteSize * p + 0 \/ w = ByteSize * (ByteSize - 1) + p
  BY <1>1, Sizes DEF PrefixMasks
<1>3. \E hi, lo \in 0..(ByteSize - 1) : w = ByteSize * hi + lo /\ (lo = 0 \/ hi = ByteSize - 1)
  <2>1. p \in 0..(ByteSize - 1) /\ 0 \in 0..(ByteSize - 1) /\ ByteSize - 1 \in 0..(ByteSize - 1)
    BY <1>1, Sizes
  <2>. QED BY <1>2, <2>1
<1>4. PICK hi, lo \in 0..(ByteSize - 1) : w = ByteSize * hi + lo /\ (lo = 0 \/ hi = ByteSize - 1)
  BY <1>3
<1>5. w \div ByteSize = hi /\ w % ByteSize = lo
  <2>1. w \in Int /\ ByteSize \in Nat \ {0} /\ hi \in Int
    BY <1>4, Sizes
  <2>. QED BY <1>4, <2>1, DivModUnique
<1>. QED BY <1>4, <1>5 DEF HostOrder, FirstByte

(* The order of such masks does not depend on the byte order. *)
LEMMA MaskOrder ==
  ASSUME NEW v \in PrefixMasks, NEW w \in PrefixMasks
  PROVE  v \in Nat /\ w \in Nat /\ (HostOrder(v) >= HostOrder(w) <=> v >= w)
<1>1. PICK a, b \in 0..(ByteSize - 1) :
        v = ByteSize * a + b /\ (b = 0 \/ a = ByteSize - 1) /\ HostOrder(v) = a + ByteSize * b
  BY MaskBytes
<1>2. PICK c, d \in 0..(ByteSize - 1) :
        w = ByteSize * c + d /\ (d = 0 \/ c = ByteSize - 1) /\ HostOrder(w) = c + ByteSize * d
  BY MaskBytes
<1>3. v \in Nat /\ w \in Nat
  BY <1>1, <1>2, Sizes
<1>4. ASSUME NEW x \in 0..(ByteSize - 1), NEW y \in 0..(ByteSize - 1), x > y
      PROVE  ByteSize * x >= ByteSize * y + ByteSize
  <2>1. x - y \in Nat \ {0} /\ ByteSize \in Nat
    BY <1>4, Sizes
  <2>2. ByteSize <= (x - y) * ByteSize
    BY <2>1, Times
  <2>. QED BY <2>1, <2>2
<1>5. a > c => v > w /\ HostOrder(v) >= HostOrder(w)
  <2> SUFFICES ASSUME a > c PROVE v > w /\ HostOrder(v) >= HostOrder(w)
    OBVIOUS
  <2>1. ByteSize * a >= ByteSize * c + ByteSize
    BY <1>4
  <2>2. d = 0 /\ ByteSize * b >= 0 /\ ByteSize * d = 0
    BY <1>2, Sizes
  <2>. QED BY <1>1, <1>2, <1>3, <2>1, <2>2, Sizes
<1>6. c > a => w > v /\ ~(HostOrder(v) >= HostOrder(w))
  <2> SUFFICES ASSUME c > a PROVE w > v /\ ~(HostOrder(v) >= HostOrder(w))
    OBVIOUS
  <2>1. ByteSize * c >= ByteSize * a + ByteSize
    BY <1>4
  <2>2. b = 0 /\ ByteSize * d >= 0 /\ ByteSize * b = 0
    BY <1>1, Sizes
  <2>. QED BY <1>1, <1>2, <1>3, <2>1, <2>2, Sizes
<1>7. a = c => (HostOrder(v) >= HostOrder(w) <=> v >= w)
  <2>1. b > d => ByteSize * b >= ByteSize * d + ByteSize
    BY <1>4
  <2>2. d > b => ByteSize * d >= ByteSize * b + ByteSize
    BY <1>4
  <2>. QED BY <1>1, <1>2, <2>1, <2>2, Sizes
<1>. QED BY <1>3, <1>5, <1>6, <1>7

-----------------------------------------------------------------------------
(* The loop of lookup. *)

(* f[k] is the longest match after k entries. *)
Searches(f, ip, n) ==
    /\ DOMAIN f = 0..n
    /\ f[0] = NoRoute
    /\ \A k \in 1..n :
         f[k] = IF Matches(m_entries[k], ip) /\ Better(m_entries[k], f[k - 1])
                THEN m_entries[k] ELSE f[k - 1]

(* The recursion of lookup has a solution for every length of the table. *)
LEMMA SearchExists ==
  ASSUME m_entries \in Seq(Lines), NEW ip, NEW n \in 0..Len(m_entries)
  PROVE  \E f : f = [k \in 0..n |-> f[k]] /\ Searches(f, ip, n)
<1> DEFINE P(m) == \E f : f = [k \in 0..m |-> f[k]] /\ Searches(f, ip, m)
           S == {m \in 0..Len(m_entries) : ~P(m)}
<1> SUFFICES ASSUME S # {} PROVE FALSE
  OBVIOUS
<1>0. Len(m_entries) \in Nat
  OBVIOUS
<1>1. PICK m \in S : \A j \in S : m <= j
  <2>1. S \in SUBSET Nat
    BY <1>0
  <2> HIDE DEF S
  <2>. QED BY <2>1, LeastOf
<1>2. m \in 0..Len(m_entries) /\ ~P(m) /\ \A j \in 0..Len(m_entries) : j < m => P(j)
  BY <1>0, <1>1
<1> HIDE DEF S
<1>3. CASE m = 0
  <2> DEFINE f == [k \in 0..0 |-> NoRoute]
  <2>1. f = [k \in 0..0 |-> f[k]] /\ Searches(f, ip, 0)
    BY DEF Searches
  <2>. QED BY <1>2, <1>3, <2>1
<1>4. CASE m # 0
  <2>1. m - 1 \in 0..Len(m_entries) /\ m - 1 < m /\ m \in 1..Len(m_entries)
    BY <1>0, <1>2, <1>4
  <2>2. PICK f : Searches(f, ip, m - 1)
    BY <1>2, <2>1
  <2> DEFINE last == IF Matches(m_entries[m], ip) /\ Better(m_entries[m], f[m - 1])
                     THEN m_entries[m] ELSE f[m - 1]
             g == [k \in 0..m |-> IF k = m THEN last ELSE f[k]]
  <2> HIDE DEF last
  <2>3. g = [k \in 0..m |-> g[k]]
    OBVIOUS
  <2>4. \A k \in 0..m : g[k] = IF k = m THEN last ELSE f[k]
    OBVIOUS
  <2>5. DOMAIN g = 0..m
    OBVIOUS
  <2> HIDE DEF g
  <2>6. g[0] = NoRoute
    BY <1>4, <2>1, <2>2, <2>4 DEF Searches
  <2>7. ASSUME NEW k \in 1..m
        PROVE  g[k] = IF Matches(m_entries[k], ip) /\ Better(m_entries[k], g[k - 1])
                      THEN m_entries[k] ELSE g[k - 1]
    <3>1. k \in 0..m /\ k - 1 \in 0..m /\ k - 1 # m /\ (k # m => k \in 1..(m - 1))
      BY <2>1
    <3>2. g[k - 1] = f[k - 1] /\ g[k] = IF k = m THEN last ELSE f[k]
      BY <2>4, <3>1
    <3>3. CASE k = m
      BY <3>2, <3>3 DEF last
    <3>4. CASE k # m
      BY <2>2, <3>1, <3>2, <3>4 DEF Searches
    <3>. QED BY <3>3, <3>4
  <2>8. Searches(g, ip, m)
    BY <2>5, <2>6, <2>7 DEF Searches
  <2>. QED BY <1>2, <2>3, <2>8
<1>. QED BY <1>3, <1>4

(* lookup returns the last value of such a search. *)
LEMMA LookupDef ==
  ASSUME m_entries \in Seq(Lines), NEW ip
  PROVE  \E f : Searches(f, ip, Len(m_entries)) /\ lookup(ip) = f[Len(m_entries)]
<1> DEFINE n == Len(m_entries)
           Step(f) == [k \in 0..n |-> IF k = 0 THEN NoRoute
                                      ELSE IF Matches(m_entries[k], ip) /\ Better(m_entries[k], f[k - 1])
                                           THEN m_entries[k]
                                           ELSE f[k - 1]]
           best == CHOOSE f : f = Step(f)
<1>1. n \in Nat
  OBVIOUS
<1>2. PICK g : g = [k \in 0..n |-> g[k]] /\ Searches(g, ip, n)
  <2>1. n \in 0..Len(m_entries)
    BY <1>1
  <2> HIDE DEF n
  <2>. QED BY <2>1, SearchExists
<1>3. g = Step(g)
  <2>1. \A k \in 0..n : g[k] = Step(g)[k]
    BY <1>1, <1>2 DEF Searches
  <2> HIDE DEF n
  <2>. QED BY <1>2, <2>1
<1>4. best = Step(best)
  BY <1>3, Zenon
<1>5. lookup(ip) = best[n]
  BY Zenon DEF lookup
<1> HIDE DEF best
<1>6. Searches(best, ip, n)
  <2>1. DOMAIN best = 0..n
    BY <1>4
  <2>2. best[0] = NoRoute
    BY <1>1, <1>4
  <2>3. ASSUME NEW k \in 1..n
        PROVE  best[k] = IF Matches(m_entries[k], ip) /\ Better(m_entries[k], best[k - 1])
                         THEN m_entries[k] ELSE best[k - 1]
    <3>1. k \in 0..n /\ k # 0
      BY <1>1
    <3>2. Step(best)[k] = IF Matches(m_entries[k], ip) /\ Better(m_entries[k], best[k - 1])
                          THEN m_entries[k] ELSE best[k - 1]
      BY <3>1
    <3> HIDE DEF Step
    <3>. QED BY <1>4, <3>2
  <2>. QED BY <2>1, <2>2, <2>3 DEF Searches
<1>. QED BY <1>5, <1>6

(* lookup returns an entry of the table, whatever its masks are, or throws. *)
LEMMA LookupEntry ==
  ASSUME m_entries \in Seq(Lines), NEW ip
  PROVE  lookup(ip) \in Lines \cup {NoRoute}
<1> DEFINE N == Len(m_entries)
<1>1. PICK f : Searches(f, ip, N) /\ lookup(ip) = f[N]
  BY LookupDef
<1> DEFINE S == {m \in 0..N : f[m] \notin Lines \cup {NoRoute}}
<1>2. N \in Nat /\ \A k \in 1..N : m_entries[k] \in Lines
  OBVIOUS
<1>3. S = {}
  <2> SUFFICES ASSUME S # {} PROVE FALSE
    OBVIOUS
  <2>1. PICK m \in S : \A j \in S : m <= j
    <3>1. S \in SUBSET Nat
      BY <1>2
    <3> HIDE DEF S
    <3>. QED BY <3>1, LeastOf
  <2>2. m # 0
    BY <1>1, <2>1 DEF Searches
  <2>3. m \in 1..N /\ m - 1 \in 0..N /\ ~(m <= m - 1)
    BY <1>2, <2>1, <2>2
  <2>4. f[m - 1] \in Lines \cup {NoRoute} /\ f[m] \notin Lines \cup {NoRoute}
    BY <2>1, <2>3
  <2> HIDE DEF N, S
  <2>. QED BY <1>1, <1>2, <2>3, <2>4 DEF Searches
<1>4. N \in 0..N
  BY <1>2
<1> HIDE DEF N
<1>. QED BY <1>1, <1>3, <1>4

(* What the search has found after n entries is a match with the longest prefix among them. *)
FoundAmong(best, ip, n) ==
    /\ best = NoRoute => \A j \in 1..n : ~Matches(m_entries[j], ip)
    /\ best # NoRoute =>
         /\ \E i \in 1..n : best = m_entries[i] /\ Matches(best, ip)
         /\ \A j \in 1..n : Matches(m_entries[j], ip) => m_entries[j].mask <= best.mask

(* At every step of the loop the best entry so far has the longest prefix so far. *)
LEMMA SearchFinds ==
  ASSUME m_entries \in Seq(Lines), \A entry \in Lines : entry.mask \in PrefixMasks,
         NEW ip, NEW f, Searches(f, ip, Len(m_entries)), NEW n \in 0..Len(m_entries)
  PROVE  FoundAmong(f[n], ip, n)
<1> DEFINE N == Len(m_entries)
           S == {m \in 0..N : ~FoundAmong(f[m], ip, m)}
<1> SUFFICES ASSUME S # {} PROVE FALSE
  OBVIOUS
<1>1. /\ N \in Nat
      /\ \A k \in 1..N : /\ m_entries[k] \in Lines /\ m_entries[k] # NoRoute
                         /\ m_entries[k].mask \in PrefixMasks
  BY TableAssumption
<1>2. PICK m \in S : \A j \in S : m <= j
  <2>1. S \in SUBSET Nat
    BY <1>1
  <2> HIDE DEF S
  <2>. QED BY <2>1, LeastOf
<1>3. m \in 0..N /\ ~FoundAmong(f[m], ip, m) /\ \A j \in 0..N : j < m => FoundAmong(f[j], ip, j)
  BY <1>1, <1>2
<1> HIDE DEF S, N
<1>4. m # 0
  BY <1>3 DEF FoundAmong, Searches
<1>5. m \in 1..N /\ m - 1 \in 0..N /\ FoundAmong(f[m - 1], ip, m - 1)
  BY <1>1, <1>3, <1>4
<1> DEFINE best == f[m - 1]
           entry == m_entries[m]
<1>6. f[m] = IF Matches(entry, ip) /\ Better(entry, best) THEN entry ELSE best
  BY <1>5 DEF Searches, N
<1>7. /\ entry # NoRoute /\ entry.mask \in PrefixMasks
      /\ entry = m_entries[m]
  BY <1>1, <1>5
<1>8. FoundAmong(best, ip, m - 1)
  BY <1>5
<1>9. \A j \in 1..m : j \in 1..N /\ (j = m \/ j \in 1..(m - 1))
  BY <1>1, <1>5
<1>10. \A j \in 1..(m - 1) : j \in 1..m /\ j \in 1..N
  BY <1>1, <1>5
<1>11. m \in 1..m
  BY <1>1, <1>5
<1> HIDE DEF best, entry
<1>12. best # NoRoute =>
         /\ best.mask \in PrefixMasks /\ best.mask \in Nat /\ entry.mask \in Nat
         /\ Better(entry, best) <=> entry.mask >= best.mask
  <2> SUFFICES ASSUME best # NoRoute
               PROVE  /\ best.mask \in PrefixMasks /\ best.mask \in Nat /\ entry.mask \in Nat
                      /\ Better(entry, best) <=> entry.mask >= best.mask
    OBVIOUS
  <2>1. best.mask \in PrefixMasks
    BY <1>1, <1>8, <1>10 DEF FoundAmong
  <2>. QED BY <1>7, <2>1, MaskOrder DEF Better
<1>13. \A j \in 1..N : m_entries[j].mask \in Nat
  BY <1>1, MaskOrder
<1>14. CASE Matches(entry, ip) /\ Better(entry, best)
  <2>1. f[m] = entry /\ f[m] # NoRoute
    BY <1>6, <1>7, <1>14
  <2>2. \E i \in 1..m : f[m] = m_entries[i] /\ Matches(f[m], ip)
    BY <1>7, <1>11, <1>14, <2>1
  <2>3. ASSUME NEW j \in 1..m, Matches(m_entries[j], ip) PROVE m_entries[j].mask <= entry.mask
    <3>1. CASE j = m
      BY <1>7, <1>9, <1>13, <3>1
    <3>2. CASE j # m
      <4>1. j \in 1..(m - 1) /\ j \in 1..N
        BY <1>9, <3>2
      <4>2. best # NoRoute /\ m_entries[j].mask <= best.mask
        BY <1>8, <2>3, <4>1 DEF FoundAmong
      <4>3. entry.mask >= best.mask /\ best.mask \in Nat /\ entry.mask \in Nat
        BY <1>12, <1>14, <4>2
      <4>. QED BY <1>13, <4>1, <4>2, <4>3
    <3>. QED BY <3>1, <3>2
  <2>. QED BY <1>3, <2>1, <2>2, <2>3 DEF FoundAmong
<1>15. CASE ~(Matches(entry, ip) /\ Better(entry, best))
  <2>1. f[m] = best
    BY <1>6, <1>15
  <2>2. CASE best = NoRoute
    <3>1. ~Matches(entry, ip)
      BY <1>15, <2>2 DEF Better
    <3>2. \A j \in 1..m : ~Matches(m_entries[j], ip)
      BY <1>7, <1>8, <1>9, <2>2, <3>1 DEF FoundAmong
    <3>. QED BY <1>3, <2>1, <2>2, <3>2 DEF FoundAmong
  <2>3. CASE best # NoRoute
    <3>1. \E i \in 1..m : best = m_entries[i] /\ Matches(best, ip)
      BY <1>8, <1>10, <2>3 DEF FoundAmong
    <3>2. ASSUME NEW j \in 1..m, Matches(m_entries[j], ip) PROVE m_entries[j].mask <= best.mask
      <4>1. CASE j = m
        <5>1. ~(entry.mask >= best.mask) /\ best.mask \in Nat /\ entry.mask \in Nat
          BY <1>7, <1>12, <1>15, <2>3, <3>2, <4>1
        <5>. QED BY <1>7, <4>1, <5>1
      <4>2. CASE j # m
        BY <1>8, <1>9, <2>3, <3>2, <4>2 DEF FoundAmong
      <4>. QED BY <4>1, <4>2
    <3>. QED BY <1>3, <2>1, <2>3, <3>1, <3>2 DEF FoundAmong
  <2>. QED BY <2>2, <2>3
<1>. QED BY <1>14, <1>15

(***************************************************************************)
(* lookup returns an entry with the longest prefix that matches, and       *)
(* throws only if no entry matches (RoutingTable::lookup).                 *)
(***************************************************************************)
THEOREM LookupLongest ==
  ASSUME m_entries \in Seq(Lines), \A entry \in Lines : entry.mask \in PrefixMasks, NEW ip
  PROVE  /\ lookup(ip) # NoRoute => lookup(ip) \in LongestPrefix(ip)
         /\ lookup(ip) = NoRoute => LongestPrefix(ip) = {}
<1> DEFINE n == Len(m_entries)
<1>1. PICK f : Searches(f, ip, n) /\ lookup(ip) = f[n]
  BY LookupDef
<1>2. FoundAmong(lookup(ip), ip, n)
  <2>1. n \in 0..n
    OBVIOUS
  <2>. QED BY <1>1, <2>1, SearchFinds
<1>3. ToSet(m_entries) = {m_entries[k] : k \in 1..n}
  BY DEF ToSet
<1> HIDE DEF n
<1>. QED BY <1>2, <1>3 DEF FoundAmong, LongestPrefix
=============================================================================
