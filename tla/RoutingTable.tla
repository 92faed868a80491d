---------------------------- MODULE RoutingTable ----------------------------
(***************************************************************************)
(* The routing table of the simple router (routing-table.cpp): a list of   *)
(* entries in the order of the file.  Addresses and masks are kept in      *)
(* network order and compared as numbers of a little-endian host.          *)
(***************************************************************************)
EXTENDS IpHeader

CONSTANTS
    Ifaces, NoRoute,
    Lines,          \* entries that the lines of the file may hold
    MaxEntries      \* bound on the length of the file

VARIABLE m_entries

RoutingTableEntry == [dest : Word, mask : Word, ifName : Ifaces]

ASSUME TableAssumption ==
    Lines \subseteq RoutingTableEntry /\ NoRoute \notin Lines /\ MaxEntries \in Nat

addEntry(entry) == m_entries' = Append(m_entries, entry)

(* One line of the file; the entries keep its order, and none is checked against the others. *)
loadLine == Len(m_entries) < MaxEntries /\ \E entry \in Lines : addEntry(entry)

(* The place values of the bits of a word: powers of two have no odd divisor but 1. *)
BitValues == {n \in 1..(WordSize - 1) : \A d \in 2..n : n % d = 0 => d % 2 = 0}
Bits(w) == {b \in BitValues : (w \div b) % 2 = 1}

(* The address and the entry agree in the bits that are left when both are masked. *)
Matches(entry, ip) == Bits(ip) \cap Bits(entry.mask) = Bits(entry.dest) \cap Bits(entry.mask)

(* The bytes of a word, read by a little-endian host *)
HostOrder(w) == FirstByte(w) + ByteSize * (w % ByteSize)

(* Mutant: the last entry that matches is taken. *)
BetterLast(entry, best) == TRUE

Better(entry, best) == best = NoRoute \/ HostOrder(entry.mask) >= HostOrder(best.mask)

(* The longest match after k entries; in the end it is NoRoute where the code throws. *)
lookup(ip) ==
    LET longestmatch[k \in 0..Len(m_entries)] ==
            IF k = 0 THEN NoRoute
            ELSE IF Matches(m_entries[k], ip) /\ Better(m_entries[k], longestmatch[k - 1])
                 THEN m_entries[k]
                 ELSE longestmatch[k - 1]
    IN  longestmatch[Len(m_entries)]

-----------------------------------------------------------------------------
(* Masks of a prefix: bytes of all ones, one that begins with ones, then bytes of zeros *)
PrefixBytes == {ByteSize - n : n \in {b \in BitValues : b <= ByteSize}}
PrefixMasks == {ByteSize * p : p \in PrefixBytes} \cup {ByteSize * (ByteSize - 1) + p : p \in PrefixBytes}

(***************************************************************************)
(* "longest-prefix match" (routing-table.hpp:44): the entries that match,  *)
(* and whose mask leaves the fewest addresses.                             *)
(***************************************************************************)
LongestPrefix(ip) ==
    {e \in ToSet(m_entries) : /\ Matches(e, ip)
                              /\ \A f \in ToSet(m_entries) : Matches(f, ip) => f.mask <= e.mask}
=============================================================================
