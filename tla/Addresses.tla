----------------------------- MODULE Addresses -----------------------------
(***************************************************************************)
(* ip::address_v4, address_v6 and the ip::address that holds one of them.  *)
(* An address is its type, its bytes in network order and its scope: the   *)
(* member of ip::address that is not in use is always default-constructed, *)
(* so the type and the member in use are the whole of it, and an IPv4      *)
(* address has scope 0.                                                    *)
(*                                                                         *)
(* The code's bytes have eight bits and an IPv6 address has ten bytes      *)
(* before the two that mark a mapped one; both are parameters.  A test of  *)
(* a byte's leading bits is a division; the longest has four of them.      *)
(***************************************************************************)
EXTENDS Integers, Sequences

CONSTANTS
  Width,  \* bits of a byte (8)
  Zeros,  \* bytes of an IPv6 address before the marker of a mapped one (10)
  Ones    \* bytes of that marker (2)

ASSUME BytesAssumption ==
  /\ Width \in Nat /\ Width >= 4
  /\ {Zeros, Ones} \subseteq Nat \ {0}
  /\ Zeros >= 2

\* b to the n, written so that it can be reasoned about.
Power(b, n) ==
  LET upTo[i \in 0..n] == IF i = 0 THEN 1 ELSE upTo[i - 1] * b
  IN  upTo[n]

\* The values of a byte.
Base == Power(2, Width)
Byte == 0..(Base - 1)

V4Len == 4
V6Len == Zeros + Ones + V4Len

\* The values of unsigned words as wide as an IPv4 address.
Words == Power(Base, V4Len)

V4Address == [type : {"ipv4"}, bytes : [1..V4Len -> Byte], scope : {0}]
V6Address == [type : {"ipv6"}, bytes : [1..V6Len -> Byte], scope : Nat]

V4(bytes)        == [type |-> "ipv4", bytes |-> bytes, scope |-> 0]
V6(bytes, scope) == [type |-> "ipv6", bytes |-> bytes, scope |-> scope]

IsV4(a) == a.type = "ipv4"

-----------------------------------------------------------------------------
(* The bytes as one number, and back.                                       *)

\* The number the bytes are the digits of: to_uint(), for four of them.
Number(bytes) ==
  LET upTo[i \in 0..Len(bytes)] == IF i = 0 THEN 0 ELSE upTo[i - 1] * Base + bytes[i]
  IN  upTo[Len(bytes)]

\* address_v4(uint_type)
FromNumber(n) == V4([i \in 1..V4Len |-> (n \div Power(Base, V4Len - i)) % Base])

Same(n, b) == [i \in 1..n |-> b]

-----------------------------------------------------------------------------
(* Kinds of IPv4 addresses.  Leading(b, n) is what b has in the bits that   *)
(* tell n values apart.                                                     *)

Leading(b, n) == b \div (Base \div n)

IsClassA(a)      == Leading(a.bytes[1], 2) = 0
IsClassB(a)      == Leading(a.bytes[1], 4) = 2
IsClassC(a)      == Leading(a.bytes[1], 8) = 6
IsMulticastV4(a) == Leading(a.bytes[1], 16) = 14
IsLoopbackV4(a)  == a.bytes[1] = Base \div 2 - 1

Netmask(a) ==
  LET network == IF IsClassA(a) THEN 1 ELSE IF IsClassB(a) THEN 2 ELSE IF IsClassC(a) THEN 3 ELSE 4
  IN  V4([i \in 1..V4Len |-> IF i <= network THEN Base - 1 ELSE 0])

\* A bit of a byte, from the lowest.
Bit(b, k) == (b \div Power(2, k)) % 2

\* Bitwise "or" of two bytes.
Or(x, y) ==
  LET upTo[k \in 0..Width] ==
        IF k = 0 THEN 0
        ELSE upTo[k - 1] + (IF Bit(x, k - 1) = 1 \/ Bit(y, k - 1) = 1 THEN Power(2, k - 1) ELSE 0)
  IN  upTo[Width]

Broadcast(a, mask) == V4([i \in 1..V4Len |-> Or(a.bytes[i], Base - 1 - mask.bytes[i])])

-----------------------------------------------------------------------------
(* Kinds of IPv6 addresses.                                                 *)

Prefix(a) == SubSeq(a.bytes, 1, Zeros + Ones)
Suffix(a) == SubSeq(a.bytes, Zeros + Ones + 1, V6Len)

MappedPrefix     == Same(Zeros, 0) \o Same(Ones, Base - 1)
CompatiblePrefix == Same(Zeros + Ones, 0)
LoopbackSuffix   == Same(V4Len - 1, 0) \o <<1>>

IsUnspecifiedV6(a) == a.bytes = Same(V6Len, 0)
IsLoopbackV6(a)    == a.bytes = CompatiblePrefix \o LoopbackSuffix
IsV4Mapped(a)      == Prefix(a) = MappedPrefix

\* Fault: the unspecified and the loopback address are not told apart.
IsV4CompatibleAlways(a) == Prefix(a) = CompatiblePrefix

IsV4Compatible(a) ==
  /\ Prefix(a) = CompatiblePrefix
  /\ ~IsUnspecifiedV6(a) /\ ~IsLoopbackV6(a)

IsLinkLocal(a)   == a.bytes[1] = Base - 2 /\ Leading(a.bytes[2], 4) = 2
IsSiteLocal(a)   == a.bytes[1] = Base - 2 /\ Leading(a.bytes[2], 4) = 3
IsMulticastV6(a) == a.bytes[1] = Base - 1

\* is_multicast_node_local, link_local, site_local, org_local and global.
MulticastScope(a) ==
  LET nibble == a.bytes[2] % 16
  IN  IF ~IsMulticastV6(a) THEN "none"
      ELSE CASE nibble = 1  -> "node_local"
             [] nibble = 2  -> "link_local"
             [] nibble = 5  -> "site_local"
             [] nibble = 8  -> "org_local"
             [] nibble = 14 -> "global"
             [] OTHER       -> "none"

-----------------------------------------------------------------------------
(* Conversions; those that throw have a condition of their own.             *)

V4Mapped(a)     == V6(MappedPrefix \o a.bytes, 0)
V4Compatible(a) == V6(CompatiblePrefix \o a.bytes, 0)

\* address_v6::to_v4() throws bad_address_cast for any other address.
HasV4(a) == IsV4Mapped(a) \/ IsV4Compatible(a)
ToV4(a)  == V4(Suffix(a))

-----------------------------------------------------------------------------
(* The kinds and the order of ip::address.                                  *)

IsLoopback(a)    == IF IsV4(a) THEN IsLoopbackV4(a) ELSE IsLoopbackV6(a)
IsUnspecified(a) == IF IsV4(a) THEN Number(a.bytes) = 0 ELSE IsUnspecifiedV6(a)
IsMulticast(a)   == IF IsV4(a) THEN IsMulticastV4(a) ELSE IsMulticastV6(a)

\* memcmp(s, t) < 0
BytesLess(s, t) == \E i \in DOMAIN s : s[i] < t[i] /\ \A j \in 1..(i - 1) : s[j] = t[j]

\* Fault: the scope counts before the bytes.
LessByScope(a, b) ==
  \/ IsV4(a) /\ ~IsV4(b)
  \/ IsV4(a) /\ IsV4(b) /\ Number(a.bytes) < Number(b.bytes)
  \/ /\ ~IsV4(a) /\ ~IsV4(b)
     /\ \/ a.scope < b.scope
        \/ a.scope = b.scope /\ BytesLess(a.bytes, b.bytes)

\* operator<: IPv4 before IPv6, then the value, then the scope.
Less(a, b) ==
  \/ IsV4(a) /\ ~IsV4(b)
  \/ IsV4(a) /\ IsV4(b) /\ Number(a.bytes) < Number(b.bytes)
  \/ /\ ~IsV4(a) /\ ~IsV4(b)
     /\ \/ BytesLess(a.bytes, b.bytes)
        \/ a.bytes = b.bytes /\ a.scope < b.scope

=============================================================================
