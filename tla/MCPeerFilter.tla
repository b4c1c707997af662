---------------------------- MODULE MCPeerFilter ----------------------------
(***************************************************************************)
(* Instances of PeerFilter: bytes of four bits, and IPv6 addresses of      *)
(* seven bytes.  The ranges are empty, plain, across one and two carries,  *)
(* around the highest address, with swapped ends, and with ends of two     *)
(* scopes; the peers are at their ends, inside and outside them.           *)
(***************************************************************************)
EXTENDS PeerFilter

\* 0.0.0.0, 0.0.0.1, 7.0.0.1 (loopback), and both sides of a carry.
Low4     == V4(<<0, 0, 0, 0>>)
One4     == V4(<<0, 0, 0, 1>>)
Local4   == V4(<<7, 0, 0, 1>>)
Before4  == V4(<<12, 0, 15, 14>>)
After4   == V4(<<12, 1, 0, 1>>)
Highest4 == V4(<<15, 15, 15, 15>>)

\* ::, ::1, both sides of a carry, in two scopes, a multicast and a link-local
\* address, and the highest.
Low6(s)    == V6(<<0, 0, 0, 0, 0, 0, 0>>, s)
One6       == V6(<<0, 0, 0, 0, 0, 0, 1>>, 0)
Before6(s) == V6(<<14, 8, 0, 0, 15, 15, 14>>, s)
Within6(s) == V6(<<14, 8, 0, 0, 15, 15, 15>>, s)
After6(s)  == V6(<<14, 8, 0, 1, 0, 0, 1>>, s)
Multicast6 == V6(<<15, 2, 0, 0, 0, 0, 1>>, 0)
Highest6   == V6(<<15, 15, 15, 15, 15, 15, 15>>, 0)

Between(a, b) == [begin |-> a, end |-> b]

MCRanges ==
  {Between(Low4, Low4), Between(Low4, One4), Between(Before4, After4),
   Between(Highest4, One4), Between(After4, Before4),
   Between(Local4, Broadcast(Local4, V4(<<15, 15, 15, 14>>))),
   Between(Low6(0), Low6(0)), Between(Low6(0), V6(<<0, 0, 0, 0, 0, 0, 3>>, 0)),
   Between(Before6(0), After6(0)), Between(Before6(1), After6(1)),
   Between(Before6(0), After6(1)), Between(Highest6, One6), Between(After6(0), Before6(0)),
   Between(V4Mapped(Before4), V4Mapped(After4)), Between(Multicast6, Increment(Multicast6))}

MCAddrs ==
  {Low4, Before4, After4, Highest4, Low6(0), Before6(0), Within6(0), Within6(1),
   V4Mapped(Before4), V4Compatible(After4), V4Compatible(One4)}

\* A scope of more than 32 bits is no peer's.
MCPeers == [address : MCAddrs, port : {1}]

MCProgramAddrs == MCAddrs \cup {Within6(2)}

=============================================================================
