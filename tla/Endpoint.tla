------------------------------ MODULE Endpoint ------------------------------
(***************************************************************************)
(* ip::endpoint and the basic_endpoint around it: a union of sockaddr_in   *)
(* and sockaddr_in6 that the program fills by its constructors and         *)
(* setters, and the operating system through data(), size() and capacity() *)
(* when a socket accepts, receives a datagram or is asked for its peer.    *)
(*                                                                         *)
(* Both structures lie over one another.  The union is its fields in the   *)
(* order of memory; w1 is the IPv4 address or the flow information, high   *)
(* the first half of the IPv6 address or what pads sockaddr_in, low the    *)
(* second half.  The system writes no more bytes than it was told there    *)
(* is room for, and says how many it had to write.                         *)
(***************************************************************************)
EXTENDS Addresses, FiniteSets

CONSTANTS
  Addrs,         \* addresses a program knows
  Ports,         \* port numbers
  ScopeModulus,  \* values of the 32 bits that hold a scope
  Peers,         \* endpoints of peers: [address, port]
  MaxCalls       \* calls that are followed

ASSUME EndpointAssumption ==
  /\ Addrs \subseteq V4Address \cup V6Address
  /\ {0} \subseteq Ports /\ Ports \subseteq Nat
  /\ Peers \subseteq [address : Addrs, port : Ports]
  /\ ScopeModulus \in Nat \ {0}
  /\ \A p \in Peers : p.address.scope < ScopeModulus
  /\ MaxCalls \in Nat

NoPeer == [port |-> 0]

VARIABLES
  ep,     \* the union
  peer,   \* the peer the system has written into it (history)
  calls   \* calls made

ep_vars == <<ep, peer, calls>>

-----------------------------------------------------------------------------
(* The union.                                                               *)

V4Size      == 16   \* sizeof(sockaddr_in)
V6Size      == 28   \* sizeof(sockaddr_in6), and of the union
StorageSize == 128  \* sizeof(sockaddr_storage)

\* The byte after each field.
End == [family |-> 2, port |-> 4, w1 |-> 8, high |-> 16, low |-> 24, scope |-> 28]

Half == V6Len \div 2
Any4 == Same(V4Len, 0)
Any6 == Same(V6Len, 0)

High(bytes) == SubSeq(bytes, 1, Half)
Low(bytes)  == SubSeq(bytes, Half + 1, V6Len)

InetData(bytes, port) ==
  [family |-> "AF_INET", port |-> port, w1 |-> bytes,
   high |-> High(Any6), low |-> Low(Any6), scope |-> 0]

\* Fault: the scope keeps the width it has in address_v6.
Inet6DataWide(bytes, scope, port) ==
  [family |-> "AF_INET6", port |-> port, w1 |-> Any4,
   high |-> High(bytes), low |-> Low(bytes), scope |-> scope]

Inet6Data(bytes, scope, port) ==
  [family |-> "AF_INET6", port |-> port, w1 |-> Any4,
   high |-> High(bytes), low |-> Low(bytes), scope |-> scope % ScopeModulus]

\* endpoint(): the union is zeroed first.
DefaultEndpoint == InetData(Any4, 0)

\* endpoint(int family, unsigned short): any family but AF_INET is taken for
\* AF_INET6.
FamilyEndpoint(family, port) ==
  IF family = "AF_INET" THEN InetData(Any4, port) ELSE Inet6Data(Any6, 0, port)

\* endpoint(const address&, unsigned short)
AddressEndpoint(a, port) ==
  IF IsV4(a) THEN InetData(a.bytes, port) ELSE Inet6Data(a.bytes, a.scope, port)

HoldsV4(e) == e.family = "AF_INET"

SizeOf(e) == IF HoldsV4(e) THEN V4Size ELSE V6Size

\* Fault: the capacity is the size of sockaddr_in.
CapacityOfV4 == V4Size

Capacity == V6Size

\* resize() throws.
ResizeThrows(size) == size > StorageSize

\* Both structures have the port in the same place.
PortOf(e) == e.port

AddressOf(e) == IF HoldsV4(e) THEN V4(e.w1) ELSE V6(e.high \o e.low, e.scope)

Equal(e, f) == AddressOf(e) = AddressOf(f) /\ PortOf(e) = PortOf(f)

LessEndpoint(e, f) ==
  \/ Less(AddressOf(e), AddressOf(f))
  \/ AddressOf(e) = AddressOf(f) /\ PortOf(e) < PortOf(f)

-----------------------------------------------------------------------------
(* The program's side.                                                      *)

Written(e) ==
  /\ calls < MaxCalls /\ calls' = calls + 1
  /\ ep' = e /\ peer' = NoPeer

EndpointInit ==
  /\ ep = DefaultEndpoint
  /\ peer = NoPeer /\ calls = 0

ConstructDefault == Written(DefaultEndpoint)

ConstructFamily == \E f \in {"AF_INET", "AF_INET6"}, n \in Ports : Written(FamilyEndpoint(f, n))

ConstructAddress == \E a \in Addrs, n \in Ports : Written(AddressEndpoint(a, n))

SetPort == \E n \in Ports : Written([ep EXCEPT !.port = n])

\* address(const address&) makes the endpoint anew with its port.
SetAddress == \E a \in Addrs : Written(AddressEndpoint(a, PortOf(ep)))

-----------------------------------------------------------------------------
(* The system's side.                                                       *)

Fewer(m, n) == IF m < n THEN m ELSE n

\* The union after the system has written the socket address s to it.
Filled(e, s, bytes) ==
  [f \in DOMAIN e |-> IF End[f] <= Fewer(bytes, SizeOf(s)) THEN s[f] ELSE e[f]]

Native(p) == AddressEndpoint(p.address, p.port)

\* The system writes what there is room for of p to the union e, and says how
\* long the whole of it is.
Fill(e, p, bytes) ==
  /\ calls < MaxCalls /\ calls' = calls + 1
  /\ ~ResizeThrows(SizeOf(Native(p)))
  /\ ep' = Filled(e, Native(p), bytes)

\* accept(peer_endpoint, ec) tells the system the size of what the endpoint
\* holds now.
AcceptFits(p) == SizeOf(Native(p)) <= SizeOf(ep)

Accept ==
  \E p \in Peers :
    /\ AcceptFits(p)
    /\ Fill(ep, p, SizeOf(ep))
    /\ peer' = p

\* Where the peer's address is longer, POSIX cuts it off ...
AcceptShort ==
  \E p \in Peers :
    /\ ~AcceptFits(p)
    /\ Fill(ep, p, SizeOf(ep))
    /\ peer' = NoPeer

\* ... and Winsock refuses.
AcceptRefused ==
  /\ \E p \in Peers : ~AcceptFits(p)
  /\ Written(ep)

\* receive_from() gives the system the whole of the sender's endpoint.
ReceiveFrom ==
  \E p \in Peers :
    /\ Fill(ep, p, Capacity)
    /\ peer' = p

\* remote_endpoint() gives it the whole of a new endpoint and returns that.
RemoteEndpoint ==
  \E p \in Peers :
    /\ Fill(DefaultEndpoint, p, Capacity)
    /\ peer' = p

EndpointNext ==
  \/ ConstructDefault \/ ConstructFamily \/ ConstructAddress
  \/ SetPort \/ SetAddress
  \/ Accept \/ AcceptShort \/ AcceptRefused
  \/ ReceiveFrom \/ RemoteEndpoint

-----------------------------------------------------------------------------
(* What the endpoints promise.                                              *)

EndpointTypeOK ==
  /\ ep \in [family : {"AF_INET", "AF_INET6"}, port : Ports, w1 : [1..V4Len -> Byte],
             high : [1..Half -> Byte], low : [1..(V6Len - Half) -> Byte],
             scope : 0..(ScopeModulus - 1)]
  /\ peer \in Peers \cup {NoPeer}
  /\ calls \in 0..MaxCalls

\* An endpoint the system has written is the peer, address, port and scope,
\* and equals the endpoint made of them, whatever it held before: the longer
\* address of an earlier peer leaves its end behind under a shorter one
\* (endpoint.hpp:102-109), and equality and order look only at what the family
\* in force has (endpoint.ipp:128-140).  An accept() into an endpoint that
\* holds an IPv4 address, as a new one does, is the exception when the peer
\* has an IPv6 one: basic_socket.hpp:799 passes size() and not capacity().
PeerIsKnown ==
  peer # NoPeer =>
    LET made == AddressEndpoint(peer.address, peer.port)
    IN  /\ AddressOf(ep) = peer.address
        /\ PortOf(ep) = peer.port
        /\ Equal(ep, made) /\ ~LessEndpoint(ep, made) /\ ~LessEndpoint(made, ep)

=============================================================================
