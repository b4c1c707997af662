----------------------------- MODULE PeerFilter -----------------------------
(***************************************************************************)
(* A program that uses ip::endpoint and the address ranges together: it    *)
(* takes the peer's address out of an endpoint, by way of to_v4() when the *)
(* range is one of IPv4 addresses, looks it up in the range and goes on    *)
(* with the addresses from there, as AddressRange describes.               *)
(***************************************************************************)
EXTENDS AddressRange, Endpoint

VARIABLES
  verdict  \* of the last lookup for the peer in the endpoint: "in", "out", or "none"

vars == <<range_vars, ep_vars, verdict>>

Init ==
  /\ RangeInit
  /\ EndpointInit
  /\ verdict = "none"

Loop ==
  /\ RangeNext
  /\ UNCHANGED <<ep_vars, verdict>>

Endpoints ==
  /\ EndpointNext
  /\ verdict' = "none"
  /\ UNCHANGED range_vars

\* The address as one of the range's type.
Convertible(a) == IsV4(range.begin) => IsV4(a) \/ HasV4(a)
Converted(a)   == IF IsV4(range.begin) /\ ~IsV4(a) THEN ToV4(a) ELSE a

\* range.find(endpoint.address()); an address that cannot be converted, and an
\* IPv4 address that is sought in a range of IPv6 ones, is out.
Seek ==
  LET a == AddressOf(ep)
  IN  /\ verdict = "none"
      /\ IF Convertible(a) /\ Converted(a).type = range.begin.type
         THEN LET found == Find(range, Converted(a))
              IN  /\ verdict' = IF found = range.end THEN "out" ELSE "in"
                  /\ StartAt(found)
         ELSE /\ verdict' = "out"
              /\ UNCHANGED loop
      /\ UNCHANGED <<range, ep_vars>>

Next == Loop \/ Endpoints \/ Seek

\* The loop goes on while its condition holds.
Fairness == WF_vars(Visit /\ UNCHANGED <<ep_vars, verdict>>)

Spec == Init /\ [][Next]_vars /\ Fairness

-----------------------------------------------------------------------------
TypeOK ==
  /\ RangeTypeOK
  /\ EndpointTypeOK
  /\ verdict \in {"in", "out", "none"}

\* Where an address lies, as its number, then its scope.
AtOrAfter(a, b) ==
  \/ Number(a.bytes) > Number(b.bytes)
  \/ Number(a.bytes) = Number(b.bytes) /\ a.scope >= b.scope

\* The verdict on a peer is about the peer, not about what else the endpoint
\* has held or how its address reached the program: when the system had room
\* to write it, the peer's own address, or the IPv4 address it maps or is
\* compatible with, is found exactly when its number is between those of the
\* ends (address_v6.ipp:118-128 and 224-233, endpoint.ipp:107-120).
FilterIsRight ==
  verdict # "none" /\ peer # NoPeer =>
    LET a == peer.address
    IN  verdict = "in" <=>
          /\ Convertible(a) /\ Converted(a).type = range.begin.type
          /\ AtOrAfter(Converted(a), range.begin) /\ ~AtOrAfter(Converted(a), range.end)

\* Of the address the loop is at: its broadcast address is the last of its
\* network, the next one being of another network or the lowest; both forms an
\* IPv4 address has as an IPv6 one lead back to it, but for the compatible
\* form of 0.0.0.0 and 0.0.0.1, which are :: and ::1 and not converted; and
\* what can be converted is none of the addresses that only IPv6 has
\* (address_v4.ipp:103-147, address_v6.ipp:118-216).
ConversionsAgree ==
  IF IsV4(at)
  THEN LET mask == Netmask(at)
           last == Broadcast(at, mask)
       IN  /\ ~Less(last, at) /\ Netmask(last) = mask /\ Broadcast(last, mask) = last
           /\ \/ Broadcast(Increment(last), mask) # last
              \/ Netmask(Increment(last)) # mask
           /\ IsLoopback(at) => IsClassA(at) /\ ~IsMulticast(at)
           /\ IsV4Mapped(V4Mapped(at)) /\ ToV4(V4Mapped(at)) = at
           /\ HasV4(V4Compatible(at)) <=> Number(at.bytes) > 1
           /\ ToV4(V4Compatible(at)) = at
  ELSE HasV4(at) =>
         /\ at.bytes \in {V4Mapped(ToV4(at)).bytes, V4Compatible(ToV4(at)).bytes}
         /\ ~IsLoopback(at) /\ ~IsUnspecified(at)
         /\ ~IsMulticast(at) /\ MulticastScope(at) = "none"
         /\ ~IsLinkLocal(at) /\ ~IsSiteLocal(at)

EndIsNear == from.scope = range.end.scope /\ Distance(from, range.end) <= MaxSteps

\* A loop whose end has the scope it started with and is near enough to be
\* followed reaches it, over any number of bytes that carry, and through the
\* highest address when the ends are swapped (address_v6_iterator.hpp:93-107).
\* A loop between addresses of two scopes never does: ++ leaves the scope
\* alone and the loop's condition compares it, and find() answers with such
\* an address too (address_v6_range.hpp:90).
LoopEnds == EndIsNear ~> (at = range.end \/ ~EndIsNear)

=============================================================================
