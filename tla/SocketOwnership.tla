-------------------------- MODULE SocketOwnership --------------------------
(***************************************************************************)
(* What the shared_ptr in basic_socket is there to promise: objects hold   *)
(* descriptors, a descriptor may have several holders, and it is open      *)
(* exactly as long as it has one.  Nothing is said of cells, flags, use    *)
(* counts or of the calls that bring a step about.                         *)
(***************************************************************************)
CONSTANTS
  Objects,  \* basic_socket objects
  Handles   \* native handles

VARIABLES
  holders,  \* the objects that hold each descriptor
  opened    \* the descriptors that are open

ownership == <<holders, opened>>

Init ==
  /\ holders = [h \in Handles |-> {}]
  /\ opened = {}

\* The descriptors with a holder are the open ones.
OpenIffHeld == opened' = {h \in Handles : holders'[h] # {}}

\* o takes a descriptor that was closed; it may leave one that others hold.
Acquire(o, h) ==
  /\ h \notin opened
  /\ \A g \in Handles : holders[g] # {o}
  /\ holders' = [g \in Handles |-> IF g = h THEN {o} ELSE holders[g] \ {o}]
  /\ OpenIffHeld

\* n leaves what it holds, which is not its alone, and joins what o holds.
Share(o, n) ==
  /\ \A g \in Handles : holders[g] # {n}
  /\ holders' = [g \in Handles |->
                   IF o \in holders[g] THEN holders[g] \cup {n} ELSE holders[g] \ {n}]
  /\ OpenIffHeld

\* n takes o's place.
HandOver(o, n) ==
  /\ \A g \in Handles : holders[g] # {n}
  /\ holders' = [g \in Handles |->
                   IF o \in holders[g] THEN (holders[g] \ {o}) \cup {n}
                   ELSE holders[g] \ {n}]
  /\ OpenIffHeld

\* o lets go of what it holds.
Release(o) ==
  /\ holders' = [g \in Handles |-> holders[g] \ {o}]
  /\ OpenIffHeld

Next ==
  \/ \E o \in Objects : Release(o) \/ \E h \in Handles : Acquire(o, h)
  \/ \E o, n \in Objects : Share(o, n) \/ HandOver(o, n)

Spec == Init /\ [][Next]_ownership
=============================================================================
