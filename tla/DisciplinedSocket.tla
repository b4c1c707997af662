------------------------- MODULE DisciplinedSocket -------------------------
(***************************************************************************)
(* basic_socket used with two rules the code needs and states nowhere:     *)
(* close() is called only by the sole owner of a descriptor, and the last  *)
(* owner of an open descriptor is never opened or assigned to again.       *)
(* Under them, and as long as no ::close of the system's fails and leaves  *)
(* its descriptor open, the objects implement SocketOwnership.             *)
(***************************************************************************)
EXTENDS BasicSocket

FollowsRules == {"shared_close", "lost"} \cap history = {}

DisciplinedNext == Next /\ FollowsRules'

DisciplinedSpec == Init /\ [][DisciplinedNext]_vars

HoldersOf(h) == {o \in Objects : Handle(o) = h}

Ownership == INSTANCE SocketOwnership WITH
  holders <- [h \in Handles |-> HoldersOf(h)],
  opened  <- {h \in Handles : kernel[h].status # "free"}

\* A program that follows the rules gets the shared ownership that the
\* shared_ptr promises: a descriptor is open as long as some object holds it
\* and is closed when the last one lets go.
ImplementsOwnership == Ownership!Spec
=============================================================================
