---------------------------- MODULE WinsockInit ----------------------------
(***************************************************************************)
(* winsock_init (NetLite/winsock_init.hpp and .ipp): a count of instances, *)
(* kept with interlocked operations, whose first increment starts Winsock  *)
(* and whose last decrement cleans it up.  Every source file that includes *)
(* the header has a static instance, made before main and destroyed after  *)
(* it; instances made and copied while main runs belong to any thread.     *)
(*                                                                         *)
(* startup() and cleanup() are not atomic: between the increment and the   *)
(* end of WSAStartup other threads run.  Static initialisation and         *)
(* destruction are the work of one thread; threads that use the library    *)
(* end before main does.                                                   *)
(***************************************************************************)
EXTENDS Integers, FiniteSets

CONSTANTS
  Static,  \* the static instances, one for each source file
  Dynamic  \* the instances the program makes while main runs

ASSUME InstancesAssumption ==
  /\ IsFiniteSet(Static) /\ IsFiniteSet(Dynamic)
  /\ Static # {}
  /\ Static \cap Dynamic = {}

Instances == Static \cup Dynamic

VARIABLES
  phase,      \* of the program
  initCount,  \* data_.init_count_
  result,     \* data_.result_: zero, or the error of WSAStartup
  up,         \* successful WSAStartup calls not yet cleaned up
  place       \* where each instance is in its life

vars == <<phase, initCount, result, up, place>>

Places == {"absent", "starting", "started", "refused", "live", "stopping"}

TypeOK ==
  /\ phase \in {"static_init", "main", "exit"}
  /\ initCount \in Nat
  /\ result \in {"none", "error"}
  /\ up \in Nat
  /\ place \in [Instances -> Places]

GoTo(i, p) == place' = [place EXCEPT ![i] = p]

\* One thread initialises and destroys the static instances, one by one.
InTurn(i) ==
  IF i \in Static
  THEN /\ phase # "main"
       /\ \A j \in Static \ {i} : place[j] \in {"absent", "live"}
  ELSE phase = "main"

-----------------------------------------------------------------------------
\* Fault: every instance starts Winsock.
IncrementAlways(i) ==
  /\ initCount' = initCount + 1
  /\ GoTo(i, "starting")
  /\ UNCHANGED <<phase, result, up>>

\* The interlocked increment of startup().
Increment(i) ==
  /\ initCount' = initCount + 1
  /\ GoTo(i, IF initCount' = 1 THEN "starting" ELSE "live")
  /\ UNCHANGED <<phase, result, up>>

\* winsock_init(allow_throw); throw_on_error throws nothing.
Construct(i) ==
  /\ place[i] = "absent" /\ InTurn(i)
  /\ phase # "exit"
  /\ Increment(i)

\* Fault: the copy constructor is the default one.
CopyDefault(i) ==
  /\ i \in Dynamic /\ place[i] = "absent" /\ InTurn(i)
  /\ \E j \in Instances : place[j] = "live"
  /\ GoTo(i, "live")
  /\ UNCHANGED <<phase, initCount, result, up>>

\* The copy constructor counts as well.
Copy(i) ==
  /\ i \in Dynamic /\ place[i] = "absent" /\ InTurn(i)
  /\ \E j \in Instances : place[j] = "live"
  /\ Increment(i)

\* WSAStartup, which may fail.
Startup(i) ==
  /\ place[i] = "starting"
  /\ \/ up' = up + 1 /\ GoTo(i, "started")
     \/ GoTo(i, "refused") /\ UNCHANGED up
  /\ UNCHANGED <<phase, initCount, result>>

\* The interlocked exchange of result_.
StoreResult(i) ==
  /\ place[i] \in {"started", "refused"}
  /\ result' = IF place[i] = "started" THEN "none" ELSE "error"
  /\ GoTo(i, "live")
  /\ UNCHANGED <<phase, initCount, up>>

\* Fault: Winsock is cleaned up one instance too early.
DestroyEarly(i) ==
  /\ place[i] = "live" /\ InTurn(i) /\ phase # "static_init"
  /\ initCount' = initCount - 1
  /\ GoTo(i, IF initCount' = 1 THEN "stopping" ELSE "absent")
  /\ UNCHANGED <<phase, result, up>>

\* ~winsock_init(): the interlocked decrement of cleanup().
Destroy(i) ==
  /\ place[i] = "live" /\ InTurn(i) /\ phase # "static_init"
  /\ initCount' = initCount - 1
  /\ GoTo(i, IF initCount' = 0 THEN "stopping" ELSE "absent")
  /\ UNCHANGED <<phase, result, up>>

\* Fault: WSACleanup is called only when startup had stored an error.
CleanupOnError(i) ==
  /\ place[i] = "stopping"
  /\ up' = IF up > 0 /\ result = "error" THEN up - 1 ELSE up
  /\ GoTo(i, "absent")
  /\ UNCHANGED <<phase, initCount, result>>

\* WSACleanup; it reports an error, ignored, if Winsock is not up.
Cleanup(i) ==
  /\ place[i] = "stopping"
  /\ up' = IF up > 0 THEN up - 1 ELSE up
  /\ GoTo(i, "absent")
  /\ UNCHANGED <<phase, initCount, result>>

\* The program: main starts after static initialisation, and returns when the
\* threads and their instances are gone.
EnterMain ==
  /\ phase = "static_init"
  /\ \A i \in Static : place[i] = "live"
  /\ phase' = "main"
  /\ UNCHANGED <<initCount, result, up, place>>

LeaveMain ==
  /\ phase = "main"
  /\ \A i \in Dynamic : place[i] = "absent"
  /\ phase' = "exit"
  /\ UNCHANGED <<initCount, result, up, place>>

-----------------------------------------------------------------------------
Init ==
  /\ phase = "static_init"
  /\ initCount = 0 /\ result = "none" /\ up = 0
  /\ place = [i \in Instances |-> "absent"]

Next ==
  \/ \E i \in Instances :
        \/ Construct(i) \/ Copy(i) \/ Startup(i) \/ StoreResult(i)
        \/ Destroy(i) \/ Cleanup(i)
  \/ EnterMain \/ LeaveMain

Spec == Init /\ [][Next]_vars

-----------------------------------------------------------------------------
(* Correctness.                                                            *)

\* While an instance exists Winsock has been started, exactly once, unless
\* WSAStartup failed: no thread finds a count above zero and goes on before the
\* start it relies on is done, and none cleans up under another.  For as long as
\* main runs the static instances keep the count above zero, so its threads
\* never start Winsock or clean it up.
UsableWhileLive ==
  /\ (\E i \in Instances : place[i] = "live") => up = IF result = "error" THEN 0 ELSE 1
  /\ \A i \in Dynamic : place[i] \in {"absent", "live"}

\* Once every instance is gone every successful start was cleaned up.
Balanced ==
  (\A i \in Instances : place[i] = "absent") => initCount = 0 /\ up = 0
=============================================================================
