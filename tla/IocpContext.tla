---------------------------- MODULE IocpContext ----------------------------
(***************************************************************************)
(* win_iocp_io_context (NetLite/io_services): an io_context on a Windows   *)
(* completion port.  Threads call run(), run_one(), wait_one(), poll() and *)
(* poll_one(), which differ in the timeout only, stop() and shutdown().    *)
(* The flags are atomics, so that every access is one step, and stop() is  *)
(* two check-then-set pairs with the threads free to interleave between.   *)
(*                                                                         *)
(* No function of the class adds to unfinished_work_, so it stays zero,    *)
(* and the event loop behind it (do_one, which has no body) and the drain  *)
(* loop of shutdown() are never entered.                                   *)
(***************************************************************************)
EXTENDS Integers, FiniteSets

CONSTANT Threads  \* the threads that use the context

ASSUME ThreadsAssumption == IsFiniteSet(Threads)

VARIABLES
  stopped,          \* stopped_
  stopEventPosted,  \* stop_event_posted_
  shutDown,         \* shutdown_
  unfinishedWork,   \* unfinished_work_
  port,             \* how many stop events the completion port holds
  failures,         \* how many posts the system refused
  pc                \* where each thread is

flags == <<stopped, stopEventPosted, shutDown, unfinishedWork>>
vars  == <<flags, port, failures, pc>>

Places == {"idle", "run", "stop", "set_stopped", "check_posted", "set_posted",
           "post", "do_one", "shutdown", "drain"}

TypeOK ==
  /\ stopped \in BOOLEAN /\ stopEventPosted \in BOOLEAN /\ shutDown \in BOOLEAN
  /\ unfinishedWork \in Nat
  /\ port \in Nat /\ failures \in Nat
  /\ pc \in [Threads -> Places]

At(t, place) == pc[t] = place

GoTo(t, place) == pc' = [pc EXCEPT ![t] = place]

-----------------------------------------------------------------------------
\* A thread calls one of the functions.
CallRun(t) ==
  /\ At(t, "idle") /\ GoTo(t, "run")
  /\ UNCHANGED <<flags, port, failures>>

CallStop(t) ==
  /\ At(t, "idle") /\ GoTo(t, "stop")
  /\ UNCHANGED <<flags, port, failures>>

CallShutdown(t) ==
  /\ At(t, "idle") /\ GoTo(t, "shutdown")
  /\ UNCHANGED <<flags, port, failures>>

\* Fault: the test for work is inverted.
CheckWorkInverted(t) ==
  /\ At(t, "run")
  /\ GoTo(t, IF unfinishedWork = 0 THEN "do_one" ELSE "stop")
  /\ UNCHANGED <<flags, port, failures>>

\* run(), run_one(), wait_one(), poll(), poll_one(): without work they stop the
\* context; with work they would enter do_one.
CheckWork(t) ==
  /\ At(t, "run")
  /\ GoTo(t, IF unfinishedWork = 0 THEN "stop" ELSE "do_one")
  /\ UNCHANGED <<flags, port, failures>>

\* Fault: stop() does not look at stopped_ first.
CheckStoppedNever(t) ==
  /\ At(t, "stop")
  /\ GoTo(t, "set_stopped")
  /\ UNCHANGED <<flags, port, failures>>

\* stop(), one access after the other.
CheckStopped(t) ==
  /\ At(t, "stop")
  /\ GoTo(t, IF stopped THEN "idle" ELSE "set_stopped")
  /\ UNCHANGED <<flags, port, failures>>

\* Fault: stopped_ is read and not set.
SetStoppedLost(t) ==
  /\ At(t, "set_stopped")
  /\ GoTo(t, "check_posted")
  /\ UNCHANGED <<flags, port, failures>>

SetStopped(t) ==
  /\ At(t, "set_stopped")
  /\ stopped' = TRUE
  /\ GoTo(t, "check_posted")
  /\ UNCHANGED <<stopEventPosted, shutDown, unfinishedWork, port, failures>>

\* Fault: the flag is read the wrong way round.
CheckPostedInverted(t) ==
  /\ At(t, "check_posted")
  /\ GoTo(t, IF stopEventPosted THEN "set_posted" ELSE "idle")
  /\ UNCHANGED <<flags, port, failures>>

CheckPosted(t) ==
  /\ At(t, "check_posted")
  /\ GoTo(t, IF stopEventPosted THEN "idle" ELSE "set_posted")
  /\ UNCHANGED <<flags, port, failures>>

SetPosted(t) ==
  /\ At(t, "set_posted")
  /\ stopEventPosted' = TRUE
  /\ GoTo(t, "post")
  /\ UNCHANGED <<stopped, shutDown, unfinishedWork, port, failures>>

\* PostQueuedCompletionStatus; when it fails stop() throws.
Post(t) ==
  /\ At(t, "post")
  /\ \/ port' = port + 1 /\ UNCHANGED failures
     \/ failures' = failures + 1 /\ UNCHANGED port
  /\ GoTo(t, "idle")
  /\ UNCHANGED flags

\* shutdown(): the flag, then the loop that takes back unfinished operations.
SetShutDown(t) ==
  /\ At(t, "shutdown")
  /\ shutDown' = TRUE
  /\ GoTo(t, "drain")
  /\ UNCHANGED <<stopped, stopEventPosted, unfinishedWork, port, failures>>

\* Fault: one operation is taken off the count before it is looked at.
DrainFirst(t) ==
  /\ At(t, "drain")
  /\ unfinishedWork' = unfinishedWork - 1
  /\ GoTo(t, "idle")
  /\ UNCHANGED <<stopped, stopEventPosted, shutDown, port, failures>>

Drain(t) ==
  /\ At(t, "drain") /\ unfinishedWork = 0
  /\ GoTo(t, "idle")
  /\ UNCHANGED <<flags, port, failures>>

-----------------------------------------------------------------------------
Init ==
  /\ stopped = FALSE /\ stopEventPosted = FALSE /\ shutDown = FALSE
  /\ unfinishedWork = 0
  /\ port = 0 /\ failures = 0
  /\ pc = [t \in Threads |-> "idle"]

Step(t) ==
  \/ CheckWork(t)
  \/ CheckStopped(t) \/ SetStopped(t) \/ CheckPosted(t) \/ SetPosted(t) \/ Post(t)
  \/ SetShutDown(t) \/ Drain(t)

Next ==
  \E t \in Threads : CallRun(t) \/ CallStop(t) \/ CallShutdown(t) \/ Step(t)

\* A thread inside a call is scheduled again; nobody has to call anything.
Spec == Init /\ [][Next]_vars /\ \A t \in Threads : WF_vars(Step(t))

-----------------------------------------------------------------------------
(* Correctness.                                                            *)

Between(t) == pc[t] \in {"set_stopped", "check_posted", "set_posted", "post"}

\* The threads that passed the first check of stop() and have not yet posted,
\* and the posts made, are at most as many as the threads: however often they
\* call stop() and run(), each of them posts at most once.
StopEventsBounded ==
  port + failures + Cardinality({t \in Threads : Between(t)}) <= Cardinality(Threads)

\* A stopped context that no thread is still stopping has a stop event in its
\* port, for whoever waits there, unless the system refused the post.
StopIsSignalled ==
  stopped /\ (\A t \in Threads : ~ Between(t)) => port > 0 \/ failures > 0

\* Every call returns, and a call of stop() or run() leaves the context stopped
\* for good.
CallsReturn == \A t \in Threads : pc[t] # "idle" ~> pc[t] = "idle"

RunStops == \A t \in Threads : pc[t] = "run" ~> [] stopped

(* What the inductive argument needs besides.                              *)

\* Until the first thread sets stopped_ nothing else has happened.
QuietUntilStopped ==
  ~ stopped =>
     /\ port = 0 /\ failures = 0 /\ ~ stopEventPosted
     /\ \A t \in Threads : pc[t] \notin {"check_posted", "set_posted", "post"}

\* Each flag that is set is followed up, or is about to be.
StoppedIsFollowedUp ==
  stopped => stopEventPosted \/ \E t \in Threads : pc[t] \in {"check_posted", "set_posted"}

PostedIsFollowedUp ==
  stopEventPosted => port > 0 \/ failures > 0 \/ \E t \in Threads : At(t, "post")

Safe ==
  /\ QuietUntilStopped
  /\ StoppedIsFollowedUp
  /\ PostedIsFollowedUp
  /\ StopEventsBounded

=============================================================================
