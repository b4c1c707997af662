------------------------- MODULE IocpContextProofs -------------------------
(***************************************************************************)
(* Proofs, for any finite set of threads, of what IocpContext promises of  *)
(* the stop events.  The count in StopEventsBounded moves only when a      *)
(* thread enters the second part of stop() (then no one has posted yet) or *)
(* leaves it; the rest is that each flag is followed up by its setter.     *)
(***************************************************************************)
EXTENDS IocpContext, FiniteSetTheorems, TLAPS

\* The threads inside the second part of stop().
Stopping == {t \in Threads : Between(t)}

\* Any set of threads is finite and no larger than Threads.
LEMMA SomeThreads ==
  ASSUME NEW S \in SUBSET Threads
  PROVE  /\ IsFiniteSet(S)
         /\ Cardinality(S) \in Nat
         /\ Cardinality(Threads) \in Nat
         /\ Cardinality(S) <= Cardinality(Threads)
BY ThreadsAssumption, FS_Subset, FS_CardinalityType

\* The variables start with their types.
LEMMA TypeInit == Init => TypeOK
<1> SUFFICES ASSUME Init PROVE TypeOK
  OBVIOUS
<1>1. stopped \in BOOLEAN /\ stopEventPosted \in BOOLEAN /\ shutDown \in BOOLEAN
  BY Zenon DEF Init
<1>2. unfinishedWork \in Nat /\ port \in Nat /\ failures \in Nat
  BY DEF Init
<1>3. pc \in [Threads -> Places]
  BY DEF Init, Places
<1> QED
  BY <1>1, <1>2, <1>3 DEF TypeOK

\* The variables keep their types.
LEMMA TypeNext == TypeOK /\ [Next]_vars => TypeOK'
<1> SUFFICES ASSUME TypeOK, [Next]_vars PROVE TypeOK'
  OBVIOUS
<1>1. CASE UNCHANGED vars
  BY <1>1 DEF TypeOK, vars, flags
<1>2. CASE Next
  <2>1. PICK t \in Threads : CallRun(t) \/ CallStop(t) \/ CallShutdown(t) \/ Step(t)
    BY <1>2 DEF Next
  <2>2. CASE CallRun(t) \/ CallStop(t) \/ CallShutdown(t)
    BY <2>2 DEF CallRun, CallStop, CallShutdown, GoTo, TypeOK, flags, Places
  <2>3. CASE CheckWork(t) \/ CheckStopped(t) \/ CheckPosted(t) \/ Drain(t)
    BY <2>3 DEF CheckWork, CheckStopped, CheckPosted, Drain, GoTo, TypeOK, flags, Places
  <2>4. CASE SetStopped(t) \/ SetPosted(t) \/ SetShutDown(t)
    BY <2>4 DEF SetStopped, SetPosted, SetShutDown, GoTo, TypeOK, Places
  <2>5. CASE Post(t)
    BY <2>5 DEF Post, GoTo, TypeOK, flags, Places
  <2> QED
    BY <2>1, <2>2, <2>3, <2>4, <2>5 DEF Step
<1> QED
  BY <1>1, <1>2

\* Type correctness of the io_context.
THEOREM TypeCorrect == Spec => []TypeOK
<1> QED
  BY TypeInit, TypeNext, PTL DEF Spec

-----------------------------------------------------------------------------
\* A step that moves no thread into or out of the second part of stop() and
\* posts nothing leaves the count alone.
LEMMA SameCount ==
  ASSUME TypeOK, StopEventsBounded, NEW t \in Threads, NEW p \in Places, GoTo(t, p),
         UNCHANGED <<port, failures>>,
         Between(t) <=> p \in {"set_stopped", "check_posted", "set_posted", "post"}
  PROVE  StopEventsBounded'
<1>1. Stopping' = Stopping
  BY DEF Stopping, Between, GoTo, TypeOK
<1> QED
  BY <1>1 DEF StopEventsBounded, Stopping

\* A thread that goes into the second part finds nobody has posted.
LEMMA FirstCount ==
  ASSUME TypeOK, NEW t \in Threads, GoTo(t, "set_stopped"),
         port = 0, failures = 0, UNCHANGED <<port, failures>>
  PROVE  StopEventsBounded'
<1>1. /\ Cardinality(Stopping') \in Nat
      /\ Cardinality(Threads) \in Nat
      /\ Cardinality(Stopping') <= Cardinality(Threads)
  BY SomeThreads, Stopping' \in SUBSET Threads DEF Stopping
<1> QED
  BY <1>1 DEF StopEventsBounded, Stopping

\* A thread that leaves the second part makes at most one post.
LEMMA LastCount ==
  ASSUME TypeOK, StopEventsBounded, NEW t \in Threads, Between(t), GoTo(t, "idle"),
         port' + failures' <= port + failures + 1,
         port' \in Nat, failures' \in Nat
  PROVE  StopEventsBounded'
<1>1. Stopping' = Stopping \ {t}
  BY DEF Stopping, Between, GoTo, TypeOK
<1>2. t \in Stopping
  BY DEF Stopping
<1>3. /\ IsFiniteSet(Stopping) /\ Cardinality(Stopping) \in Nat
      /\ Cardinality(Threads) \in Nat
  BY SomeThreads DEF Stopping
<1>4. Cardinality(Stopping \ {t}) = Cardinality(Stopping) - 1
  BY <1>2, <1>3, FS_RemoveElement
<1>5. port + failures + Cardinality(Stopping) <= Cardinality(Threads)
  BY DEF StopEventsBounded, Stopping
<1>6. port \in Nat /\ failures \in Nat
  BY DEF TypeOK
<1>7. port' + failures' + (Cardinality(Stopping) - 1) <= Cardinality(Threads)
  <2>1. ASSUME NEW p \in Nat, NEW f \in Nat, NEW q \in Nat, NEW g \in Nat,
               NEW c \in Nat, NEW n \in Nat,
               q + g <= p + f + 1, p + f + c <= n
        PROVE  q + g + (c - 1) <= n
    BY <2>1
  <2> QED
    BY <1>3, <1>5, <1>6, <2>1
<1>8. port' + failures' + Cardinality(Stopping') <= Cardinality(Threads)
  BY <1>1, <1>4, <1>7
<1> QED
  BY <1>8 DEF StopEventsBounded, Stopping

\* Every step keeps the bound on the stop events.
LEMMA BoundNext ==
  ASSUME TypeOK, QuietUntilStopped, StopEventsBounded, Next
  PROVE  StopEventsBounded'
<1>1. PICK t \in Threads : CallRun(t) \/ CallStop(t) \/ CallShutdown(t) \/ Step(t)
  BY DEF Next
<1>2. CASE CallRun(t) \/ CallStop(t) \/ CallShutdown(t)
  BY <1>2, SameCount DEF CallRun, CallStop, CallShutdown, At, Between, Places
<1>3. CASE CheckWork(t) \/ SetStopped(t) \/ SetPosted(t) \/ SetShutDown(t) \/ Drain(t)
  BY <1>3, SameCount
     DEF CheckWork, SetStopped, SetPosted, SetShutDown, Drain, At, Between, Places
<1>4. CASE CheckStopped(t)
  <2>1. CASE stopped
    BY <1>4, <2>1, SameCount DEF CheckStopped, At, Between, Places
  <2>2. CASE ~ stopped
    BY <1>4, <2>2, FirstCount DEF CheckStopped, QuietUntilStopped
  <2> QED
    BY <2>1, <2>2
<1>5. CASE CheckPosted(t)
  <2>1. CASE stopEventPosted
    BY <1>5, <2>1, LastCount DEF CheckPosted, At, Between, TypeOK
  <2>2. CASE ~ stopEventPosted
    BY <1>5, <2>2, SameCount DEF CheckPosted, At, Between, Places
  <2> QED
    BY <2>1, <2>2
<1>6. CASE Post(t)
  BY <1>6, LastCount DEF Post, At, Between, TypeOK
<1> QED
  BY <1>1, <1>2, <1>3, <1>4, <1>5, <1>6 DEF Step

\* Every step keeps the rest of the inductive invariant.
LEMMA FollowUpNext ==
  ASSUME TypeOK, QuietUntilStopped, StoppedIsFollowedUp, PostedIsFollowedUp, Next
  PROVE  QuietUntilStopped' /\ StoppedIsFollowedUp' /\ PostedIsFollowedUp'
<1> USE DEF QuietUntilStopped, StoppedIsFollowedUp, PostedIsFollowedUp, At, GoTo, TypeOK
<1>1. PICK t \in Threads : CallRun(t) \/ CallStop(t) \/ CallShutdown(t) \/ Step(t)
  BY DEF Next
<1>2. CASE CallRun(t) \/ CallStop(t) \/ CallShutdown(t)
  BY <1>2 DEF CallRun, CallStop, CallShutdown, flags
<1>3. CASE CheckWork(t) \/ Drain(t)
  BY <1>3 DEF CheckWork, Drain, flags
<1>4. CASE CheckStopped(t)
  BY <1>4 DEF CheckStopped, flags
<1>5. CASE SetStopped(t)
  BY <1>5 DEF SetStopped
<1>6. CASE CheckPosted(t)
  BY <1>6 DEF CheckPosted, flags
<1>7. CASE SetPosted(t)
  BY <1>7 DEF SetPosted
<1>8. CASE Post(t)
  BY <1>8 DEF Post, flags
<1>9. CASE SetShutDown(t)
  BY <1>9 DEF SetShutDown
<1> QED
  BY <1>1, <1>2, <1>3, <1>4, <1>5, <1>6, <1>7, <1>8, <1>9 DEF Step

\* A step that changes nothing keeps everything.
LEMMA SafeStutter == Safe /\ UNCHANGED vars => Safe'
BY DEF Safe, QuietUntilStopped, StoppedIsFollowedUp, PostedIsFollowedUp,
       StopEventsBounded, Between, At, vars, flags

\* The invariant holds at first: no thread is inside stop().
LEMMA SafeInit == Init => Safe
<1> SUFFICES ASSUME Init PROVE Safe
  OBVIOUS
<1>1. QuietUntilStopped /\ StoppedIsFollowedUp /\ PostedIsFollowedUp
  BY DEF Init, QuietUntilStopped, StoppedIsFollowedUp, PostedIsFollowedUp
<1>2. Stopping = {}
  BY DEF Init, Stopping, Between
<1>3. StopEventsBounded
  BY <1>2, FS_EmptySet, SomeThreads DEF Init, StopEventsBounded, Stopping
<1> QED
  BY <1>1, <1>3 DEF Safe

\* The inductive invariant holds throughout.
LEMMA SafeAlways == Spec => [](TypeOK /\ Safe)
<1>1. Init => TypeOK /\ Safe
  BY TypeInit, SafeInit
<1>2. TypeOK /\ Safe /\ [Next]_vars => TypeOK' /\ Safe'
  BY TypeNext, BoundNext, FollowUpNext, SafeStutter DEF Safe
<1> QED
  BY <1>1, <1>2, PTL DEF Spec

\* However many threads call stop() and run() however often, each posts at most
\* one stop event.
THEOREM StopEventsBoundedAlways == Spec => []StopEventsBounded
<1>1. Safe => StopEventsBounded
  BY DEF Safe
<1> QED
  BY <1>1, SafeAlways, PTL

\* A stopped context with no thread inside stop() has a stop event in its port,
\* unless a post failed.
THEOREM StopIsSignalledAlways == Spec => []StopIsSignalled
<1>1. Safe => StopIsSignalled
  BY DEF Safe, StopIsSignalled, StoppedIsFollowedUp, PostedIsFollowedUp, Between, At
<1> QED
  BY <1>1, SafeAlways, PTL
=============================================================================
