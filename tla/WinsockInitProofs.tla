------------------------- MODULE WinsockInitProofs -------------------------
(***************************************************************************)
(* Proofs, for any finite sets of instances, of what WinsockInit promises. *)
(* The count is the number of instances that have been counted in and not  *)
(* yet out, so the tests for one and zero single out an instance that has  *)
(* no other beside it; whoever starts Winsock or cleans it up is alone.    *)
(***************************************************************************)
EXTENDS WinsockInit, FiniteSetTheorems, TLAPS

\* The instances that are counted in.
Counted == {i \in Instances : place[i] \notin {"absent", "stopping"}}

Counting == initCount = Cardinality(Counted)

\* What the instances can be doing in each phase of the program.
InPhase ==
  /\ phase = "static_init" => \A i \in Instances : place[i] # "stopping"
  /\ phase = "main" => /\ \A i \in Static : place[i] = "live"
                       /\ \A i \in Dynamic : place[i] \in {"absent", "live"}
  /\ phase # "main" => \A i \in Dynamic : place[i] = "absent"
  /\ phase = "exit" => \A i \in Instances : place[i] \in {"absent", "live", "stopping"}

\* An instance that starts Winsock or cleans it up is the only one there is.
Alone ==
  \A i \in Instances : place[i] \notin {"absent", "live"} =>
    \A j \in Instances \ {i} : place[j] = "absent"

\* How far Winsock is up, by what the instances are doing.
UpAsFar ==
  /\ \A i \in Instances :
       /\ place[i] \in {"live", "stopping"} => up = IF result = "error" THEN 0 ELSE 1
       /\ place[i] \in {"starting", "refused"} => up = 0
       /\ place[i] = "started" => up = 1
  /\ (\A i \in Instances : place[i] = "absent") => up = 0

Safe == TypeOK /\ Counting /\ InPhase /\ Alone /\ UpAsFar

-----------------------------------------------------------------------------
\* The number of instances counted in is a natural number.
LEMMA CountedIsFinite == IsFiniteSet(Counted) /\ Cardinality(Counted) \in Nat
<1>1. IsFiniteSet(Instances)
  BY InstancesAssumption, FS_Union DEF Instances
<1> QED
  BY <1>1, FS_Subset, FS_CardinalityType DEF Counted

\* Counting an instance in: the count is one when nobody else is counted.
LEMMA CountIn ==
  ASSUME TypeOK, Counting, NEW i \in Instances, NEW p \in {"starting", "live"},
         place[i] = "absent", GoTo(i, p), initCount' = initCount + 1
  PROVE  /\ Counting' /\ initCount' \in Nat
         /\ initCount' = 1 <=>
              \A j \in Instances \ {i} : place[j] \in {"absent", "stopping"}
<1>1. Counted' = Counted \cup {i} /\ i \notin Counted
  BY DEF Counted, GoTo, TypeOK
<1>2. Cardinality(Counted \cup {i}) = Cardinality(Counted) + 1
  BY <1>1, CountedIsFinite, FS_AddElement
<1>3. Counting' /\ initCount' \in Nat
  BY <1>1, <1>2, CountedIsFinite DEF Counting
<1>4. initCount' = 1 <=> Counted = {}
  BY CountedIsFinite, FS_EmptySet DEF Counting
<1>5. Counted = {} <=> \A j \in Instances \ {i} : place[j] \in {"absent", "stopping"}
  BY <1>1 DEF Counted
<1> QED
  BY <1>3, <1>4, <1>5

\* Counting an instance out: the count is zero when nobody else is counted.
LEMMA CountOut ==
  ASSUME TypeOK, Counting, NEW i \in Instances, NEW p \in {"stopping", "absent"},
         place[i] = "live", GoTo(i, p), initCount' = initCount - 1
  PROVE  /\ Counting' /\ initCount' \in Nat
         /\ initCount' = 0 <=>
              \A j \in Instances \ {i} : place[j] \in {"absent", "stopping"}
<1>1. Counted' = Counted \ {i} /\ i \in Counted
  BY DEF Counted, GoTo, TypeOK
<1>2. IsFiniteSet(Counted') /\ initCount' = Cardinality(Counted')
  BY <1>1, CountedIsFinite, FS_RemoveElement DEF Counting
<1>3. Cardinality(Counted') \in Nat /\ (Cardinality(Counted') = 0 <=> Counted' = {})
  BY <1>2, FS_EmptySet, FS_CardinalityType
<1>4. Counted' = {} <=> \A j \in Instances \ {i} : place[j] \in {"absent", "stopping"}
  BY <1>1 DEF Counted
<1> QED
  BY <1>2, <1>3, <1>4 DEF Counting

\* A step inside startup() or after the decrement of cleanup() does not count.
LEMMA CountSame ==
  ASSUME TypeOK, Counting, NEW i \in Instances, NEW p \in Places, GoTo(i, p),
         place[i] \in {"absent", "stopping"} <=> p \in {"absent", "stopping"},
         initCount' = initCount
  PROVE  Counting'
<1>1. Counted' = Counted
  BY DEF Counted, GoTo, TypeOK
<1> QED
  BY <1>1 DEF Counting

-----------------------------------------------------------------------------
\* The initial state: nobody is counted and Winsock is down.
LEMMA SafeInit == Init => Safe
<1> SUFFICES ASSUME Init PROVE Safe
  OBVIOUS
<1>1. TypeOK
  BY DEF Init, TypeOK, Places
<1>2. Counted = {}
  BY DEF Init, Counted
<1>3. Counting
  BY <1>2, FS_EmptySet DEF Counting, Init
<1>4. InPhase
  BY DEF Init, InPhase, Instances
<1>5. Alone /\ UpAsFar
  BY DEF Init, Alone, UpAsFar
<1> QED
  BY <1>1, <1>3, <1>4, <1>5 DEF Safe

\* An instance that appears starts Winsock if it is the only one, and otherwise
\* finds another one live, for which Winsock is as far up as it will be.
LEMMA SafeAppears ==
  ASSUME Safe, NEW i \in Instances, place[i] = "absent", InTurn(i), phase # "exit",
         Increment(i)
  PROVE  Safe'
<1> DEFINE p == IF initCount' = 1 THEN "starting" ELSE "live"
           Others == Instances \ {i}
<1> USE DEF Safe
<1>1. p \in {"starting", "live"} /\ GoTo(i, p) /\ initCount' = initCount + 1
      /\ UNCHANGED <<phase, result, up>>
  BY DEF Increment
<1>2. /\ Counting' /\ initCount' \in Nat
      /\ initCount' = 1 <=> \A j \in Others : place[j] \in {"absent", "stopping"}
  <2> HIDE DEF p
  <2> QED
    BY <1>1, CountIn
<1>3. \A j \in Others : place[j] \in {"absent", "live"}
  BY DEF InTurn, InPhase, Instances
<1>4. initCount' = 1 <=> \A j \in Others : place[j] = "absent"
  BY <1>2, <1>3
<1>5. place'[i] = p /\ \A j \in Others : place'[j] = place[j]
  BY <1>1 DEF GoTo, TypeOK
<1>6. TypeOK'
  BY <1>1, <1>2 DEF TypeOK, GoTo, Places
<1>7. phase = "main" => p = "live" /\ i \in Dynamic
  BY <1>4, InstancesAssumption DEF InPhase, InTurn, Instances
<1>8. InPhase'
  BY <1>1, <1>3, <1>5, <1>7, InstancesAssumption DEF InPhase, InTurn, Instances, TypeOK
<1>9. Alone'
  BY <1>3, <1>4, <1>5 DEF Alone
<1>10. UpAsFar'
  BY <1>1, <1>3, <1>4, <1>5 DEF UpAsFar
<1> QED
  BY <1>2, <1>6, <1>8, <1>9, <1>10

\* WSAStartup returns to the only instance.
LEMMA SafeStartup ==
  ASSUME Safe, NEW i \in Instances, Startup(i)
  PROVE  Safe'
<1> USE DEF Safe
<1>1. PICK p \in {"started", "refused"} :
        GoTo(i, p) /\ up' = IF p = "started" THEN up + 1 ELSE up
  BY DEF Startup
<1>2. place[i] = "starting" /\ UNCHANGED <<phase, initCount, result>>
  BY DEF Startup
<1>3. place'[i] = p /\ \A j \in Instances \ {i} : place'[j] = place[j] /\ place[j] = "absent"
  BY <1>1, <1>2 DEF GoTo, TypeOK, Alone
<1>4. TypeOK'
  BY <1>1, <1>2 DEF TypeOK, GoTo, Places
<1>5. Counting'
  BY <1>1, <1>2, CountSame DEF Places
<1>6. InPhase'
  BY <1>1, <1>2, <1>3 DEF InPhase, Instances
<1>7. Alone'
  BY <1>3 DEF Alone
<1>8. UpAsFar'
  BY <1>1, <1>2, <1>3 DEF UpAsFar, TypeOK
<1> QED
  BY <1>4, <1>5, <1>6, <1>7, <1>8

\* The result is stored by the only instance, and agrees with Winsock.
LEMMA SafeStoreResult ==
  ASSUME Safe, NEW i \in Instances, StoreResult(i)
  PROVE  Safe'
<1> USE DEF Safe
<1>1. /\ place[i] \in {"started", "refused"} /\ GoTo(i, "live")
      /\ result' = IF place[i] = "started" THEN "none" ELSE "error"
      /\ UNCHANGED <<phase, initCount, up>>
  BY DEF StoreResult
<1>2. place'[i] = "live" /\ \A j \in Instances \ {i} : place'[j] = place[j] /\ place[j] = "absent"
  BY <1>1 DEF GoTo, TypeOK, Alone
<1>3. TypeOK'
  BY <1>1 DEF TypeOK, GoTo, Places
<1>4. Counting'
  BY <1>1, CountSame DEF Places
<1>5. InPhase'
  BY <1>1, <1>2 DEF InPhase, Instances
<1>6. Alone'
  BY <1>2 DEF Alone
<1>7. UpAsFar'
  BY <1>1, <1>2 DEF UpAsFar
<1> QED
  BY <1>3, <1>4, <1>5, <1>6, <1>7

\* An instance that goes cleans Winsock up if it was the last one, and leaves
\* another one live otherwise.
LEMMA SafeDestroy ==
  ASSUME Safe, NEW i \in Instances, Destroy(i)
  PROVE  Safe'
<1> DEFINE p == IF initCount' = 0 THEN "stopping" ELSE "absent"
           Others == Instances \ {i}
<1> USE DEF Safe
<1>1. /\ p \in {"stopping", "absent"} /\ GoTo(i, p) /\ initCount' = initCount - 1
      /\ place[i] = "live" /\ InTurn(i) /\ phase # "static_init"
      /\ UNCHANGED <<phase, result, up>>
  BY DEF Destroy
<1>2. /\ Counting' /\ initCount' \in Nat
      /\ initCount' = 0 <=> \A j \in Others : place[j] \in {"absent", "stopping"}
  <2> HIDE DEF p
  <2> QED
    BY <1>1, CountOut
<1>3. \A j \in Others : place[j] \in {"absent", "live"}
  BY <1>1 DEF InTurn, InPhase, Instances
<1>4. initCount' = 0 <=> \A j \in Others : place[j] = "absent"
  BY <1>2, <1>3
<1>5. place'[i] = p /\ \A j \in Others : place'[j] = place[j]
  BY <1>1 DEF GoTo, TypeOK
<1>6. TypeOK'
  BY <1>1, <1>2 DEF TypeOK, GoTo, Places
<1>7. phase = "main" => p = "absent" /\ i \in Dynamic
  BY <1>1, <1>4, InstancesAssumption DEF InPhase, InTurn, Instances
<1>8. phase = "exit" => i \in Static
  BY <1>1 DEF InTurn
<1>9. InPhase'
  BY <1>1, <1>3, <1>5, <1>7, <1>8, InstancesAssumption DEF InPhase, Instances, TypeOK
<1>10. Alone'
  BY <1>3, <1>4, <1>5 DEF Alone
<1>11. UpAsFar'
  BY <1>1, <1>3, <1>4, <1>5 DEF UpAsFar
<1> QED
  BY <1>2, <1>6, <1>9, <1>10, <1>11

\* WSACleanup leaves nothing behind.
LEMMA SafeCleanup ==
  ASSUME Safe, NEW i \in Instances, Cleanup(i)
  PROVE  Safe'
<1> USE DEF Safe
<1>1. /\ place[i] = "stopping" /\ GoTo(i, "absent")
      /\ up' = IF up > 0 THEN up - 1 ELSE up
      /\ UNCHANGED <<phase, initCount, result>>
  BY DEF Cleanup
<1>2. \A j \in Instances : place'[j] = "absent"
  BY <1>1 DEF GoTo, TypeOK, Alone
<1>3. TypeOK'
  BY <1>1 DEF TypeOK, GoTo, Places
<1>4. Counting'
  BY <1>1, CountSame DEF Places
<1>5. phase = "exit"
  BY <1>1 DEF InPhase, Instances, TypeOK
<1>6. InPhase'
  BY <1>1, <1>2, <1>5 DEF InPhase, Instances
<1>7. up' = 0
  BY <1>1 DEF UpAsFar
<1>8. Alone' /\ UpAsFar'
  BY <1>2, <1>7 DEF Alone, UpAsFar
<1> QED
  BY <1>3, <1>4, <1>6, <1>8

\* main begins when every static instance is live, and ends when the threads'
\* instances are gone.
LEMMA SafePhase ==
  ASSUME Safe, EnterMain \/ LeaveMain
  PROVE  Safe'
<1> USE DEF Safe
<1>1. UNCHANGED <<initCount, result, up, place>>
  BY DEF EnterMain, LeaveMain
<1>2. TypeOK' /\ Counting' /\ Alone' /\ UpAsFar'
  BY <1>1 DEF EnterMain, LeaveMain, TypeOK, Counting, Counted, Alone, UpAsFar
<1>3. InPhase'
  BY <1>1 DEF EnterMain, LeaveMain, InPhase, Instances
<1> QED
  BY <1>2, <1>3

\* Every step keeps the invariant.
LEMMA SafeNext == Safe /\ [Next]_vars => Safe'
<1> SUFFICES ASSUME Safe, [Next]_vars PROVE Safe'
  OBVIOUS
<1>1. CASE UNCHANGED vars
  BY <1>1 DEF Safe, TypeOK, Counting, Counted, InPhase, Alone, UpAsFar, vars
<1>2. CASE EnterMain \/ LeaveMain
  BY <1>2, SafePhase
<1>3. ASSUME NEW i \in Instances, Construct(i) \/ Copy(i)
      PROVE  Safe'
  <2>1. place[i] = "absent" /\ InTurn(i) /\ Increment(i)
    BY <1>3 DEF Construct, Copy
  <2>2. phase # "exit"
    BY <1>3, InstancesAssumption DEF Construct, Copy, InTurn
  <2> QED
    BY <2>1, <2>2, SafeAppears
<1>4. ASSUME NEW i \in Instances, Startup(i) \/ StoreResult(i) \/ Destroy(i) \/ Cleanup(i)
      PROVE  Safe'
  BY <1>4, SafeStartup, SafeStoreResult, SafeDestroy, SafeCleanup
<1> QED
  BY <1>1, <1>2, <1>3, <1>4 DEF Next

\* The invariant holds throughout.
LEMMA AlwaysSafe == Spec => []Safe
<1> QED
  BY SafeInit, SafeNext, PTL DEF Spec

-----------------------------------------------------------------------------
\* Type correctness: among the rest, the count never drops below zero.
THEOREM TypeCorrect == Spec => []TypeOK
<1>1. Safe => TypeOK
  BY DEF Safe
<1> QED
  BY AlwaysSafe, <1>1, PTL

\* Whoever holds an instance of winsock_init can use Winsock, if it started at
\* all, and the program's threads neither start it nor clean it up.
THEOREM UsableWhileLiveAlways == Spec => []UsableWhileLive
<1>1. Safe => UsableWhileLive
  BY DEF Safe, UsableWhileLive, UpAsFar, InPhase, Instances, TypeOK
<1> QED
  BY AlwaysSafe, <1>1, PTL

\* Every successful WSAStartup has its WSACleanup by the time the last instance
\* is gone.
THEOREM BalancedAlways == Spec => []Balanced
<1>1. Safe => Balanced
  <2> SUFFICES ASSUME Safe, \A i \in Instances : place[i] = "absent"
               PROVE  initCount = 0 /\ up = 0
    BY DEF Balanced
  <2>1. Counted = {}
    BY DEF Counted
  <2> QED
    BY <2>1, FS_EmptySet DEF Safe, Counting, UpAsFar
<1> QED
  BY AlwaysSafe, <1>1, PTL
=============================================================================
