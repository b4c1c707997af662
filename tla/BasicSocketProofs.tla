------------------------- MODULE BasicSocketProofs -------------------------
(***************************************************************************)
(* Proofs, for any number of objects, cells and handles, of the safety of  *)
(* BasicSocket, and that DisciplinedSocket implements SocketOwnership.     *)
(* Every call changes at most two pointers, so the proofs first say what   *)
(* each kind of pointer change does to the handles that the objects see,   *)
(* and then go through the calls invariant by invariant.                   *)
(***************************************************************************)
EXTENDS DisciplinedSocket, TLAPS

AnyHandle == Handles \cup {InvalidSocket}

-----------------------------------------------------------------------------
(* The effect of pointer changes.                                          *)

\* invalid_socket is no native handle.
LEMMA InvalidNotHandle == InvalidSocket \notin Handles
BY CoreAssumption

\* native_handle() is a native handle or invalid_socket.
LEMMA HandleType ==
  ASSUME TypeOK, NEW o \in Objects
  PROVE  Handle(o) \in AnyHandle
BY DEF TypeOK, Handle, Holds, AnyHandle

\* Settle keeps the cells in use and gives a table of cells.
LEMMA SettleType ==
  ASSUME NEW p \in [Objects -> Cells \cup {NullPtr}],
         NEW values \in [Cells -> AnyHandle]
  PROVE  /\ Settle(p, values) \in [Cells -> AnyHandle]
         /\ \A o \in Objects : p[o] # NullPtr => Settle(p, values)[p[o]] = values[p[o]]
BY DEF Settle, AnyHandle

\* holdsSocket() gives o a cell of its own with the handle, and leaves what
\* every other object sees as it was.
LEMMA HoldsSocketEffect ==
  ASSUME TypeOK, NEW o \in Objects, NEW h \in AnyHandle, HoldsSocket(o, h)
  PROVE  /\ shared' \in [Objects -> Cells \cup {NullPtr}]
         /\ cell' \in [Cells -> AnyHandle]
         /\ Handle(o)' = h
         /\ shared'[o] # NullPtr
         /\ \A p \in Objects \ {o} :
               /\ shared'[p] = shared[p]
               /\ shared'[p] # shared'[o]
               /\ Handle(p)' = Handle(p)
<1>1. PICK c \in Cells :
         /\ \A p \in Objects \ {o} : shared[p] # c
         /\ shared' = [shared EXCEPT ![o] = c]
         /\ cell' = Settle(shared', [cell EXCEPT ![c] = h])
  BY DEF HoldsSocket
<1>2. /\ shared' \in [Objects -> Cells \cup {NullPtr}]
      /\ [cell EXCEPT ![c] = h] \in [Cells -> AnyHandle]
  BY <1>1 DEF TypeOK, AnyHandle
<1>3. /\ cell' \in [Cells -> AnyHandle]
      /\ \A p \in Objects : shared'[p] # NullPtr =>
            cell'[shared'[p]] = [cell EXCEPT ![c] = h][shared'[p]]
  BY <1>1, <1>2, SettleType
<1>4. shared'[o] = c /\ c # NullPtr
  BY <1>1, CoreAssumption DEF TypeOK
<1>5. Handle(o)' = h
  BY <1>3, <1>4 DEF Handle, Holds, TypeOK
<1>6. ASSUME NEW p \in Objects \ {o}
      PROVE  /\ shared'[p] = shared[p]
             /\ shared'[p] # shared'[o]
             /\ Handle(p)' = Handle(p)
  <2>1. shared'[p] = shared[p] /\ shared[p] # c
    BY <1>1 DEF TypeOK
  <2>2. QED
    BY <1>3, <1>4, <2>1 DEF Handle, Holds, TypeOK
<1>7. QED
  BY <1>2, <1>3, <1>4, <1>5, <1>6

\* Dropping the pointer of o leaves what every other object sees as it was.
LEMMA DropEffect ==
  ASSUME TypeOK, NEW o \in Objects,
         shared' = [shared EXCEPT ![o] = NullPtr],
         cell' = Settle(shared', cell)
  PROVE  /\ shared' \in [Objects -> Cells \cup {NullPtr}]
         /\ cell' \in [Cells -> AnyHandle]
         /\ Handle(o)' = InvalidSocket
         /\ shared'[o] = NullPtr
         /\ \A p \in Objects \ {o} :
               shared'[p] = shared[p] /\ Handle(p)' = Handle(p)
<1>1. shared' \in [Objects -> Cells \cup {NullPtr}] /\ cell \in [Cells -> AnyHandle]
  BY DEF TypeOK, AnyHandle
<1>2. /\ cell' \in [Cells -> AnyHandle]
      /\ \A p \in Objects : shared'[p] # NullPtr => cell'[shared'[p]] = cell[shared'[p]]
  BY <1>1, SettleType
<1>3. QED
  BY <1>1, <1>2 DEF TypeOK, Handle, Holds

\* After copy(), n sees what o sees.
LEMMA CopyEffect ==
  ASSUME TypeOK, NEW o \in Objects, NEW n \in Objects,
         shared' = [shared EXCEPT ![n] = shared[o]],
         cell' = Settle(shared', cell)
  PROVE  /\ shared' \in [Objects -> Cells \cup {NullPtr}]
         /\ cell' \in [Cells -> AnyHandle]
         /\ shared'[n] = shared[o] /\ Handle(n)' = Handle(o)
         /\ \A p \in Objects \ {n} :
               shared'[p] = shared[p] /\ Handle(p)' = Handle(p)
<1>1. shared' \in [Objects -> Cells \cup {NullPtr}] /\ cell \in [Cells -> AnyHandle]
  BY DEF TypeOK, AnyHandle
<1>2. /\ cell' \in [Cells -> AnyHandle]
      /\ \A p \in Objects : shared'[p] # NullPtr => cell'[shared'[p]] = cell[shared'[p]]
  BY <1>1, SettleType
<1>3. QED
  BY <1>1, <1>2 DEF TypeOK, Handle, Holds

\* After move() between two objects, n sees what o saw and o sees nothing.
LEMMA MoveEffect ==
  ASSUME TypeOK, NEW o \in Objects, NEW n \in Objects, o # n,
         shared' = [shared EXCEPT ![n] = shared[o], ![o] = NullPtr],
         cell' = Settle(shared', cell)
  PROVE  /\ shared' \in [Objects -> Cells \cup {NullPtr}]
         /\ cell' \in [Cells -> AnyHandle]
         /\ shared'[n] = shared[o] /\ Handle(n)' = Handle(o)
         /\ shared'[o] = NullPtr /\ Handle(o)' = InvalidSocket
         /\ \A p \in Objects \ {o, n} :
               shared'[p] = shared[p] /\ Handle(p)' = Handle(p)
<1>1. shared' \in [Objects -> Cells \cup {NullPtr}] /\ cell \in [Cells -> AnyHandle]
  BY DEF TypeOK, AnyHandle
<1>2. /\ cell' \in [Cells -> AnyHandle]
      /\ \A p \in Objects : shared'[p] # NullPtr => cell'[shared'[p]] = cell[shared'[p]]
  BY <1>1, SettleType
<1>3. QED
  BY <1>1, <1>2 DEF TypeOK, Handle, Holds

\* A step that changes no pointer and keeps the cells in use (a self-move, or
\* a call that touches neither) changes what no object sees.
LEMMA SameHandles ==
  ASSUME TypeOK, UNCHANGED shared, cell' = Settle(shared', cell) \/ UNCHANGED cell
  PROVE  /\ cell' \in [Cells -> AnyHandle]
         /\ \A p \in Objects : Handle(p)' = Handle(p)
<1>1. shared' \in [Objects -> Cells \cup {NullPtr}] /\ cell \in [Cells -> AnyHandle]
  BY DEF TypeOK, AnyHandle
<1>2. /\ cell' \in [Cells -> AnyHandle]
      /\ \A p \in Objects : shared'[p] # NullPtr => cell'[shared'[p]] = cell[shared'[p]]
  BY <1>1, SettleType
<1>3. QED
  BY <1>1, <1>2 DEF TypeOK, Handle, Holds

-----------------------------------------------------------------------------
(* Type correctness.                                                       *)

\* The variables start with their types.
LEMMA TypeInit == Init => TypeOK
BY DEF Init, TypeOK, KernelSocket, FreeHandle, Statuses, Flags, Calls

\* The calls that give an object a cell of its own.
LEMMA TypeAcquire ==
  ASSUME TypeOK, NEW o \in Objects, NEW h \in AnyHandle, HoldsSocket(o, h),
         alive' \subseteq Objects, state' \in [Objects -> SUBSET Flags],
         open' \in [Objects -> BOOLEAN], kernel' \in [Handles -> KernelSocket],
         running' \in BOOLEAN
  PROVE  TypeOK'
<1>1. shared' \in [Objects -> Cells \cup {NullPtr}] /\ cell' \in [Cells -> AnyHandle]
  BY HoldsSocketEffect
<1>2. history' \subseteq Calls
  BY DEF HoldsSocket, Note, Calls, TypeOK
<1>3. QED
  BY <1>1, <1>2 DEF TypeOK, AnyHandle

\* The handle of a new socket, and what ::socket makes of it.
LEMMA NewKernelSocket ==
  ASSUME TypeOK, NEW h \in Handles, NEW k \in KernelSocket
  PROVE  [kernel EXCEPT ![h] = k] \in [Handles -> KernelSocket]
BY DEF TypeOK

\* The entries the calls put in the table of sockets are of its type.
LEMMA KernelSocketTypes ==
  /\ FreeHandle \in KernelSocket /\ FreshSocket \in KernelSocket
  /\ [FreshSocket EXCEPT !.status = "connected"] \in KernelSocket
  /\ \A st \in Statuses, nb, linger \in BOOLEAN :
        [status |-> st, nb |-> nb, linger |-> linger] \in KernelSocket
BY DEF FreeHandle, FreshSocket, KernelSocket, Statuses

\* Whatever ::close answers, the table keeps its type, every other handle keeps
\* its socket, and no handle becomes open.  A success leaves an open one free.
LEMMA AfterCloseEffect ==
  ASSUME TypeOK, NEW h \in AnyHandle, NEW result, NEW retried \in BOOLEAN,
         result \in CloseResults(h), kernel' \in AfterClose(h, result, retried)
  PROVE  /\ kernel' \in [Handles -> KernelSocket]
         /\ \A g \in Handles : g # h => kernel'[g] = kernel[g]
         /\ \A g \in Handles : kernel[g].status = "free" => kernel'[g].status = "free"
         /\ ~ IsOpenHandle(h) => kernel' = kernel
         /\ h \in Handles /\ kernel'[h].status # "free" => result = "failed"
<1>1. CASE ~ IsOpenHandle(h)
  <2>1. kernel' = kernel
    BY <1>1 DEF AfterClose
  <2> QED
    BY <1>1, <2>1 DEF IsOpenHandle, TypeOK
<1>2. CASE IsOpenHandle(h)
  <2>1. result \in {"success", "failed"} /\ h \in Handles /\ h # InvalidSocket
    BY <1>2, InvalidNotHandle DEF CloseResults, SystemAnswers, IsOpenHandle
  <2> DEFINE kept == IF retried THEN [kernel EXCEPT ![h].nb = FALSE] ELSE kernel
             freed == [kernel EXCEPT ![h] = FreeHandle]
  <2>2. kernel' = freed \/ (result = "failed" /\ kernel' = kept)
    BY <1>2, <2>1 DEF AfterClose
  <2>3. CASE kernel' = freed
    BY <1>2, <2>1, <2>3, KernelSocketTypes DEF FreeHandle, TypeOK
  <2>4. CASE result = "failed" /\ kernel' = kept
    BY <1>2, <2>1, <2>4 DEF TypeOK, KernelSocket, IsOpenHandle
  <2> QED
    BY <2>2, <2>3, <2>4
<1> QED
  BY <1>1, <1>2

\* The same of close(ec), which besides drops the pointer of o.
LEMMA CloseAndResetEffect ==
  ASSUME TypeOK, NEW o \in Objects, NEW result, CloseAndReset(o, result)
  PROVE  /\ kernel' \in [Handles -> KernelSocket]
         /\ \A g \in Handles : g # Handle(o) => kernel'[g] = kernel[g]
         /\ \A g \in Handles : kernel[g].status = "free" => kernel'[g].status = "free"
         /\ ~ IsOpenHandle(Handle(o)) => kernel' = kernel
         /\ Handle(o) \in Handles /\ kernel'[Handle(o)].status # "free"
               => result = "failed"
         /\ state' \in [Objects -> SUBSET Flags]
         /\ \A p \in Objects \ {o} : state'[p] = state[p]
<1>1. PICK retried \in {FALSE, CloseMayBlock(Handle(o))} :
         /\ kernel' \in AfterClose(Handle(o), result, retried)
         /\ state' = IF retried
                     THEN [state EXCEPT ![o] = @ \ {"user_set_non_blocking"}] ELSE state
  BY DEF CloseAndReset
<1>2. retried \in BOOLEAN
  BY DEF CloseMayBlock, IsOpenHandle, TypeOK, KernelSocket
<1>3. state' \in [Objects -> SUBSET Flags] /\ \A p \in Objects \ {o} : state'[p] = state[p]
  BY <1>1, <1>2 DEF TypeOK
<1>4. result \in CloseResults(Handle(o)) /\ Handle(o) \in AnyHandle
  BY HandleType DEF CloseAndReset
<1> QED
  BY <1>1, <1>2, <1>3, <1>4, AfterCloseEffect

\* What a destructor that succeeds does to the table of sockets.
LEMMA DestroyOwnerEffect ==
  ASSUME TypeOK, NEW o \in Objects, DestroyOwner(o)
  PROVE  /\ kernel' \in [Handles -> KernelSocket]
         /\ \A g \in Handles : g # Handle(o) => kernel'[g] = kernel[g]
         /\ \A g \in Handles : kernel[g].status = "free" => kernel'[g].status = "free"
         /\ ~ IsOpenHandle(Handle(o)) => kernel' = kernel
         /\ Handle(o) \in Handles => kernel'[Handle(o)].status = "free"
<1>1. /\ "success" \in CloseResults(Handle(o)) /\ Handle(o) \in AnyHandle
      /\ kernel' \in AfterClose(Handle(o), "success", FALSE)
  BY HandleType DEF DestroyOwner
<1>2. FALSE \in BOOLEAN /\ "success" # "failed"
  OBVIOUS
<1> QED
  BY <1>1, <1>2, AfterCloseEffect, Zenon

\* Every call on one object keeps the types.
LEMMA TypeOneObject ==
  ASSUME TypeOK, NEW o \in Objects, OneObject(o)
  PROVE  TypeOK'
<1> USE KernelSocketTypes DEF AnyHandle
<1>1. CASE Construct(o)
  BY <1>1 DEF Construct, TypeOK
<1>2. ASSUME OpenFails(o) PROVE TypeOK'
  <2>1. state' \in [Objects -> SUBSET Flags]
    BY <1>2 DEF OpenFails, TypeOK
  <2>2. QED
    BY <1>2, <2>1, TypeAcquire DEF OpenFails, TypeOK
<1>3. ASSUME NEW h \in Handles, OpenSucceeds(o, h) PROVE TypeOK'
  <2>1. kernel' \in [Handles -> KernelSocket]
    BY <1>3, NewKernelSocket DEF OpenSucceeds
  <2>2. /\ state' \in [Objects -> SUBSET Flags] /\ open' \in [Objects -> BOOLEAN]
        /\ alive' \subseteq Objects /\ running' \in BOOLEAN
    BY <1>3 DEF OpenSucceeds, TypeOK
  <2>3. QED
    BY <1>3, <2>1, <2>2, TypeAcquire DEF OpenSucceeds
<1>4. ASSUME NEW h \in Handles, Assign(o, h) PROVE TypeOK'
  <2>1. kernel' \in [Handles -> KernelSocket]
    BY <1>4, NewKernelSocket DEF Assign, Statuses
  <2>2. /\ state' \in [Objects -> SUBSET Flags] /\ open' \in [Objects -> BOOLEAN]
        /\ alive' \subseteq Objects /\ running' \in BOOLEAN
    BY <1>4 DEF Assign, TypeOK, Flags
  <2>3. QED
    BY <1>4, <2>1, <2>2, TypeAcquire DEF Assign
<1>5. CASE Connect(o) \/ Listen(o) \/ Shutdown(o)
  BY <1>5 DEF Connect, Listen, Shutdown, TypeOK, KernelSocket, Statuses
<1>6. ASSUME ConnectOpens(o) PROVE TypeOK'
  <2>1. CASE OpenFails(o)
    BY <1>2, <2>1
  <2>2. ASSUME NEW h \in Handles, NEW st \in {"fresh", "connected"},
               kernel' = [kernel EXCEPT ![h] = [FreshSocket EXCEPT !.status = st]],
               HoldsSocket(o, h),
               state' = [state EXCEPT ![o] = {}], open' = [open EXCEPT ![o] = TRUE],
               UNCHANGED <<alive, running>>
        PROVE  TypeOK'
    <3>1. kernel' \in [Handles -> KernelSocket]
      BY <2>2 DEF FreshSocket, KernelSocket, Statuses, TypeOK
    <3>2. /\ state' \in [Objects -> SUBSET Flags] /\ open' \in [Objects -> BOOLEAN]
          /\ alive' \subseteq Objects /\ running' \in BOOLEAN
      BY <2>2 DEF TypeOK
    <3>3. QED
      BY <2>2, <3>1, <3>2, TypeAcquire
  <2>3. QED
    BY <1>6, <2>1, <2>2 DEF ConnectOpens
<1>7. ASSUME NEW b \in BOOLEAN, SetNonBlocking(o, b) PROVE TypeOK'
  BY <1>7 DEF SetNonBlocking, IsOpenHandle, TypeOK, KernelSocket, Flags
<1>8. ASSUME NEW b \in BOOLEAN, SetLinger(o, b) PROVE TypeOK'
  BY <1>8 DEF SetLinger, IsOpenHandle, TypeOK, KernelSocket, Flags
<1>9. ASSUME Close(o) \/ DestroyCloseThrows(o) PROVE TypeOK'
  <2>1. PICK result : CloseAndReset(o, result)
    BY <1>9 DEF Close, DestroyCloseThrows
  <2>2. shared' \in [Objects -> Cells \cup {NullPtr}] /\ cell' \in [Cells -> AnyHandle]
    BY <2>1, DropEffect DEF CloseAndReset
  <2>3. kernel' \in [Handles -> KernelSocket] /\ state' \in [Objects -> SUBSET Flags]
    BY <2>1, CloseAndResetEffect
  <2>4. history' \subseteq Calls
    BY <1>9 DEF Close, DestroyCloseThrows, Note, Calls, TypeOK
  <2>5. alive' = alive /\ running' \in BOOLEAN
    BY <1>9 DEF Close, DestroyCloseThrows, TypeOK
  <2>6. open' \in [Objects -> BOOLEAN]
    BY <2>1 DEF CloseAndReset, TypeOK
  <2>7. QED
    BY <2>2, <2>3, <2>4, <2>5, <2>6 DEF TypeOK
<1>10. ASSUME DestroySharer(o) \/ DestroyOwner(o) PROVE TypeOK'
  <2>1. Gone(o)
    BY <1>10 DEF DestroySharer, DestroyOwner
  <2>2. shared' \in [Objects -> Cells \cup {NullPtr}] /\ cell' \in [Cells -> AnyHandle]
    BY <2>1, DropEffect DEF Gone
  <2>3. kernel' \in [Handles -> KernelSocket]
    BY <1>10, DestroyOwnerEffect DEF DestroySharer, TypeOK
  <2>4. QED
    BY <2>1, <2>2, <2>3 DEF Gone, TypeOK
<1>11. CASE DestroyTerminates(o)
  BY <1>11 DEF DestroyTerminates, TypeOK
<1>12. QED
  BY <1>1, <1>2, <1>3, <1>4, <1>5, <1>6, <1>7, <1>8, <1>9, <1>10, <1>11 DEF OneObject

\* Accepting, copying and moving keep the types.
LEMMA TypeTwoObjects ==
  ASSUME TypeOK, NEW o \in Objects, NEW n \in Objects, TwoObjects(o, n)
  PROVE  TypeOK'
<1> USE KernelSocketTypes DEF AnyHandle
<1>1. ASSUME AcceptFails(o, n) PROVE TypeOK'
  <2>1. /\ state' \in [Objects -> SUBSET Flags] /\ open' \in [Objects -> BOOLEAN]
        /\ alive' \subseteq Objects /\ running' \in BOOLEAN
    BY <1>1 DEF AcceptFails, TypeOK, Flags
  <2>2. QED
    BY <1>1, <2>1, TypeAcquire DEF AcceptFails, TypeOK
<1>2. ASSUME NEW h \in Handles, AcceptSucceeds(o, n, h) PROVE TypeOK'
  <2>1. kernel[Handle(o)] \in KernelSocket
    BY <1>2 DEF AcceptSucceeds, TypeOK
  <2>2. kernel' \in [Handles -> KernelSocket]
    <3>1. PICK nb \in {FALSE, kernel[Handle(o)].nb}, linger \in {FALSE, kernel[Handle(o)].linger} :
             kernel' = [kernel EXCEPT
                          ![h] = [status |-> "connected", nb |-> nb, linger |-> linger]]
      BY <1>2 DEF AcceptSucceeds
    <3>2. [status |-> "connected", nb |-> nb, linger |-> linger] \in KernelSocket
      BY <2>1 DEF KernelSocket, Statuses
    <3>3. QED
      BY <3>1, <3>2, NewKernelSocket
  <2>3. /\ state' \in [Objects -> SUBSET Flags] /\ open' \in [Objects -> BOOLEAN]
        /\ alive' \subseteq Objects /\ running' \in BOOLEAN
    BY <1>2 DEF AcceptSucceeds, TypeOK, Flags
  <2>4. QED
    BY <1>2, <2>2, <2>3, TypeAcquire DEF AcceptSucceeds
<1>3. ASSUME CopyConstruct(o, n) \/ CopyAssign(o, n) PROVE TypeOK'
  <2>1. Copy(o, n) /\ alive' \subseteq Objects
    BY <1>3 DEF CopyConstruct, CopyAssign, TypeOK
  <2>2. shared' \in [Objects -> Cells \cup {NullPtr}] /\ cell' \in [Cells -> AnyHandle]
    BY <2>1, CopyEffect DEF Copy
  <2>3. history' \subseteq Calls
    BY <2>1 DEF Copy, Note, Calls, TypeOK
  <2>4. QED
    BY <2>1, <2>2, <2>3 DEF Copy, TypeOK
<1>4. ASSUME MoveConstruct(o, n) \/ MoveAssign(o, n) PROVE TypeOK'
  <2>1. Move(o, n) /\ alive' \subseteq Objects
    BY <1>4 DEF MoveConstruct, MoveAssign, TypeOK
  <2>2. shared' \in [Objects -> Cells \cup {NullPtr}] /\ cell' \in [Cells -> AnyHandle]
    BY <2>1, MoveEffect, SameHandles DEF Move, TypeOK
  <2>3. history' \subseteq Calls
    BY <2>1 DEF Move, Note, Calls, TypeOK
  <2>4. QED
    BY <2>1, <2>2, <2>3 DEF Move, TypeOK
<1>5. QED
  BY <1>1, <1>2, <1>3, <1>4 DEF TwoObjects

\* Every step keeps the types.
LEMMA TypeNext == TypeOK /\ [Next]_vars => TypeOK'
<1> SUFFICES ASSUME TypeOK, [Next]_vars PROVE TypeOK'
  OBVIOUS
<1>1. ASSUME NEW h \in Handles, PeerReset(h) PROVE TypeOK'
  BY <1>1 DEF PeerReset, TypeOK, KernelSocket, Statuses
<1>2. CASE UNCHANGED vars
  BY <1>2 DEF vars, TypeOK
<1>3. QED
  BY <1>1, <1>2, TypeOneObject, TypeTwoObjects DEF Next

\* The variables keep their types.
THEOREM TypeCorrect == Spec => []TypeOK
<1>1. QED
  BY TypeInit, TypeNext, PTL DEF Spec

-----------------------------------------------------------------------------
(* Preservation of Safe by the kinds of step.                              *)

\* o takes the closed handle h, which becomes the socket k.
LEMMA AcquireKeepsSafe ==
  ASSUME TypeOK, Safe, NEW o \in Objects, NEW h \in Handles,
         NEW k \in KernelSocket, NEW s \in SUBSET Flags,
         kernel[h].status = "free", k.status # "free",
         kernel' = [kernel EXCEPT ![h] = k],
         HoldsSocket(o, h),
         state' = [state EXCEPT ![o] = s],
         "possible_dup" \notin s => ~ k.nb /\ ~ k.linger /\ s = {},
         o \in alive', alive \subseteq alive', alive' \subseteq Objects
  PROVE  Safe'
<1>1. /\ Handle(o)' = h
      /\ shared'[o] # NullPtr
      /\ \A p \in Objects \ {o} : /\ shared'[p] = shared[p]
                                  /\ shared'[p] # shared'[o]
                                  /\ Handle(p)' = Handle(p)
  BY HoldsSocketEffect DEF AnyHandle
<1>2. history' = IF LastOwner(o) THEN history \cup {"lost"} ELSE history
  BY DEF HoldsSocket, Note
<1>3. kernel'[h] = k /\ \A g \in Handles \ {h} : kernel'[g] = kernel[g]
  BY DEF TypeOK
<1>4. DeadHoldNothing'
  BY <1>1 DEF Safe, DeadHoldNothing
<1>5. SharingIsNoted'
  BY <1>1, <1>2 DEF Safe, SharingIsNoted, Holds
<1>6. ASSUME "shared_close" \notin history
      PROVE  \A p \in Objects \ {o} : Handle(p) # h
  BY <1>6, InvalidNotHandle DEF Safe, NoStaleHandle
<1>7. NoStaleHandle'
  <2> SUFFICES ASSUME "shared_close" \notin history'
               PROVE  /\ \A p \in Objects : Handle(p)' # InvalidSocket =>
                                            kernel'[Handle(p)'].status # "free"
                      /\ \A p, q \in Objects :
                            Handle(p)' # InvalidSocket /\ Handle(p)' = Handle(q)'
                              => shared'[p] = shared'[q]
    BY DEF NoStaleHandle
  <2>1. "shared_close" \notin history
    BY <1>2
  <2>2. \A p \in Objects \ {o} : Handle(p) # InvalidSocket => Handle(p) \in Handles \ {h}
    BY <2>1, <1>6, HandleType DEF AnyHandle
  <2>3. QED
    BY <1>1, <1>3, <1>6, <2>1, <2>2 DEF Safe, NoStaleHandle
<1>8. NoLeak'
  <2> SUFFICES ASSUME "lost" \notin history', NEW g \in Handles,
                      kernel'[g].status # "free"
               PROVE  \E p \in alive' : Handle(p)' = g
    BY DEF NoLeak
  <2>1. CASE g = h
    BY <1>1, <2>1
  <2>2. CASE g # h
    <3>1. PICK p \in alive : Handle(p) = g
      BY <1>2, <1>3, <2>2 DEF Safe, NoLeak
    <3>2. CASE p # o
      BY <1>1, <3>1, <3>2 DEF TypeOK
    <3>3. CASE p = o
      <4>1. Holds(o) /\ ~ SoleOwner(o)
        BY <1>2, <1>3, <2>2, <3>1, <3>3, InvalidNotHandle DEF LastOwner, IsOpenHandle, Handle
      <4>2. PICK q \in Objects \ {o} : shared[q] = shared[o]
        BY <4>1 DEF SoleOwner
      <4>3. q \in alive /\ Handle(q) = g
        BY <3>1, <3>3, <4>1, <4>2 DEF Safe, DeadHoldNothing, Handle, Holds
      <4>4. QED
        BY <1>1, <4>2, <4>3
    <3>4. QED
      BY <3>2, <3>3
  <2>3. QED
    BY <2>1, <2>2
<1>9. StateAgreesWithKernel'
  <2> SUFFICES ASSUME "copied" \notin history', NEW p \in Objects,
                      IsOpenHandle(Handle(p))', "possible_dup" \notin state'[p]
               PROVE  /\ kernel'[Handle(p)'].nb <=> "user_set_non_blocking" \in state'[p]
                      /\ kernel'[Handle(p)'].linger => "user_set_linger" \in state'[p]
    BY DEF StateAgreesWithKernel
  <2>1. CASE p = o
    BY <1>1, <1>3, <2>1 DEF TypeOK
  <2>2. CASE p # o
    <3>1. "copied" \notin history /\ "shared_close" \notin history
      BY <1>2 DEF Safe, SharingIsNoted
    <3>2. Handle(p) \in Handles \ {h} /\ Handle(p)' = Handle(p) /\ state'[p] = state[p]
      BY <1>1, <1>6, <2>2, <3>1 DEF IsOpenHandle, TypeOK
    <3>3. IsOpenHandle(Handle(p))
      BY <1>3, <3>2 DEF IsOpenHandle
    <3>4. QED
      BY <1>3, <3>1, <3>2, <3>3 DEF Safe, StateAgreesWithKernel
  <2>3. QED
    BY <2>1, <2>2
<1>10. QED
  BY <1>4, <1>5, <1>7, <1>8, <1>9 DEF Safe

\* o is given a cell with invalid_socket.
LEMMA FailureKeepsSafe ==
  ASSUME TypeOK, Safe, NEW o \in Objects, NEW s \in SUBSET Flags,
         HoldsSocket(o, InvalidSocket), UNCHANGED kernel,
         state' = [state EXCEPT ![o] = s],
         o \in alive', alive \subseteq alive', alive' \subseteq Objects
  PROVE  Safe'
<1>1. /\ Handle(o)' = InvalidSocket
      /\ shared'[o] # NullPtr
      /\ \A p \in Objects \ {o} : /\ shared'[p] = shared[p]
                                  /\ shared'[p] # shared'[o]
                                  /\ Handle(p)' = Handle(p)
  BY HoldsSocketEffect DEF AnyHandle
<1>2. history' = IF LastOwner(o) THEN history \cup {"lost"} ELSE history
  BY DEF HoldsSocket, Note
<1>3. DeadHoldNothing'
  BY <1>1 DEF Safe, DeadHoldNothing
<1>4. SharingIsNoted'
  BY <1>1, <1>2 DEF Safe, SharingIsNoted, Holds
<1>5. NoStaleHandle'
  BY <1>1, <1>2 DEF Safe, NoStaleHandle
<1>6. NoLeak'
  <2> SUFFICES ASSUME "lost" \notin history', NEW g \in Handles,
                      kernel[g].status # "free"
               PROVE  \E p \in alive' : Handle(p)' = g
    BY DEF NoLeak
  <2>1. PICK p \in alive : Handle(p) = g
    BY <1>2 DEF Safe, NoLeak
  <2>2. CASE p # o
    BY <1>1, <2>1, <2>2 DEF TypeOK
  <2>3. CASE p = o
    <3>1. Holds(o) /\ ~ SoleOwner(o)
      BY <1>2, <2>1, <2>3, InvalidNotHandle DEF LastOwner, IsOpenHandle, Handle
    <3>2. PICK q \in Objects \ {o} : shared[q] = shared[o]
      BY <3>1 DEF SoleOwner
    <3>3. q \in alive /\ Handle(q) = g
      BY <2>1, <2>3, <3>1, <3>2 DEF Safe, DeadHoldNothing, Handle, Holds
    <3>4. QED
      BY <1>1, <3>2, <3>3
  <2>4. QED
    BY <2>2, <2>3
<1>7. StateAgreesWithKernel'
  <2> SUFFICES ASSUME "copied" \notin history', NEW p \in Objects,
                      IsOpenHandle(Handle(p))', "possible_dup" \notin state'[p]
               PROVE  /\ kernel'[Handle(p)'].nb <=> "user_set_non_blocking" \in state'[p]
                      /\ kernel'[Handle(p)'].linger => "user_set_linger" \in state'[p]
    BY DEF StateAgreesWithKernel
  <2>1. p # o
    BY <1>1, InvalidNotHandle DEF IsOpenHandle
  <2>2. Handle(p)' = Handle(p) /\ state'[p] = state[p] /\ "copied" \notin history
    BY <1>1, <1>2, <2>1 DEF TypeOK
  <2>3. QED
    BY <2>2 DEF Safe, StateAgreesWithKernel, IsOpenHandle
<1>8. QED
  BY <1>3, <1>4, <1>5, <1>6, <1>7 DEF Safe

\* Nobody's pointer changes, and no handle becomes free or stops being free.
LEMMA KernelStepKeepsSafe ==
  ASSUME TypeOK, Safe,
         UNCHANGED <<alive, shared, cell, history>>,
         \A g \in Handles : kernel'[g].status = "free" <=> kernel[g].status = "free",
         StateAgreesWithKernel'
  PROVE  Safe'
<1>1. \A p \in Objects : Handle(p)' = Handle(p)
  BY SameHandles
<1>2. DeadHoldNothing' /\ SharingIsNoted'
  BY DEF Safe, DeadHoldNothing, SharingIsNoted, Holds
<1>3. NoStaleHandle'
  BY <1>1, HandleType DEF Safe, NoStaleHandle, AnyHandle
<1>4. NoLeak'
  BY <1>1 DEF Safe, NoLeak, TypeOK
<1>5. QED
  BY <1>2, <1>3, <1>4 DEF Safe

\* When nothing was copied, two objects never name one open descriptor.
LEMMA DistinctHandles ==
  ASSUME TypeOK, Safe, "copied" \notin history,
         NEW o \in Objects, NEW p \in Objects, o # p, Handle(o) # InvalidSocket
  PROVE  Handle(p) # Handle(o)
<1>1. Holds(o) /\ shared[o] # shared[p]
  BY DEF Safe, SharingIsNoted, Handle
<1>2. QED
  BY <1>1 DEF Safe, SharingIsNoted, NoStaleHandle

\* n becomes a copy of o.
LEMMA CopyKeepsSafe ==
  ASSUME TypeOK, Safe, NEW o \in Objects, NEW n \in Objects, Copy(o, n),
         n \in alive', alive \subseteq alive', alive' \subseteq Objects
  PROVE  Safe'
<1>1. /\ shared'[n] = shared[o] /\ Handle(n)' = Handle(o)
      /\ \A p \in Objects \ {n} : shared'[p] = shared[p] /\ Handle(p)' = Handle(p)
  BY CopyEffect DEF Copy
<1>2. /\ history \subseteq history'
      /\ history' \subseteq history \cup {"copied", "lost"}
      /\ Holds(o) /\ o # n => "copied" \in history'
      /\ LastOwner(n) /\ o # n => "lost" \in history'
      /\ UNCHANGED kernel
  BY DEF Copy, Note
<1>3. DeadHoldNothing'
  BY <1>1 DEF Safe, DeadHoldNothing
<1>4. SharingIsNoted'
  <2>1. "shared_close" \in history' => "copied" \in history'
    BY <1>2 DEF Safe, SharingIsNoted
  <2>2. ASSUME "copied" \notin history', NEW p \in Objects, NEW q \in Objects, p # q,
               shared'[p] # NullPtr
        PROVE  shared'[p] # shared'[q]
    BY <1>1, <1>2, <2>2 DEF Safe, SharingIsNoted, Holds
  <2>3. QED
    BY <2>1, <2>2 DEF SharingIsNoted, Holds
<1>5. NoStaleHandle'
  BY <1>1, <1>2 DEF Safe, NoStaleHandle
<1>6. NoLeak'
  <2> SUFFICES ASSUME "lost" \notin history', NEW g \in Handles,
                      kernel[g].status # "free"
               PROVE  \E p \in alive' : Handle(p)' = g
    BY <1>2 DEF NoLeak
  <2>1. PICK p \in alive : Handle(p) = g
    BY <1>2 DEF Safe, NoLeak
  <2>2. CASE p # n \/ o = n
    BY <1>1, <2>1, <2>2 DEF TypeOK
  <2>3. CASE p = n /\ o # n
    <3>1. Holds(n) /\ ~ SoleOwner(n)
      BY <1>2, <2>1, <2>3, InvalidNotHandle DEF LastOwner, IsOpenHandle, Handle
    <3>2. PICK q \in Objects \ {n} : shared[q] = shared[n]
      BY <3>1 DEF SoleOwner
    <3>3. q \in alive /\ Handle(q) = g
      BY <2>1, <2>3, <3>1, <3>2 DEF Safe, DeadHoldNothing, Handle, Holds
    <3>4. QED
      BY <1>1, <3>2, <3>3
  <2>4. QED
    BY <2>2, <2>3
<1>7. StateAgreesWithKernel'
  <2> SUFFICES ASSUME "copied" \notin history', NEW p \in Objects,
                      IsOpenHandle(Handle(p))', "possible_dup" \notin state'[p]
               PROVE  /\ kernel'[Handle(p)'].nb <=> "user_set_non_blocking" \in state'[p]
                      /\ kernel'[Handle(p)'].linger => "user_set_linger" \in state'[p]
    BY DEF StateAgreesWithKernel
  <2>1. o = n \/ Handle(o) = InvalidSocket
    BY <1>2 DEF Handle
  <2>2. Handle(p)' = Handle(p) /\ state'[p] = state[p]
    BY <1>1, <2>1, InvalidNotHandle DEF Copy, TypeOK, IsOpenHandle
  <2>3. QED
    BY <1>2, <2>2 DEF Safe, StateAgreesWithKernel, IsOpenHandle
<1>8. QED
  BY <1>3, <1>4, <1>5, <1>6, <1>7 DEF Safe

\* o is moved to n.
LEMMA MoveKeepsSafe ==
  ASSUME TypeOK, Safe, NEW o \in Objects, NEW n \in Objects, Move(o, n),
         n \in alive', alive \subseteq alive', alive' \subseteq Objects
  PROVE  Safe'
<1>1. CASE o = n
  <2>1. UNCHANGED <<shared, kernel, history, state>>
    BY <1>1 DEF Move, Note, TypeOK
  <2>2. \A p \in Objects : Handle(p)' = Handle(p)
    BY <1>1, <2>1, SameHandles DEF Move
  <2>3. DeadHoldNothing' /\ SharingIsNoted'
    BY <2>1 DEF Safe, DeadHoldNothing, SharingIsNoted, Holds
  <2>4. NoStaleHandle' /\ NoLeak'
    BY <2>1, <2>2 DEF Safe, NoStaleHandle, NoLeak, TypeOK
  <2>5. StateAgreesWithKernel'
    BY <2>1, <2>2 DEF Safe, StateAgreesWithKernel, IsOpenHandle
  <2>6. QED
    BY <2>3, <2>4, <2>5 DEF Safe
<1>2. CASE o # n
  <2>1. /\ shared'[n] = shared[o] /\ Handle(n)' = Handle(o)
        /\ shared'[o] = NullPtr /\ Handle(o)' = InvalidSocket
        /\ \A p \in Objects \ {o, n} : shared'[p] = shared[p] /\ Handle(p)' = Handle(p)
    BY <1>2, MoveEffect DEF Move
  <2>2. /\ history' = IF LastOwner(n) THEN history \cup {"lost"} ELSE history
        /\ UNCHANGED kernel
    BY <1>2 DEF Move, Note
  <2>3. DeadHoldNothing'
    BY <2>1 DEF Safe, DeadHoldNothing
  <2>4. SharingIsNoted'
    BY <1>2, <2>1, <2>2 DEF Safe, SharingIsNoted, Holds
  <2>5. NoStaleHandle'
    BY <1>2, <2>1, <2>2 DEF Safe, NoStaleHandle
  <2>6. NoLeak'
    <3> SUFFICES ASSUME "lost" \notin history', NEW g \in Handles,
                        kernel[g].status # "free"
                 PROVE  \E p \in alive' : Handle(p)' = g
      BY <2>2 DEF NoLeak
    <3>1. PICK p \in alive : Handle(p) = g
      BY <2>2 DEF Safe, NoLeak
    <3>2. CASE p \notin {o, n}
      BY <2>1, <3>1, <3>2 DEF TypeOK
    <3>3. CASE p = o
      BY <2>1, <3>1, <3>3
    <3>4. CASE p = n
      <4>1. Holds(n) /\ ~ SoleOwner(n)
        BY <2>2, <3>1, <3>4, InvalidNotHandle DEF LastOwner, IsOpenHandle, Handle
      <4>2. PICK q \in Objects \ {n} : shared[q] = shared[n]
        BY <4>1 DEF SoleOwner
      <4>3. q \in alive /\ Handle(q) = g
        BY <3>1, <3>4, <4>1, <4>2 DEF Safe, DeadHoldNothing, Handle, Holds
      <4>4. CASE q = o
        BY <2>1, <4>3, <4>4
      <4>5. CASE q # o
        BY <2>1, <4>2, <4>3, <4>5
      <4>6. QED
        BY <4>4, <4>5
    <3>5. QED
      BY <3>2, <3>3, <3>4
  <2>7. StateAgreesWithKernel'
    <3> SUFFICES ASSUME "copied" \notin history', NEW p \in Objects,
                        IsOpenHandle(Handle(p))', "possible_dup" \notin state'[p]
                 PROVE  /\ kernel'[Handle(p)'].nb <=> "user_set_non_blocking" \in state'[p]
                        /\ kernel'[Handle(p)'].linger => "user_set_linger" \in state'[p]
      BY DEF StateAgreesWithKernel
    <3>1. p # o /\ "copied" \notin history
      BY <2>1, <2>2, InvalidNotHandle DEF IsOpenHandle
    <3>2. CASE p = n
      <4>1. Handle(p)' = Handle(o) /\ state'[p] = state[o]
        BY <2>1, <3>2 DEF Move, TypeOK
      <4>2. QED
        BY <2>2, <3>1, <4>1 DEF Safe, StateAgreesWithKernel, IsOpenHandle
    <3>3. CASE p # n
      <4>1. Handle(p)' = Handle(p) /\ state'[p] = state[p]
        BY <2>1, <3>1, <3>3 DEF Move, TypeOK
      <4>2. QED
        BY <2>2, <3>1, <4>1 DEF Safe, StateAgreesWithKernel, IsOpenHandle
    <3>4. QED
      BY <3>2, <3>3
  <2>8. QED
    BY <2>3, <2>4, <2>5, <2>6, <2>7 DEF Safe
<1>3. QED
  BY <1>1, <1>2

\* o lets go of its cell: it closes the descriptor, or others still hold it,
\* or it is noted that the descriptor stayed open.
LEMMA DropKeepsSafe ==
  ASSUME TypeOK, Safe, NEW o \in Objects,
         shared' = [shared EXCEPT ![o] = NullPtr],
         cell' = Settle(shared', cell),
         \A g \in Handles : g # Handle(o) => kernel'[g] = kernel[g],
         \A g \in Handles : kernel[g].status = "free" => kernel'[g].status = "free",
         IsOpenHandle(Handle(o)) /\ kernel' # kernel =>
            SoleOwner(o) \/ "shared_close" \in history',
         Handle(o) \in Handles /\ kernel'[Handle(o)].status # "free" =>
            ~ SoleOwner(o) \/ "lost" \in history',
         history \subseteq history',
         "copied" \in history' => "copied" \in history,
         "shared_close" \in history' =>
            "shared_close" \in history \/ (IsOpenHandle(Handle(o)) /\ ~ SoleOwner(o)),
         alive \ {o} \subseteq alive', alive' \subseteq alive,
         \A p \in Objects \ {o} : state'[p] = state[p]
  PROVE  Safe'
<1>1. /\ shared'[o] = NullPtr /\ Handle(o)' = InvalidSocket
      /\ \A p \in Objects \ {o} : shared'[p] = shared[p] /\ Handle(p)' = Handle(p)
  BY DropEffect
<1>5. DeadHoldNothing'
  BY <1>1 DEF Safe, DeadHoldNothing, TypeOK
<1>6. SharingIsNoted'
  <2>1. IsOpenHandle(Handle(o)) /\ ~ SoleOwner(o) => "copied" \in history
    <3> SUFFICES ASSUME IsOpenHandle(Handle(o)), ~ SoleOwner(o)
                 PROVE  "copied" \in history
      OBVIOUS
    <3>1. Holds(o)
      BY InvalidNotHandle DEF IsOpenHandle, Handle
    <3>2. PICK q \in Objects \ {o} : shared[q] = shared[o]
      BY <3>1 DEF SoleOwner
    <3>3. QED
      BY <3>1, <3>2 DEF Safe, SharingIsNoted
  <2>2. "shared_close" \in history' => "copied" \in history'
    BY <2>1 DEF Safe, SharingIsNoted
  <2>3. QED
    BY <1>1, <2>2 DEF Safe, SharingIsNoted, Holds
<1>7. ASSUME "shared_close" \notin history', NEW p \in Objects \ {o},
             Handle(p) # InvalidSocket
      PROVE  kernel'[Handle(p)] = kernel[Handle(p)]
  <2>1. Handle(p) \in Handles
    BY HandleType, <1>7 DEF AnyHandle
  <2>2. CASE Handle(p) = Handle(o)
    <3>1. shared[p] = shared[o] /\ IsOpenHandle(Handle(o))
      BY <1>7, <2>1, <2>2 DEF Safe, NoStaleHandle, IsOpenHandle
    <3>2. ~ SoleOwner(o)
      BY <3>1 DEF SoleOwner
    <3>3. QED
      BY <1>7, <3>1, <3>2
  <2>3. CASE Handle(p) # Handle(o)
    BY <2>1, <2>3
  <2>4. QED
    BY <2>2, <2>3
<1>8. NoStaleHandle'
  BY <1>1, <1>7 DEF Safe, NoStaleHandle
<1>9. NoLeak'
  <2> SUFFICES ASSUME "lost" \notin history', NEW g \in Handles,
                      kernel'[g].status # "free"
               PROVE  \E p \in alive' : Handle(p)' = g
    BY DEF NoLeak
  <2>1. kernel[g].status # "free"
    OBVIOUS
  <2>2. PICK p \in alive : Handle(p) = g
    BY <2>1 DEF Safe, NoLeak
  <2>3. CASE p # o
    BY <1>1, <2>2, <2>3 DEF TypeOK
  <2>4. CASE p = o
    <3>1. ~ SoleOwner(o)
      BY <2>2, <2>4
    <3>2. Holds(o) /\ ~ SoleOwner(o)
      BY <2>2, <2>4, <3>1, InvalidNotHandle DEF Handle
    <3>3. PICK q \in Objects \ {o} : shared[q] = shared[o]
      BY <3>2 DEF SoleOwner
    <3>4. q \in alive /\ Handle(q) = g
      BY <2>2, <2>4, <3>2, <3>3 DEF Safe, DeadHoldNothing, Handle, Holds
    <3>5. QED
      BY <1>1, <3>3, <3>4
  <2>5. QED
    BY <2>3, <2>4
<1>10. StateAgreesWithKernel'
  <2> SUFFICES ASSUME "copied" \notin history', NEW p \in Objects,
                      IsOpenHandle(Handle(p))', "possible_dup" \notin state'[p]
               PROVE  /\ kernel'[Handle(p)'].nb <=> "user_set_non_blocking" \in state'[p]
                      /\ kernel'[Handle(p)'].linger => "user_set_linger" \in state'[p]
    BY DEF StateAgreesWithKernel
  <2>1. p # o
    BY <1>1, InvalidNotHandle DEF IsOpenHandle
  <2>2. Handle(p)' = Handle(p) /\ state'[p] = state[p] /\ Handle(p) \in Handles
    BY <1>1, <2>1 DEF IsOpenHandle
  <2>3. "copied" \notin history /\ "shared_close" \notin history'
    BY <1>6 DEF SharingIsNoted
  <2>4. kernel'[Handle(p)] = kernel[Handle(p)]
    BY <1>7, <2>1, <2>2, <2>3, InvalidNotHandle
  <2>5. QED
    BY <2>2, <2>3, <2>4 DEF Safe, StateAgreesWithKernel, IsOpenHandle
<1>11. QED
  BY <1>5, <1>6, <1>8, <1>9, <1>10 DEF Safe

-----------------------------------------------------------------------------
(* Every call preserves Safe.                                              *)

\* A call that changes the kernel's socket of o and nothing else.
LEMMA SafeKernelCalls ==
  ASSUME TypeOK, Safe, NEW o \in Objects, Connect(o) \/ Listen(o) \/ Shutdown(o)
  PROVE  Safe'
<1>1. PICK st \in {"connected", "listening", "shut"} :
         /\ Handle(o) \in Handles /\ kernel[Handle(o)].status # "free"
         /\ kernel' = [kernel EXCEPT ![Handle(o)].status = st]
  BY DEF Connect, Listen, Shutdown
<1>2. UNCHANGED <<alive, shared, cell, state, history>>
  BY DEF Connect, Listen, Shutdown
<1>3. \A g \in Handles : /\ kernel'[g].status = "free" <=> kernel[g].status = "free"
                         /\ kernel'[g].nb = kernel[g].nb
                         /\ kernel'[g].linger = kernel[g].linger
  BY <1>1 DEF TypeOK, KernelSocket
<1>4. StateAgreesWithKernel'
  BY <1>2, <1>3, SameHandles DEF Safe, StateAgreesWithKernel, IsOpenHandle
<1>5. QED
  BY <1>2, <1>3, <1>4, KernelStepKeepsSafe

\* A reset by the peer keeps the inductive invariant.
LEMMA SafePeerReset ==
  ASSUME TypeOK, Safe, NEW h \in Handles, PeerReset(h)
  PROVE  Safe'
<1>1. \A g \in Handles : /\ kernel'[g].status = "free" <=> kernel[g].status = "free"
                         /\ kernel'[g].nb = kernel[g].nb
                         /\ kernel'[g].linger = kernel[g].linger
  BY DEF PeerReset, TypeOK, KernelSocket
<1>2. StateAgreesWithKernel'
  BY <1>1, SameHandles DEF PeerReset, Safe, StateAgreesWithKernel, IsOpenHandle
<1>3. QED
  BY <1>1, <1>2, KernelStepKeepsSafe DEF PeerReset

\* non_blocking() keeps it: the flag and the descriptor change together.
LEMMA SafeSetNonBlocking ==
  ASSUME TypeOK, Safe, NEW o \in Objects, NEW b \in BOOLEAN, SetNonBlocking(o, b)
  PROVE  Safe'
<1>1. /\ Handle(o) \in Handles /\ kernel[Handle(o)].status # "free"
      /\ kernel' = [kernel EXCEPT ![Handle(o)].nb = b]
      /\ state' = [state EXCEPT ![o] = IF b THEN @ \cup {"user_set_non_blocking"}
                                           ELSE @ \ {"user_set_non_blocking"}]
      /\ UNCHANGED <<alive, shared, cell, history>>
  BY DEF SetNonBlocking, IsOpenHandle
<1>2. \A g \in Handles : /\ kernel'[g].status = kernel[g].status
                         /\ kernel'[g].linger = kernel[g].linger
                         /\ g # Handle(o) => kernel'[g] = kernel[g]
  BY <1>1 DEF TypeOK, KernelSocket
<1>3. StateAgreesWithKernel'
  <2> SUFFICES ASSUME "copied" \notin history', NEW p \in Objects,
                      IsOpenHandle(Handle(p))', "possible_dup" \notin state'[p]
               PROVE  /\ kernel'[Handle(p)'].nb <=> "user_set_non_blocking" \in state'[p]
                      /\ kernel'[Handle(p)'].linger => "user_set_linger" \in state'[p]
    BY DEF StateAgreesWithKernel
  <2>1. Handle(p)' = Handle(p) /\ IsOpenHandle(Handle(p)) /\ "copied" \notin history
    BY <1>1, <1>2, SameHandles DEF IsOpenHandle
  <2>2. CASE p = o
    <3>1. "possible_dup" \notin state[o]
      BY <1>1, <2>2 DEF TypeOK
    <3>2. kernel[Handle(o)].linger => "user_set_linger" \in state[o]
      BY <2>1, <2>2, <3>1 DEF Safe, StateAgreesWithKernel
    <3>3. kernel'[Handle(o)].nb = b
      BY <1>1 DEF TypeOK, KernelSocket
    <3>4. "user_set_non_blocking" \in state'[o] <=> b
      BY <1>1 DEF TypeOK
    <3>5. "user_set_linger" \in state[o] => "user_set_linger" \in state'[o]
      BY <1>1 DEF TypeOK
    <3>6. QED
      BY <1>1, <1>2, <2>1, <2>2, <3>2, <3>3, <3>4, <3>5
  <2>3. CASE p # o
    <3>1. Handle(p) # Handle(o) /\ state'[p] = state[p]
      BY <1>1, <2>1, <2>3, DistinctHandles, InvalidNotHandle DEF TypeOK
    <3>2. QED
      BY <1>2, <2>1, <3>1 DEF Safe, StateAgreesWithKernel, IsOpenHandle
  <2>4. QED
    BY <2>2, <2>3
<1>4. QED
  BY <1>1, <1>2, <1>3, KernelStepKeepsSafe

\* set_option(linger) keeps it: the flag is set whenever the option is.
LEMMA SafeSetLinger ==
  ASSUME TypeOK, Safe, NEW o \in Objects, NEW b \in BOOLEAN, SetLinger(o, b)
  PROVE  Safe'
<1>1. /\ state' = [state EXCEPT ![o] = @ \cup {"user_set_linger"}]
      /\ UNCHANGED <<alive, shared, cell, history>>
      /\ kernel' = IF IsOpenHandle(Handle(o))
                   THEN [kernel EXCEPT ![Handle(o)].linger = b] ELSE kernel
  BY DEF SetLinger
<1>2. \A g \in Handles : /\ kernel'[g].status = kernel[g].status
                         /\ kernel'[g].nb = kernel[g].nb
                         /\ g # Handle(o) => kernel'[g] = kernel[g]
  BY <1>1 DEF TypeOK, KernelSocket, IsOpenHandle
<1>3. StateAgreesWithKernel'
  <2> SUFFICES ASSUME "copied" \notin history', NEW p \in Objects,
                      IsOpenHandle(Handle(p))', "possible_dup" \notin state'[p]
               PROVE  /\ kernel'[Handle(p)'].nb <=> "user_set_non_blocking" \in state'[p]
                      /\ kernel'[Handle(p)'].linger => "user_set_linger" \in state'[p]
    BY DEF StateAgreesWithKernel
  <2>1. Handle(p)' = Handle(p) /\ IsOpenHandle(Handle(p)) /\ "copied" \notin history
    BY <1>1, <1>2, SameHandles DEF IsOpenHandle
  <2>2. CASE p = o
    <3>1. /\ state'[o] = state[o] \cup {"user_set_linger"}
          /\ "possible_dup" \notin state[o]
      BY <1>1, <2>2 DEF TypeOK
    <3>2. kernel[Handle(o)].nb <=> "user_set_non_blocking" \in state[o]
      BY <2>1, <2>2, <3>1 DEF Safe, StateAgreesWithKernel
    <3>3. QED
      BY <1>2, <2>1, <2>2, <3>1, <3>2 DEF IsOpenHandle
  <2>3. CASE p # o
    <3>1. state'[p] = state[p]
      BY <1>1, <2>3 DEF TypeOK
    <3>2. kernel'[Handle(p)] = kernel[Handle(p)]
      BY <1>1, <1>2, <2>1, <2>3, DistinctHandles, InvalidNotHandle DEF IsOpenHandle
    <3>3. QED
      BY <2>1, <3>1, <3>2 DEF Safe, StateAgreesWithKernel
  <2>4. QED
    BY <2>2, <2>3
<1>4. QED
  BY <1>1, <1>2, <1>3, KernelStepKeepsSafe

\* Every call on one object keeps the inductive invariant.
LEMMA SafeOneObject ==
  ASSUME TypeOK, Safe, NEW o \in Objects, OneObject(o)
  PROVE  Safe'
<1>0. {} \in SUBSET Flags
  OBVIOUS
<1> USE KernelSocketTypes
<1>1. ASSUME Construct(o) PROVE Safe'
  <2>1. UNCHANGED <<shared, cell, state, kernel, history>> /\ alive' = alive \cup {o}
    BY <1>1 DEF Construct
  <2>2. \A p \in Objects : Handle(p)' = Handle(p)
    BY <2>1, SameHandles
  <2>3. DeadHoldNothing' /\ SharingIsNoted'
    BY <2>1 DEF Safe, DeadHoldNothing, SharingIsNoted, Holds
  <2>4. NoStaleHandle' /\ NoLeak'
    BY <2>1, <2>2 DEF Safe, NoStaleHandle, NoLeak, TypeOK
  <2>5. StateAgreesWithKernel'
    BY <2>1, <2>2 DEF Safe, StateAgreesWithKernel, IsOpenHandle
  <2>6. QED
    BY <2>3, <2>4, <2>5 DEF Safe
<1>2. ASSUME OpenFails(o) PROVE Safe'
  BY <1>0, <1>2, FailureKeepsSafe DEF OpenFails, TypeOK
<1>3. ASSUME NEW h \in Handles, OpenSucceeds(o, h) PROVE Safe'
  <2>1. FreshSocket.status # "free" /\ ~ FreshSocket.nb /\ ~ FreshSocket.linger
    BY DEF FreshSocket
  <2>2. QED
    BY <1>0, <1>3, <2>1, AcquireKeepsSafe DEF OpenSucceeds, TypeOK
<1>4. ASSUME NEW h \in Handles, Assign(o, h) PROVE Safe'
  <2>1. PICK nb \in BOOLEAN, linger \in BOOLEAN :
           kernel' = [kernel EXCEPT
                        ![h] = [status |-> "fresh", nb |-> nb, linger |-> linger]]
    BY <1>4 DEF Assign
  <2>2. {"possible_dup"} \in SUBSET Flags /\ "fresh" \in Statuses
    BY DEF Flags, Statuses
  <2>3. [status |-> "fresh", nb |-> nb, linger |-> linger] \in KernelSocket
    BY <2>2
  <2>4. QED
    BY <1>4, <2>1, <2>2, <2>3, AcquireKeepsSafe DEF Assign, TypeOK
<1>5. ASSUME Connect(o) \/ Listen(o) \/ Shutdown(o) PROVE Safe'
  BY <1>5, SafeKernelCalls
<1>6. ASSUME ConnectOpens(o) PROVE Safe'
  <2>1. ASSUME NEW h \in Handles, NEW st \in {"fresh", "connected"},
               o \in alive, kernel[h].status = "free",
               kernel' = [kernel EXCEPT ![h] = [FreshSocket EXCEPT !.status = st]],
               HoldsSocket(o, h),
               state' = [state EXCEPT ![o] = {}],
               UNCHANGED alive
        PROVE  Safe'
    <3>1. /\ [FreshSocket EXCEPT !.status = st] \in KernelSocket
          /\ [FreshSocket EXCEPT !.status = st].status # "free"
          /\ ~ [FreshSocket EXCEPT !.status = st].nb
          /\ ~ [FreshSocket EXCEPT !.status = st].linger
      BY DEF FreshSocket, KernelSocket, Statuses
    <3>2. QED
      BY <1>0, <2>1, <3>1, AcquireKeepsSafe DEF TypeOK
  <2>2. QED
    BY <1>2, <1>6, <2>1 DEF ConnectOpens
<1>7. ASSUME NEW b \in BOOLEAN, SetNonBlocking(o, b) \/ SetLinger(o, b) PROVE Safe'
  BY <1>7, SafeSetNonBlocking, SafeSetLinger
<1>8. ASSUME Close(o) \/ DestroyCloseThrows(o) PROVE Safe'
  <2>1. PICK result :
           /\ CloseAndReset(o, result)
           /\ \/ history' = Note("shared_close", IsOpenHandle(Handle(o)) /\ ~ SoleOwner(o))
                             \cup Note("lost", LeftOpen(o, result))
              \/ /\ SoleOwner(o)
                 /\ history' = Note("failed_end", result = "failed")
                                \cup Note("lost", LeftOpen(o, result))
    BY <1>8 DEF Close, DestroyCloseThrows
  <2>2. /\ history \subseteq history'
        /\ "copied" \in history' => "copied" \in history
        /\ "shared_close" \in history' =>
              "shared_close" \in history \/ (IsOpenHandle(Handle(o)) /\ ~ SoleOwner(o))
        /\ LeftOpen(o, result) => "lost" \in history'
        /\ IsOpenHandle(Handle(o)) => SoleOwner(o) \/ "shared_close" \in history'
    BY <2>1 DEF Note
  <2>3. Handle(o) \in Handles /\ kernel'[Handle(o)].status # "free" =>
           ~ SoleOwner(o) \/ "lost" \in history'
    BY <2>1, <2>2, CloseAndResetEffect DEF LeftOpen
  <2>4. /\ shared' = [shared EXCEPT ![o] = NullPtr] /\ cell' = Settle(shared', cell)
        /\ alive' = alive
    BY <1>8, <2>1 DEF CloseAndReset, Close, DestroyCloseThrows
  <2> QED
    BY <2>1, <2>2, <2>3, <2>4, CloseAndResetEffect, DropKeepsSafe
<1>9. ASSUME DestroySharer(o) PROVE Safe'
  <2>1. /\ shared' = [shared EXCEPT ![o] = NullPtr] /\ cell' = Settle(shared', cell)
        /\ alive' = alive \ {o} /\ UNCHANGED <<kernel, history>> /\ ~ SoleOwner(o)
    BY <1>9 DEF DestroySharer, Gone
  <2>2. \A p \in Objects \ {o} : state'[p] = state[p]
    BY <1>9 DEF DestroySharer, Gone, TypeOK
  <2> QED
    BY <2>1, <2>2, DropKeepsSafe
<1>10. ASSUME DestroyOwner(o) PROVE Safe'
  <2>1. /\ shared' = [shared EXCEPT ![o] = NullPtr] /\ cell' = Settle(shared', cell)
        /\ alive' = alive \ {o} /\ UNCHANGED history /\ SoleOwner(o)
    BY <1>10 DEF DestroyOwner, Gone
  <2>2. \A p \in Objects \ {o} : state'[p] = state[p]
    BY <1>10 DEF DestroyOwner, Gone, TypeOK
  <2> QED
    BY <1>10, <2>1, <2>2, DestroyOwnerEffect, DropKeepsSafe
<1>11. ASSUME DestroyTerminates(o) PROVE Safe'
  BY <1>11, SameHandles
  DEF DestroyTerminates, Safe, DeadHoldNothing, SharingIsNoted, NoStaleHandle, NoLeak,
      StateAgreesWithKernel, IsOpenHandle, Holds, TypeOK
<1>12. QED
  BY <1>1, <1>2, <1>3, <1>4, <1>5, <1>6, <1>7, <1>8, <1>9, <1>10, <1>11 DEF OneObject

\* Accepting, copying and moving keep the inductive invariant.
LEMMA SafeTwoObjects ==
  ASSUME TypeOK, Safe, NEW o \in Objects, NEW n \in Objects, TwoObjects(o, n)
  PROVE  Safe'
<1>1. {"possible_dup"} \in SUBSET Flags
  BY DEF Flags
<1>2. ASSUME AcceptFails(o, n) PROVE Safe'
  BY <1>1, <1>2, FailureKeepsSafe DEF AcceptFails, TypeOK
<1>3. ASSUME NEW h \in Handles, AcceptSucceeds(o, n, h) PROVE Safe'
  <2>1. kernel[Handle(o)] \in KernelSocket
    BY <1>3 DEF AcceptSucceeds, TypeOK
  <2>2. PICK nb \in {FALSE, kernel[Handle(o)].nb}, linger \in {FALSE, kernel[Handle(o)].linger} :
           kernel' = [kernel EXCEPT
                        ![h] = [status |-> "connected", nb |-> nb, linger |-> linger]]
    BY <1>3 DEF AcceptSucceeds
  <2>3. [status |-> "connected", nb |-> nb, linger |-> linger] \in KernelSocket
    BY <2>1 DEF KernelSocket, Statuses
  <2>4. QED
    BY <1>1, <1>3, <2>2, <2>3, AcquireKeepsSafe DEF AcceptSucceeds, TypeOK
<1>4. ASSUME CopyConstruct(o, n) \/ CopyAssign(o, n) PROVE Safe'
  BY <1>4, CopyKeepsSafe DEF CopyConstruct, CopyAssign, TypeOK
<1>5. ASSUME MoveConstruct(o, n) \/ MoveAssign(o, n) PROVE Safe'
  BY <1>5, MoveKeepsSafe DEF MoveConstruct, MoveAssign, TypeOK
<1>6. QED
  BY <1>2, <1>3, <1>4, <1>5 DEF TwoObjects

\* Every step keeps the inductive invariant.
LEMMA SafeNext == TypeOK /\ Safe /\ [Next]_vars => Safe'
<1> SUFFICES ASSUME TypeOK, Safe, [Next]_vars PROVE Safe'
  OBVIOUS
<1>1. CASE UNCHANGED vars
  BY <1>1, SameHandles
  DEF vars, Safe, DeadHoldNothing, SharingIsNoted, NoStaleHandle, NoLeak,
      StateAgreesWithKernel, IsOpenHandle, Holds, TypeOK
<1>2. QED
  BY <1>1, SafeOneObject, SafeTwoObjects, SafePeerReset DEF Next

\* The inductive invariant holds when no object exists.
LEMMA SafeInit == Init => Safe
BY InvalidNotHandle
DEF Init, Safe, DeadHoldNothing, SharingIsNoted, NoStaleHandle, NoLeak,
    StateAgreesWithKernel, IsOpenHandle, Handle, Holds, FreeHandle

\* The inductive invariant holds throughout.
LEMMA SafeAlways == Spec => [](TypeOK /\ Safe)
<1>1. QED
  BY TypeInit, TypeNext, SafeInit, SafeNext, PTL DEF Spec

\* No object names a closed descriptor, and none names another's, as long as
\* close() is only called on sole owners.
THEOREM NoStaleHandleAlways == Spec => []NoStaleHandle
<1>1. Safe => NoStaleHandle
  BY DEF Safe
<1>2. QED
  BY <1>1, SafeAlways, PTL

\* A descriptor is only lost by opening or assigning over its last owner, or by
\* a ::close that failed and left it open.
THEOREM NoLeakAlways == Spec => []NoLeak
<1>1. Safe => NoLeak
  BY DEF Safe
<1>2. QED
  BY <1>1, SafeAlways, PTL

\* The flags of a socket that was never copied agree with its descriptor.
THEOREM StateAgreesAlways == Spec => []StateAgreesWithKernel
<1>1. Safe => StateAgreesWithKernel
  BY DEF Safe
<1>2. QED
  BY <1>1, SafeAlways, PTL

\* The destructor ends the program only over a handle that is invalid, closed
\* or reset by the peer, or when the system fails to close the descriptor.
THEOREM TerminationCauseAlways == Spec => []TerminationCause
<1>1. Init => TerminationCause
  BY DEF Init, TerminationCause
<1>2. TypeOK /\ TerminationCause /\ [Next]_vars => TerminationCause'
  <2> SUFFICES ASSUME TypeOK, TerminationCause, [Next]_vars, ~ running'
               PROVE  TerminationCause'
    BY DEF TerminationCause
  <2>1. CASE UNCHANGED vars
    BY <2>1 DEF vars, TerminationCause, SoleOwner, Holds, Handle, IsOpenHandle
  <2>2. CASE Next
    <3>1. PICK o \in Objects : DestroyTerminates(o) \/ DestroyCloseThrows(o)
      BY <2>2
      DEF Next, OneObject, TwoObjects, Construct, OpenFails, OpenSucceeds, Assign,
          AcceptFails, AcceptSucceeds, Connect, ConnectOpens, Copy, CopyConstruct,
          CopyAssign, Move, MoveConstruct, MoveAssign, Listen, SetNonBlocking, SetLinger,
          Shutdown, PeerReset, Close, Gone, DestroySharer, DestroyOwner
    <3>2. CASE DestroyTerminates(o)
      <4>1. PICK result \in ShutdownResults(Handle(o)) : ~ Tolerated(result)
        BY <3>2 DEF DestroyTerminates
      <4>2. IsOpenHandle(Handle(o)) => kernel[Handle(o)].status = "reset"
        BY <4>1, InvalidNotHandle
        DEF ShutdownResults, Tolerated, IsOpenHandle, TypeOK, KernelSocket, Statuses
      <4>3. UNCHANGED <<alive, shared, cell, kernel>> /\ o \in alive /\ SoleOwner(o)
        BY <3>2 DEF DestroyTerminates
      <4> QED
        BY <4>2, <4>3 DEF TerminationCause, SoleOwner, Holds, Handle, IsOpenHandle
    <3>3. CASE DestroyCloseThrows(o)
      <4>1. PICK result \in CloseResults(Handle(o)) \ {"success"} :
               history' = Note("failed_end", result = "failed")
                            \cup Note("lost", LeftOpen(o, result))
        BY <3>3 DEF DestroyCloseThrows
      <4>2. PICK answer \in ShutdownResults(Handle(o)) : Tolerated(answer)
        BY <3>3 DEF DestroyCloseThrows, ShutdownTolerated
      <4>3. IsOpenHandle(Handle(o))
        BY <4>2, HandleType
        DEF AnyHandle, ShutdownResults, Tolerated, IsOpenHandle, TypeOK, KernelSocket,
            Statuses
      <4>4. result = "failed"
        BY <4>1, <4>3, InvalidNotHandle DEF CloseResults, SystemAnswers, IsOpenHandle
      <4> QED
        BY <4>1, <4>4 DEF Note, TerminationCause
    <3> QED
      BY <3>1, <3>2, <3>3
  <2>3. QED
    BY <2>1, <2>2
<1>3. QED
  BY <1>1, <1>2, TypeCorrect, PTL DEF Spec

-----------------------------------------------------------------------------
(* The disciplined socket implements SocketOwnership.  That the open        *)
(* descriptors are the held ones holds in every state, by NoStaleHandle and *)
(* NoLeak; what remains is how each kind of call moves the objects from one *)
(* descriptor to another.                                                   *)

Disciplined == TypeOK /\ Safe /\ FollowsRules

\* A descriptor is open when an object names it, and only then.
LEMMA OpenedIsHeld ==
  ASSUME Disciplined
  PROVE  \A h \in Handles : kernel[h].status # "free" <=> HoldersOf(h) # {}
BY InvalidNotHandle
DEF Disciplined, Safe, FollowsRules, NoStaleHandle, NoLeak, HoldersOf, TypeOK

\* Who holds a descriptor alone is the last owner of it: nobody else can reach
\* it through the same cell.
LEMMA AloneIsLastOwner ==
  ASSUME Disciplined, NEW o \in Objects, ~ LastOwner(o), NEW h \in Handles
  PROVE  HoldersOf(h) # {o}
<1> SUFFICES ASSUME HoldersOf(h) = {o} PROVE FALSE
  OBVIOUS
<1>1. Handle(o) = h /\ \A p \in Objects \ {o} : Handle(p) # h
  BY DEF HoldersOf
<1>2. SoleOwner(o)
  BY <1>1, InvalidNotHandle DEF SoleOwner, Holds, Handle
<1>3. IsOpenHandle(h)
  BY OpenedIsHeld DEF IsOpenHandle
<1> QED
  BY <1>1, <1>2, <1>3 DEF LastOwner

\* After a step the open descriptors are the held ones again.
LEMMA OpenAgain == Disciplined' => Ownership!OpenIffHeld
<1> SUFFICES ASSUME Disciplined' PROVE Ownership!OpenIffHeld
  OBVIOUS
<1>1. \A h \in Handles : kernel'[h].status # "free" <=> HoldersOf(h)' # {}
  BY InvalidNotHandle
  DEF Disciplined, Safe, FollowsRules, NoStaleHandle, NoLeak, HoldersOf, TypeOK
<1> QED
  BY <1>1 DEF Ownership!OpenIffHeld

-----------------------------------------------------------------------------
(* The kinds of step.                                                      *)

\* A step after which every object sees what it saw is a stutter.
LEMMA SeenIsSame ==
  ASSUME Disciplined, Disciplined', \A p \in Objects : Handle(p)' = Handle(p)
  PROVE  UNCHANGED Ownership!ownership
<1>1. \A h \in Handles : HoldersOf(h)' = HoldersOf(h)
  BY DEF HoldersOf
<1>2. \A h \in Handles : kernel'[h].status # "free" <=> kernel[h].status # "free"
  BY <1>1, OpenedIsHeld, OpenAgain DEF Ownership!OpenIffHeld
<1> QED
  BY <1>1, <1>2 DEF Ownership!ownership

\* A step after which o sees nothing releases what o held.
LEMMA SeesNothing ==
  ASSUME Disciplined, Disciplined', NEW o \in Objects,
         Handle(o)' = InvalidSocket,
         \A p \in Objects \ {o} : Handle(p)' = Handle(p)
  PROVE  Ownership!Release(o)
<1>1. \A h \in Handles : HoldersOf(h)' = HoldersOf(h) \ {o}
  BY InvalidNotHandle DEF HoldersOf
<1> QED
  BY <1>1, OpenAgain DEF Ownership!Release

\* A step that gives o a new descriptor acquires it.
LEMMA SeesNew ==
  ASSUME Disciplined, Disciplined', NEW o \in Objects, NEW h \in Handles,
         kernel[h].status = "free", HoldsSocket(o, h)
  PROVE  Ownership!Acquire(o, h)
<1>1. Handle(o)' = h /\ \A p \in Objects \ {o} : Handle(p)' = Handle(p)
  BY HoldsSocketEffect DEF Disciplined, AnyHandle
<1>2. HoldersOf(h) = {}
  BY OpenedIsHeld
<1>3. \A g \in Handles : HoldersOf(g)' = IF g = h THEN {o} ELSE HoldersOf(g) \ {o}
  BY <1>1, <1>2 DEF HoldersOf
<1>4. ~ LastOwner(o)
  BY DEF HoldsSocket, Note, Disciplined, FollowsRules
<1>5. \A g \in Handles : HoldersOf(g) # {o}
  BY <1>4, AloneIsLastOwner
<1> QED
  BY <1>3, <1>5, OpenAgain DEF Ownership!Acquire

\* A step that puts invalid_socket in a new cell for o is a release.
LEMMA SeesFailure ==
  ASSUME Disciplined, Disciplined', NEW o \in Objects, HoldsSocket(o, InvalidSocket)
  PROVE  Ownership!Release(o)
<1>1. Handle(o)' = InvalidSocket /\ \A p \in Objects \ {o} : Handle(p)' = Handle(p)
  BY HoldsSocketEffect DEF Disciplined, AnyHandle
<1> QED
  BY <1>1, SeesNothing

\* A copy shares, and a copy of an object to itself does nothing.
LEMMA SeesCopy ==
  ASSUME Disciplined, Disciplined', NEW o \in Objects, NEW n \in Objects, Copy(o, n)
  PROVE  Ownership!Share(o, n) \/ UNCHANGED Ownership!ownership
<1>1. /\ Handle(n)' = Handle(o)
      /\ \A p \in Objects \ {n} : Handle(p)' = Handle(p)
  BY CopyEffect DEF Copy, Disciplined
<1>2. CASE o = n
  BY <1>1, <1>2, SeenIsSame
<1>3. CASE o # n
  <2>1. \A g \in Handles :
           HoldersOf(g)' = IF o \in HoldersOf(g) THEN HoldersOf(g) \cup {n}
                           ELSE HoldersOf(g) \ {n}
    BY <1>1 DEF HoldersOf
  <2>2. ~ LastOwner(n)
    BY <1>3 DEF Copy, Note, Disciplined, FollowsRules
  <2>3. \A g \in Handles : HoldersOf(g) # {n}
    BY <2>2, AloneIsLastOwner
  <2> QED
    BY <2>1, <2>3, OpenAgain DEF Ownership!Share
<1> QED
  BY <1>2, <1>3

\* A move hands over, and a move of an object to itself keeps its descriptor.
LEMMA SeesMove ==
  ASSUME Disciplined, Disciplined', NEW o \in Objects, NEW n \in Objects, Move(o, n)
  PROVE  Ownership!HandOver(o, n) \/ UNCHANGED Ownership!ownership
<1>1. CASE o = n
  BY <1>1, SameHandles, SeenIsSame DEF Move, Disciplined
<1>2. CASE o # n
  <2>1. /\ Handle(n)' = Handle(o) /\ Handle(o)' = InvalidSocket
        /\ \A p \in Objects \ {o, n} : Handle(p)' = Handle(p)
    BY <1>2, MoveEffect DEF Move, Disciplined
  <2>2. \A g \in Handles :
           HoldersOf(g)' = IF o \in HoldersOf(g) THEN (HoldersOf(g) \ {o}) \cup {n}
                           ELSE HoldersOf(g) \ {n}
    BY <1>2, <2>1, InvalidNotHandle DEF HoldersOf
  <2>3. ~ LastOwner(n)
    BY <1>2 DEF Move, Note, Disciplined, FollowsRules
  <2>4. \A g \in Handles : HoldersOf(g) # {n}
    BY <2>3, AloneIsLastOwner
  <2> QED
    BY <2>2, <2>4, OpenAgain DEF Ownership!HandOver
<1> QED
  BY <1>1, <1>2

\* A step that touches no pointer and no cell is a stutter.
LEMMA SeesNoChange ==
  ASSUME Disciplined, Disciplined', UNCHANGED <<shared, cell>>
  PROVE  UNCHANGED Ownership!ownership
BY SameHandles, SeenIsSame DEF Disciplined

-----------------------------------------------------------------------------
(* The refinement.                                                         *)

\* Every call on one object is a step of the shared ownership, or none.
LEMMA ImplementsOneObject ==
  ASSUME Disciplined, Disciplined', NEW o \in Objects, OneObject(o)
  PROVE  [Ownership!Next]_(Ownership!ownership)
<1>1. CASE \/ Construct(o) \/ Connect(o) \/ Listen(o) \/ Shutdown(o) \/ DestroyTerminates(o)
           \/ \E b \in BOOLEAN : SetNonBlocking(o, b) \/ SetLinger(o, b)
  BY <1>1, SeesNoChange
  DEF Construct, Connect, Listen, Shutdown, DestroyTerminates, SetNonBlocking, SetLinger
<1>2. CASE OpenFails(o)
  BY <1>2, SeesFailure DEF OpenFails, Ownership!Next
<1>3. CASE \E h \in Handles : OpenSucceeds(o, h) \/ Assign(o, h)
  BY <1>3, SeesNew DEF OpenSucceeds, Assign, Ownership!Next
<1>4. CASE ConnectOpens(o)
  BY <1>2, <1>4, SeesNew DEF ConnectOpens, Ownership!Next
<1>5. CASE Close(o) \/ DestroySharer(o) \/ DestroyOwner(o) \/ DestroyCloseThrows(o)
  <2>1. shared' = [shared EXCEPT ![o] = NullPtr] /\ cell' = Settle(shared', cell)
    BY <1>5
    DEF Close, DestroyCloseThrows, CloseAndReset, DestroySharer, DestroyOwner, Gone
  <2>2. Handle(o)' = InvalidSocket /\ \A p \in Objects \ {o} : Handle(p)' = Handle(p)
    BY <2>1, DropEffect DEF Disciplined
  <2> QED
    BY <2>2, SeesNothing DEF Ownership!Next
<1> QED
  BY <1>1, <1>2, <1>3, <1>4, <1>5 DEF OneObject

\* So is every accept, copy and move.
LEMMA ImplementsTwoObjects ==
  ASSUME Disciplined, Disciplined', NEW o \in Objects, NEW n \in Objects, TwoObjects(o, n)
  PROVE  [Ownership!Next]_(Ownership!ownership)
<1>1. CASE AcceptFails(o, n)
  BY <1>1, SeesFailure DEF AcceptFails, Ownership!Next
<1>2. CASE \E h \in Handles : AcceptSucceeds(o, n, h)
  BY <1>2, SeesNew DEF AcceptSucceeds, Ownership!Next
<1>3. CASE CopyConstruct(o, n) \/ CopyAssign(o, n)
  BY <1>3, SeesCopy DEF CopyConstruct, CopyAssign, Ownership!Next
<1>4. CASE MoveConstruct(o, n) \/ MoveAssign(o, n)
  BY <1>4, SeesMove DEF MoveConstruct, MoveAssign, Ownership!Next
<1> QED
  BY <1>1, <1>2, <1>3, <1>4 DEF TwoObjects

\* Every step of the disciplined program is one of the shared ownership.
LEMMA ImplementsNext ==
  Disciplined /\ Disciplined' /\ [DisciplinedNext]_vars
    => [Ownership!Next]_(Ownership!ownership)
<1> SUFFICES ASSUME Disciplined, Disciplined', [DisciplinedNext]_vars
             PROVE  [Ownership!Next]_(Ownership!ownership)
  OBVIOUS
<1>1. CASE UNCHANGED vars
  BY <1>1, SeesNoChange DEF vars
<1>2. ASSUME NEW h \in Handles, PeerReset(h)
      PROVE  [Ownership!Next]_(Ownership!ownership)
  BY <1>2, SeesNoChange DEF PeerReset
<1> QED
  BY <1>1, <1>2, ImplementsOneObject, ImplementsTwoObjects DEF DisciplinedNext, Next

\* Before any object exists nothing is held and nothing is open.
LEMMA ImplementsInit == Init => Ownership!Init
BY InvalidNotHandle
DEF Init, Ownership!Init, HoldersOf, Handle, Holds, FreeHandle

\* The rules, and the invariants of basic_socket, hold throughout.
LEMMA DisciplinedAlways == DisciplinedSpec => []Disciplined
<1>1. Init => Disciplined
  BY TypeInit, SafeInit DEF Disciplined, FollowsRules, Init
<1>2. Disciplined /\ [DisciplinedNext]_vars => Disciplined'
  <2> SUFFICES ASSUME Disciplined, [DisciplinedNext]_vars PROVE Disciplined'
    OBVIOUS
  <2>1. TypeOK' /\ Safe'
    BY TypeNext, SafeNext DEF Disciplined, DisciplinedNext
  <2>2. FollowsRules'
    BY DEF Disciplined, DisciplinedNext, FollowsRules, vars
  <2> QED
    BY <2>1, <2>2 DEF Disciplined
<1> QED
  BY <1>1, <1>2, PTL DEF DisciplinedSpec

\* A program that closes only what it owns alone and never opens or assigns
\* over its last descriptor gets shared ownership from basic_socket: open while
\* some object holds it, closed when the last lets go.
THEOREM OwnershipImplemented == DisciplinedSpec => ImplementsOwnership
<1>1. DisciplinedSpec => [][Ownership!Next]_(Ownership!ownership)
  BY ImplementsNext, DisciplinedAlways, PTL DEF DisciplinedSpec
<1> QED
  BY <1>1, ImplementsInit, PTL DEF DisciplinedSpec, ImplementsOwnership, Ownership!Spec
=============================================================================
