---------------------------- MODULE BasicSocket ----------------------------
(***************************************************************************)
(* The life of basic_socket objects (NetLite/basic_socket.hpp) and of the  *)
(* native descriptors they name.  A basic_socket keeps its descriptor in a *)
(* heap cell held through a shared_ptr, so copies share the cell; _state   *)
(* and _open are members, so every copy has its own.  The destructor       *)
(* closes the descriptor when the shared_ptr's use count is one, close()   *)
(* closes it at once, and nothing else does.  A ::close that fails makes   *)
(* close() throw, which ends the program when the destructor called it.    *)
(*                                                                         *)
(* The operating system is the table kernel: a native handle is free, or a *)
(* socket in one of the statuses below, and a closed handle may be given   *)
(* out again by the next ::socket or ::accept.                             *)
(***************************************************************************)
CONSTANTS
  Objects,        \* basic_socket objects, constructed or not
  Cells,          \* heap cells a shared_ptr<native_handle_type> can point to
  Handles,        \* native handle values of the process
  InvalidSocket,  \* invalid_socket
  NullPtr         \* the empty shared_ptr

ASSUME CoreAssumption ==
  /\ InvalidSocket \notin Handles
  /\ NullPtr \notin Cells

VARIABLES
  alive,    \* the objects constructed and not yet destroyed
  shared,   \* _shared_socket: the cell each object points to
  cell,     \* the native handle in each cell
  state,    \* _state: the flags that depend on what was called
  open,     \* _open
  kernel,   \* the operating system's table of sockets
  running,  \* FALSE once std::terminate has been called
  history   \* history variable: which calls of the kinds below were made

vars == <<alive, shared, cell, state, open, kernel, running, history>>

Flags == {"user_set_non_blocking", "user_set_linger", "possible_dup"}

Statuses == {"free", "fresh", "listening", "connected", "shut", "reset"}

KernelSocket == [status : Statuses, nb : BOOLEAN, linger : BOOLEAN]

FreeHandle  == [status |-> "free", nb |-> FALSE, linger |-> FALSE]
FreshSocket == [status |-> "fresh", nb |-> FALSE, linger |-> FALSE]

\* "copied": an object holding a descriptor was copied.  "shared_close":
\* close() was called on an object that was not the only owner of its
\* descriptor.  "lost": the only owner of an open descriptor was opened again
\* or assigned to, or let go of it after ::close had failed, for a reason that
\* is not EWOULDBLOCK, and had left it open.  "failed_end": ::close failed so
\* in a destructor.
Calls == {"copied", "shared_close", "lost", "failed_end"}

TypeOK ==
  /\ alive \subseteq Objects
  /\ shared \in [Objects -> Cells \cup {NullPtr}]
  /\ cell \in [Cells -> Handles \cup {InvalidSocket}]
  /\ state \in [Objects -> SUBSET Flags]
  /\ open \in [Objects -> BOOLEAN]
  /\ kernel \in [Handles -> KernelSocket]
  /\ running \in BOOLEAN
  /\ history \subseteq Calls

-----------------------------------------------------------------------------
Holds(o) == shared[o] # NullPtr

\* native_handle()
Handle(o) == IF Holds(o) THEN cell[shared[o]] ELSE InvalidSocket

\* _shared_socket.use_count() == 1
SoleOwner(o) ==
  /\ Holds(o)
  /\ \A p \in Objects \ {o} : shared[p] # shared[o]

IsOpenHandle(h) == h \in Handles /\ kernel[h].status # "free"

\* o is the last way to reach an open descriptor through its cell.
LastOwner(o) == SoleOwner(o) /\ IsOpenHandle(Handle(o))

\* Fault: a deleted cell is left with a null pointer in it.
SettleNull(p, values) ==
  [c \in Cells |-> IF \E o \in Objects : p[o] = c THEN values[c] ELSE NullPtr]

\* The cells after a step that leaves the objects with the pointers p: a cell
\* no object points to any more is deleted.
Settle(p, values) ==
  [c \in Cells |-> IF \E o \in Objects : p[o] = c THEN values[c] ELSE InvalidSocket]

Note(call, condition) == IF condition THEN history \cup {call} ELSE history

-----------------------------------------------------------------------------
(* Acquiring a descriptor.                                                 *)

\* holdsSocket(): a new cell for h; the old pointer is dropped, and the
\* descriptor in the old cell is not closed even if o was its last owner.
HoldsSocket(o, h) ==
  /\ \E c \in Cells :
        /\ \A p \in Objects \ {o} : shared[p] # c
        /\ shared' = [shared EXCEPT ![o] = c]
        /\ cell' = Settle(shared', [cell EXCEPT ![c] = h])
  /\ history' = Note("lost", LastOwner(o))

Construct(o) ==
  /\ o \notin alive
  /\ alive' = alive \cup {o}
  /\ UNCHANGED <<shared, cell, state, open, kernel, running, history>>

\* open() when ::socket succeeds with the handle h.
OpenSucceeds(o, h) ==
  /\ o \in alive
  /\ kernel[h].status = "free"
  /\ kernel' = [kernel EXCEPT ![h] = FreshSocket]
  /\ HoldsSocket(o, h)
  /\ state' = [state EXCEPT ![o] = {}]
  /\ open' = [open EXCEPT ![o] = TRUE]
  /\ UNCHANGED <<alive, running>>

\* open() when ::socket fails: invalid_socket is put in a cell all the same,
\* _state is overwritten, and _open keeps the value it had.
OpenFails(o) ==
  /\ o \in alive
  /\ HoldsSocket(o, InvalidSocket)
  /\ state' = [state EXCEPT ![o] = {}]
  /\ UNCHANGED <<alive, open, kernel, running>>

\* assign() of a native socket the caller has just made and hands over; the
\* caller may have put it in non-blocking mode or set linger on it.
Assign(o, h) ==
  /\ o \in alive
  /\ kernel[h].status = "free"
  /\ \E nb, linger \in BOOLEAN :
        kernel' = [kernel EXCEPT ![h] = [status |-> "fresh", nb |-> nb, linger |-> linger]]
  /\ HoldsSocket(o, h)
  /\ state' = [state EXCEPT ![o] = {"possible_dup"}]
  /\ open' = [open EXCEPT ![o] = TRUE]
  /\ UNCHANGED <<alive, running>>

\* accept() on o when ::accept succeeds; n is the object returned.  Whether an
\* accepted socket inherits the listener's non-blocking mode and linger option
\* depends on the platform.
AcceptSucceeds(o, n, h) ==
  /\ o \in alive /\ n \notin alive
  /\ Handle(o) \in Handles /\ kernel[Handle(o)].status = "listening"
  /\ kernel[h].status = "free"
  /\ \E nb \in {FALSE, kernel[Handle(o)].nb}, linger \in {FALSE, kernel[Handle(o)].linger} :
        kernel' = [kernel EXCEPT
                     ![h] = [status |-> "connected", nb |-> nb, linger |-> linger]]
  /\ HoldsSocket(n, h)
  /\ state' = [state EXCEPT ![n] = {"possible_dup"}]
  /\ open' = [open EXCEPT ![n] = TRUE]
  /\ alive' = alive \cup {n}
  /\ UNCHANGED running

\* accept() when sync_accept fails, whatever the reason: the object returned
\* holds invalid_socket, and its _open is never written: the constructor it
\* comes from does not initialise it and assign() sets it only on success.
AcceptFails(o, n) ==
  /\ o \in alive /\ n \notin alive
  /\ HoldsSocket(n, InvalidSocket)
  /\ state' = [state EXCEPT ![n] = {"possible_dup"}]
  /\ \E garbage \in BOOLEAN : open' = [open EXCEPT ![n] = garbage]
  /\ alive' = alive \cup {n}
  /\ UNCHANGED <<kernel, running>>

\* connect() on an open socket.  A failed connect leaves the socket as it was.
Connect(o) ==
  /\ o \in alive /\ open[o]
  /\ Handle(o) \in Handles /\ kernel[Handle(o)].status = "fresh"
  /\ kernel' = [kernel EXCEPT ![Handle(o)].status = "connected"]
  /\ UNCHANGED <<alive, shared, cell, state, open, running, history>>

\* connect() on a socket that is not open opens it first.  When the open fails
\* the call throws, and the socket is left as open() left it.
ConnectOpens(o) ==
  /\ ~ open[o]
  /\ \/ \E h \in Handles :
          /\ o \in alive
          /\ kernel[h].status = "free"
          /\ \E st \in {"fresh", "connected"} :
                kernel' = [kernel EXCEPT ![h] = [FreshSocket EXCEPT !.status = st]]
          /\ HoldsSocket(o, h)
          /\ state' = [state EXCEPT ![o] = {}]
          /\ open' = [open EXCEPT ![o] = TRUE]
          /\ UNCHANGED <<alive, running>>
     \/ OpenFails(o)

-----------------------------------------------------------------------------
(* Copying and moving.  A self-assignment is the case o = n.               *)

\* copy(): the members of o, and a reference to the same cell, go to n.
Copy(o, n) ==
  /\ shared' = [shared EXCEPT ![n] = shared[o]]
  /\ cell' = Settle(shared', cell)
  /\ open' = [open EXCEPT ![n] = open[o]]
  /\ state' = [state EXCEPT ![n] = state[o]]
  /\ history' = Note("copied", Holds(o) /\ o # n)
                  \cup Note("lost", LastOwner(n) /\ o # n)
  /\ UNCHANGED <<kernel, running>>

CopyConstruct(o, n) ==
  /\ o \in alive /\ n \notin alive
  /\ Copy(o, n)
  /\ alive' = alive \cup {n}

CopyAssign(o, n) ==
  /\ {o, n} \subseteq alive
  /\ Copy(o, n)
  /\ UNCHANGED alive

\* Fault: a move leaves _state behind.
MoveLeavesState(o, n) ==
  /\ shared' = IF o = n THEN shared
               ELSE [shared EXCEPT ![n] = shared[o], ![o] = NullPtr]
  /\ cell' = Settle(shared', cell)
  /\ open' = [open EXCEPT ![n] = open[o], ![o] = FALSE]
  /\ history' = Note("lost", LastOwner(n) /\ o # n)
  /\ UNCHANGED <<state, kernel, running>>

\* move(): the shared_ptr is moved and other._open is cleared last, so that a
\* self-move keeps the cell and loses _open.
Move(o, n) ==
  /\ shared' = IF o = n THEN shared
               ELSE [shared EXCEPT ![n] = shared[o], ![o] = NullPtr]
  /\ cell' = Settle(shared', cell)
  /\ open' = [open EXCEPT ![n] = open[o], ![o] = FALSE]
  /\ state' = [state EXCEPT ![n] = state[o]]
  /\ history' = Note("lost", LastOwner(n) /\ o # n)
  /\ UNCHANGED <<kernel, running>>

MoveConstruct(o, n) ==
  /\ o \in alive /\ n \notin alive
  /\ Move(o, n)
  /\ alive' = alive \cup {n}

MoveAssign(o, n) ==
  /\ {o, n} \subseteq alive
  /\ Move(o, n)
  /\ UNCHANGED alive

-----------------------------------------------------------------------------
(* Options, modes and the connection.                                      *)

\* listen() on a bound or unbound socket.
Listen(o) ==
  /\ o \in alive
  /\ Handle(o) \in Handles /\ kernel[Handle(o)].status = "fresh"
  /\ kernel' = [kernel EXCEPT ![Handle(o)].status = "listening"]
  /\ UNCHANGED <<alive, shared, cell, state, open, running, history>>

\* non_blocking(mode): the flag follows the kernel only when the call succeeds.
SetNonBlocking(o, mode) ==
  /\ o \in alive
  /\ IsOpenHandle(Handle(o))
  /\ kernel' = [kernel EXCEPT ![Handle(o)].nb = mode]
  /\ state' = [state EXCEPT
                 ![o] = IF mode THEN @ \cup {"user_set_non_blocking"}
                                ELSE @ \ {"user_set_non_blocking"}]
  /\ UNCHANGED <<alive, shared, cell, open, running, history>>

\* set_option(linger(on, ...)): the flag is set before ::setsockopt is tried,
\* whatever it answers, and is never cleared.
SetLinger(o, on) ==
  /\ o \in alive
  /\ Handle(o) # InvalidSocket
  /\ state' = [state EXCEPT ![o] = @ \cup {"user_set_linger"}]
  /\ kernel' = IF IsOpenHandle(Handle(o))
               THEN [kernel EXCEPT ![Handle(o)].linger = on] ELSE kernel
  /\ UNCHANGED <<alive, shared, cell, open, running, history>>

\* shutdown(shutdown_both).
Shutdown(o) ==
  /\ o \in alive
  /\ Handle(o) \in Handles /\ kernel[Handle(o)].status = "connected"
  /\ kernel' = [kernel EXCEPT ![Handle(o)].status = "shut"]
  /\ UNCHANGED <<alive, shared, cell, state, open, running, history>>

\* The network: the peer, or a failure, aborts a connection.
PeerReset(h) ==
  /\ kernel[h].status = "connected"
  /\ kernel' = [kernel EXCEPT ![h].status = "reset"]
  /\ UNCHANGED <<alive, shared, cell, state, open, running, history>>

-----------------------------------------------------------------------------
(* Releasing a descriptor.                                                 *)

\* What socket_ops::shutdown reports for the handle h.
ShutdownResults(h) ==
  IF h = InvalidSocket THEN {"bad_file_descriptor"}
  ELSE CASE kernel[h].status = "free"      -> {"not_a_socket"}
         [] kernel[h].status = "fresh"     -> {"not_connected"}
         [] kernel[h].status = "listening" -> {"success", "not_connected"}
         [] kernel[h].status = "connected" -> {"success"}
         [] kernel[h].status = "shut"      -> {"success", "not_connected"}
         [] kernel[h].status = "reset"     -> {"not_connected", "connection_reset"}

\* Fault: the destructor throws not_connected as well.
ToleratedSuccess(result) == result = "success"

\* The results of shutdown() the destructor does not throw.
Tolerated(result) == result \in {"success", "not_connected"}

\* ::close of a non-blocking socket that lingers may fail with EWOULDBLOCK.
CloseMayBlock(h) == IsOpenHandle(h) /\ kernel[h].nb /\ kernel[h].linger

\* What socket_ops::close may have been told by its last ::close.  The system
\* may fail for any open handle, with EINTR or EIO say; a free one is reported.
SystemAnswers(h) ==
  IF h = InvalidSocket THEN {"success"}
  ELSE IF IsOpenHandle(h) THEN {"success", "failed"} ELSE {"bad_file_descriptor"}

\* Fault: close is not tried again after EWOULDBLOCK.
CloseResultsOnce(h) ==
  SystemAnswers(h) \cup (IF CloseMayBlock(h) THEN {"would_block"} ELSE {})

\* socket_ops::close: an EWOULDBLOCK is answered by a second attempt, made in
\* blocking mode, whose answer counts.
CloseResults(h) == SystemAnswers(h)

\* The table of sockets after it: after a failure the handle is open or free
\* as the system likes.  A second attempt has made it blocking.
AfterClose(h, result, retried) ==
  LET kept  == IF retried THEN [kernel EXCEPT ![h].nb = FALSE] ELSE kernel
      freed == [kernel EXCEPT ![h] = FreeHandle]
  IN  IF ~ IsOpenHandle(h) THEN {kernel}
      ELSE CASE result = "success"     -> {freed}
             [] result = "failed"      -> {freed, kept}
             [] result = "would_block" -> {kept}

\* close(ec): socket_ops::close, then reset() whatever it reported.
CloseAndReset(o, result) ==
  /\ result \in CloseResults(Handle(o))
  /\ \E retried \in {FALSE, CloseMayBlock(Handle(o))} :
        /\ kernel' \in AfterClose(Handle(o), result, retried)
        /\ state' = IF retried
                    THEN [state EXCEPT ![o] = @ \ {"user_set_non_blocking"}] ELSE state
  /\ shared' = [shared EXCEPT ![o] = NullPtr]
  /\ cell' = Settle(shared', cell)
  /\ open' = [open EXCEPT ![o] = FALSE]

\* o alone had the descriptor that the failed ::close of this step left open.
LeftOpen(o, result) ==
  result = "failed" /\ SoleOwner(o) /\ kernel'[Handle(o)].status # "free"

\* close(), whether or not it then throws the error.
Close(o) ==
  /\ o \in alive
  /\ \E result \in CloseResults(Handle(o)) :
        /\ CloseAndReset(o, result)
        /\ history' = Note("shared_close", IsOpenHandle(Handle(o)) /\ ~ SoleOwner(o))
                        \cup Note("lost", LeftOpen(o, result))
  /\ UNCHANGED <<alive, running>>

\* The object o ends; its reference to the cell goes with it.
Gone(o) ==
  /\ alive' = alive \ {o}
  /\ shared' = [shared EXCEPT ![o] = NullPtr]
  /\ cell' = Settle(shared', cell)
  /\ open' = [open EXCEPT ![o] = FALSE]
  /\ state' = [state EXCEPT ![o] = {}]
  /\ UNCHANGED <<running, history>>

\* Fault: the use count is not looked at.
DestroySharerCloses(o) ==
  /\ o \in alive /\ ~ SoleOwner(o)
  /\ kernel' \in AfterClose(Handle(o), "success", FALSE)
  /\ Gone(o)

\* ~basic_socket() of an object that owns nothing or not alone.
DestroySharer(o) ==
  /\ o \in alive /\ ~ SoleOwner(o)
  /\ Gone(o)
  /\ UNCHANGED kernel

\* shutdown() in the destructor reports nothing that is thrown.
ShutdownTolerated(o) == \E result \in ShutdownResults(Handle(o)) : Tolerated(result)

\* ~basic_socket() of the only owner: shutdown, then close.
DestroyOwner(o) ==
  /\ o \in alive /\ SoleOwner(o)
  /\ ShutdownTolerated(o)
  /\ "success" \in CloseResults(Handle(o))
  /\ kernel' \in AfterClose(Handle(o), "success", FALSE)
  /\ Gone(o)

\* ~basic_socket() of the only owner when shutdown() reports an error that is
\* not not_connected: throw_if throws out of the destructor, which is noexcept.
DestroyTerminates(o) ==
  /\ o \in alive /\ SoleOwner(o)
  /\ \E result \in ShutdownResults(Handle(o)) : ~ Tolerated(result)
  /\ running' = FALSE
  /\ UNCHANGED <<alive, shared, cell, state, open, kernel, history>>

\* ~basic_socket() of the only owner when close() throws out of it.
DestroyCloseThrows(o) ==
  /\ o \in alive /\ SoleOwner(o)
  /\ ShutdownTolerated(o)
  /\ \E result \in CloseResults(Handle(o)) \ {"success"} :
        /\ CloseAndReset(o, result)
        /\ history' = Note("failed_end", result = "failed")
                        \cup Note("lost", LeftOpen(o, result))
  /\ running' = FALSE
  /\ UNCHANGED alive

-----------------------------------------------------------------------------
Init ==
  /\ alive = {}
  /\ shared = [o \in Objects |-> NullPtr]
  /\ cell = [c \in Cells |-> InvalidSocket]
  /\ state = [o \in Objects |-> {}]
  /\ open = [o \in Objects |-> FALSE]
  /\ kernel = [h \in Handles |-> FreeHandle]
  /\ running = TRUE
  /\ history = {}

OneObject(o) ==
  \/ Construct(o)
  \/ OpenFails(o)
  \/ \E h \in Handles : OpenSucceeds(o, h) \/ Assign(o, h)
  \/ Connect(o) \/ ConnectOpens(o)
  \/ Listen(o) \/ Shutdown(o)
  \/ \E b \in BOOLEAN : SetNonBlocking(o, b) \/ SetLinger(o, b)
  \/ Close(o)
  \/ DestroySharer(o) \/ DestroyOwner(o)
  \/ DestroyTerminates(o) \/ DestroyCloseThrows(o)

TwoObjects(o, n) ==
  \/ AcceptFails(o, n)
  \/ \E h \in Handles : AcceptSucceeds(o, n, h)
  \/ CopyConstruct(o, n) \/ CopyAssign(o, n)
  \/ MoveConstruct(o, n) \/ MoveAssign(o, n)

Next ==
  /\ running
  /\ \/ \E o \in Objects : OneObject(o)
     \/ \E o, n \in Objects : TwoObjects(o, n)
     \/ \E h \in Handles : PeerReset(h)

Spec == Init /\ [][Next]_vars

-----------------------------------------------------------------------------
(* Safety.                                                                 *)

\* As long as close() has only been called on sole owners, the copies, moves,
\* failed opens and accepts, and destructors never leave an object with the
\* handle of a closed descriptor, nor two objects with one descriptor through
\* different cells (so that one would close what the other still uses).
NoStaleHandle ==
  "shared_close" \notin history =>
     /\ \A o \in Objects :
           Handle(o) # InvalidSocket => kernel[Handle(o)].status # "free"
     /\ \A o, p \in Objects :
           Handle(o) # InvalidSocket /\ Handle(o) = Handle(p) => shared[o] = shared[p]

\* A descriptor is lost (open, and out of every object's reach) only through
\* an open, assign, copy or move over its last owner, or by a ::close that
\* failed and left it open: no other close(), destructor or failure path leaks
\* one, an EWOULDBLOCK of the first attempt to close included.
NoLeak ==
  "lost" \notin history =>
     \A h \in Handles :
        kernel[h].status # "free" => \E o \in alive : Handle(o) = h

\* On a socket the library opened itself and nobody copied, is_non_blocking()
\* is the mode of the descriptor, and a lingering descriptor is known to
\* linger: _state survives moves and does not outlive its descriptor.
StateAgreesWithKernel ==
  "copied" \notin history =>
     \A o \in Objects :
        IsOpenHandle(Handle(o)) /\ "possible_dup" \notin state[o] =>
           /\ kernel[Handle(o)].nb <=> "user_set_non_blocking" \in state[o]
           /\ kernel[Handle(o)].linger => "user_set_linger" \in state[o]

\* Destroying a socket whose descriptor is open, in whatever phase of its life
\* and with whatever copies, terminates the program only when the peer reset
\* the connection or the system failed to close the descriptor, which an
\* EWOULDBLOCK is not: any other end is that of an invalid or closed handle.
TerminationCause ==
  ~ running =>
     \/ "failed_end" \in history
     \/ \E o \in alive :
          /\ SoleOwner(o)
          /\ IsOpenHandle(Handle(o)) => kernel[Handle(o)].status = "reset"

(* What the inductive argument for the above needs besides.                *)

\* An object that does not exist holds no cell.
DeadHoldNothing == \A o \in Objects \ alive : shared[o] = NullPtr

\* Two objects share a cell only after a copy.
SharingIsNoted ==
  /\ "shared_close" \in history => "copied" \in history
  /\ "copied" \notin history =>
        \A o, p \in Objects : o # p /\ Holds(o) => shared[o] # shared[p]

\* The inductive invariant.
Safe ==
  /\ DeadHoldNothing
  /\ SharingIsNoted
  /\ NoStaleHandle
  /\ NoLeak
  /\ StateAgreesWithKernel

-----------------------------------------------------------------------------
(* What the documentation says and the code does not do.                   *)

\* accept(), on error, returns "a socket object where is_open() is false".
FailedAcceptIsNotOpen ==
  \A n \in alive :
     Holds(n) /\ Handle(n) = InvalidSocket /\ "possible_dup" \in state[n] => ~ open[n]
=============================================================================
