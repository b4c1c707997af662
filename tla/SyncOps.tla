------------------------------ MODULE SyncOps ------------------------------
(***************************************************************************)
(* The synchronous operations of NetLite/socket_ops.ipp on one descriptor: *)
(* the sync_ family, which tries, waits in poll and tries again; the raw   *)
(* calls, tried once, that basic_socket::receive and basic_socket::send    *)
(* make; the non_blocking_ family, which tries again after a signal; and   *)
(* basic_socket::wait and has_state, which only poll.                      *)
(* One thread calls; the network acts between any two of its system calls. *)
(*                                                                         *)
(* The descriptor has a role: a connected stream, a datagram socket, a     *)
(* listener, or a socket that connects.  recvmsg and its two loops are     *)
(* recvfrom and its loops with other arguments, sendto and                 *)
(* non_blocking_sendto are send and non_blocking_send.                     *)
(***************************************************************************)
EXTENDS Integers

CONSTANTS
  MaxUnread,   \* bytes or datagrams the receive queue holds
  MaxRoom,     \* bytes or datagrams the send queue holds
  MaxBacklog,  \* connections the listen queue holds
  SizeModulus  \* 2^w, w the width of std::size_t

ASSUME BoundsAssumption ==
  /\ MaxUnread \in Nat \ {0}
  /\ MaxRoom \in Nat \ {0}
  /\ MaxBacklog \in Nat \ {0}
  /\ SizeModulus \in Nat /\ SizeModulus > MaxUnread + MaxRoom + 1

VARIABLES
  role,      \* what the descriptor is
  user,      \* the flags of _state: user_set_non_blocking, enable_connection_aborted
  kernelNB,  \* the descriptor is in non-blocking mode
  unread,    \* what the receive queue holds
  room,      \* what the send queue has space for
  ended,     \* the peer has finished sending
  reset,     \* the connection was reset: no, pending as an error, or reported
  told,      \* history variable: an operation has returned connection_reset
  waiting,   \* connections in the listen queue
  aborted,   \* connections in the listen queue that accept will report aborted
  dial,      \* how far the connection attempt is
  pc,        \* where the thread is
  call,      \* the call it makes or made last, with the flags passed by value
  result     \* what that call returned: error code, size, and whether it completed

config  == <<role, user, kernelNB>>
stream  == <<unread, room, ended, reset>>
queue   == <<waiting, aborted>>
network == <<stream, queue, dial>>
vars    == <<config, network, told, pc, call, result>>

Roles == {"stream", "datagram", "listener", "dialer"}

Reads    == {"recv", "sync_recv", "sync_recvfrom", "non_blocking_recv",
             "non_blocking_recvfrom"}
Sends    == {"send", "sync_send", "sync_sendto", "non_blocking_send"}
Accepts  == {"sync_accept", "non_blocking_accept"}
Connects == {"sync_connect", "non_blocking_connect"}
Waits    == {"wait_read", "wait_write", "wait_error"}
Queries  == {"has_readable", "has_writable", "has_error"}
Ops      == Reads \cup Sends \cup Accepts \cup Connects \cup Waits \cup Queries

OpsOf(r) ==
  Waits \cup Queries \cup
  CASE r \in {"stream", "datagram"} -> Reads \cup Sends
    [] r = "listener"               -> Accepts
    [] r = "dialer"                 -> Connects

Codes == {"success", "interrupted", "operation_would_block", "connection_aborted",
          "connection_reset", "broken_pipe", "message_size", "no_message_available",
          "operation_in_progress", "connection_refused",
          "connection_already_in_progress", "already_connected"}

Resets == {"no", "pending", "reported"}

Dials == {"none", "in_progress", "up", "failed"}

\* The flags sync_accept and the others are given a copy of.
UserFlags == [nb : BOOLEAN, aborts : BOOLEAN]

SyncTypeOK ==
  /\ role \in Roles
  /\ user \in UserFlags
  /\ kernelNB \in BOOLEAN
  /\ unread \in 0..MaxUnread
  /\ room \in 0..MaxRoom
  /\ ended \in BOOLEAN /\ reset \in Resets /\ told \in BOOLEAN
  /\ waiting \in 0..MaxBacklog /\ aborted \in 0..MaxBacklog
  /\ dial \in Dials
  /\ pc \in {"idle", "try", "poll", "status", "look"}
  /\ call \in [op : Ops, flags : UserFlags, empty : BOOLEAN]
  /\ result \in [ec : Codes, size : 0..(SizeModulus - 1), done : BOOLEAN]

-----------------------------------------------------------------------------
(* Readiness, as poll and select see it.                                   *)

Readable ==
  unread > 0 \/ ended \/ reset # "no" \/ waiting + aborted > 0 \/ dial = "failed"

Writable ==
  CASE role = "listener" -> FALSE
    [] role = "dialer"   -> dial \in {"up", "failed"}
    [] OTHER             -> room > 0 \/ reset # "no"

HasError == reset # "no" \/ dial = "failed"

\* What the operation polls for.
Ready ==
  CASE call.op \in Reads \cup Accepts \cup {"wait_read", "has_readable"}    -> Readable
    [] call.op \in Sends \cup Connects \cup {"wait_write", "has_writable"} -> Writable
    [] call.op \in {"wait_error", "has_error"}                             -> HasError

\* Fault: the signed count is returned as it is.
ToSizeSigned(n) == n

\* A signed count converted to std::size_t.
ToSize(n) == n % SizeModulus

Return(ec, n) ==
  /\ pc' = "idle"
  /\ result' = [ec |-> ec, size |-> ToSize(n), done |-> TRUE]

\* A non_blocking_ operation returns false: the caller is to run it again.
Incomplete(ec) ==
  /\ pc' = "idle"
  /\ result' = [result EXCEPT !.ec = ec, !.done = FALSE]

GoTo(place) ==
  /\ pc' = place
  /\ UNCHANGED result

WouldBlock(ec) == ec = "operation_would_block"

\* Fault: a failed attempt ends the operation, whatever the mode.
WaitOrFailAlways(ec) == Return(ec, 0)

\* The end of the loop body of sync_recv, sync_recvfrom and sync_send when the
\* attempt failed.
WaitOrFail(ec) ==
  IF WouldBlock(ec) /\ ~ call.flags.nb THEN GoTo("poll") ELSE Return(ec, 0)

-----------------------------------------------------------------------------
(* The system calls, as error_wrapper reports them.  A call that the       *)
(* descriptor's mode makes wait is one that is not enabled yet.            *)

\* A reset is an error that waits for the next call.  POSIX systems forget it
\* once it was reported, Windows reports it again.
ReportReset(ec) ==
  /\ reset = "pending" /\ ec = "connection_reset"
  /\ reset' \in {"pending", "reported"}

\* What a reset left in the receive queue comes before its error; after it there
\* are no more bytes.  To Windows a datagram that is too long for the buffers is an
\* error, which recv does not recognise: it was translated by then.
KernelRecv(ec, n) ==
  /\ UNCHANGED <<room, ended>>
  /\ \/ ec = "interrupted" /\ n = -1 /\ UNCHANGED <<unread, reset>>
     \/ unread = 0 /\ ReportReset(ec) /\ n = -1 /\ UNCHANGED unread
     \/ /\ role = "stream" /\ ~ call.empty
        /\ n \in 1..unread /\ ec = "success"
        /\ unread' = unread - n /\ UNCHANGED reset
     \/ /\ role = "stream"
        /\ call.empty \/ (unread = 0 /\ (ended \/ reset = "reported"))
        /\ n = 0 /\ ec = "success" /\ UNCHANGED <<unread, reset>>
     \/ /\ role = "datagram" /\ unread > 0  \* of length zero, one, or too long
        /\ (n \in {0, 1} /\ ec = "success") \/ (n = -1 /\ ec = "message_size")
        /\ unread' = unread - 1 /\ UNCHANGED reset
     \/ /\ kernelNB /\ ~ Ready
        /\ ec = "operation_would_block" /\ n = -1 /\ UNCHANGED <<unread, reset>>

KernelSend(ec, n) ==
  /\ UNCHANGED <<unread, ended>>
  /\ \/ ec = "interrupted" /\ n = -1 /\ UNCHANGED <<room, reset>>
     \/ ReportReset(ec) /\ n = -1 /\ UNCHANGED room
     \/ reset = "reported" /\ ec = "broken_pipe" /\ n = -1 /\ UNCHANGED <<room, reset>>
     \/ /\ reset = "no" /\ ~ call.empty
        /\ n \in 1..(IF role = "stream" THEN room ELSE 1) /\ n <= room
        /\ ec = "success" /\ room' = room - n /\ UNCHANGED reset
     \/ /\ reset = "no" /\ call.empty
        /\ n = 0 /\ ec = "success" /\ UNCHANGED <<room, reset>>
     \/ /\ kernelNB /\ ~ Ready /\ ~ call.empty
        /\ ec = "operation_would_block" /\ n = -1 /\ UNCHANGED <<room, reset>>

KernelAccept(ec) ==
  \/ ec = "interrupted" /\ UNCHANGED queue
  \/ waiting > 0 /\ ec = "success" /\ waiting' = waiting - 1 /\ UNCHANGED aborted
  \/ aborted > 0 /\ ec = "connection_aborted" /\ aborted' = aborted - 1 /\ UNCHANGED waiting
  \/ kernelNB /\ ~ Ready /\ ec = "operation_would_block" /\ UNCHANGED queue

KernelConnect(ec) ==
  \/ /\ dial = "none"
     /\ \/ ec = "success" /\ dial' = "up"
        \/ ec = "connection_refused" /\ dial' = "none"
        \/ ec = "interrupted" /\ dial' = "in_progress"
        \/ /\ kernelNB /\ dial' = "in_progress"
           /\ ec \in {"operation_in_progress", "operation_would_block"}
  \/ dial = "in_progress" /\ ec = "connection_already_in_progress" /\ UNCHANGED dial
  \/ dial = "up" /\ ec = "already_connected" /\ UNCHANGED dial
  \/ dial = "failed" /\ ec = "connection_refused" /\ dial' = "none"

\* SO_ERROR: zero unless the attempt has failed; reading it clears it.
KernelStatus(ec) ==
  IF dial = "failed" THEN ec = "connection_refused" /\ dial' = "none"
                     ELSE ec = "success" /\ UNCHANGED dial

-----------------------------------------------------------------------------
(* The operations: one step per system call.                               *)

\* Fault: sync_recv takes a single byte for no byte.
AfterSyncRecvOffByOne(ec, n) == IF n > 1 THEN Return(ec, n) ELSE WaitOrFail(ec)

\* sync_recv: no bytes are the end of a stream.
AfterSyncRecv(ec, n) ==
  CASE n > 0                      -> Return(ec, n)
    [] role = "stream" /\ n = 0   -> Return("no_message_available", 0)
    [] OTHER                      -> WaitOrFail(ec)

\* sync_recvfrom, sync_send and sync_sendto.
AfterSync(ec, n) == IF n >= 0 THEN Return(ec, n) ELSE WaitOrFail(ec)

\* non_blocking_recvfrom and non_blocking_send.
AfterNonBlocking(ec, n) ==
  CASE ec = "interrupted" -> GoTo("try")
    [] WouldBlock(ec)     -> Incomplete(ec)
    [] OTHER              -> Return(ec, IF n >= 0 THEN n ELSE 0)

\* non_blocking_recv: at the end of a stream the size is left as it was.
AfterNonBlockingRecv(ec, n) ==
  IF role = "stream" /\ n = 0 THEN Return("no_message_available", result.size)
                             ELSE AfterNonBlocking(ec, n)

AfterTransfer(ec, n) ==
  CASE call.op \in {"recv", "send"}                                -> Return(ec, n)
    [] call.op = "sync_recv"                                       -> AfterSyncRecv(ec, n)
    [] call.op \in {"sync_recvfrom", "sync_send", "sync_sendto"}   -> AfterSync(ec, n)
    [] call.op = "non_blocking_recv"                               -> AfterNonBlockingRecv(ec, n)
    [] call.op \in {"non_blocking_recvfrom", "non_blocking_send"}  -> AfterNonBlocking(ec, n)

\* sync_accept and non_blocking_accept: an aborted connection is passed over
\* unless the caller asked for it.
AfterAccept(ec) ==
  LET passedOver == ec = "connection_aborted" /\ ~ call.flags.aborts
  IN  IF call.op = "non_blocking_accept"
      THEN IF ec = "interrupted" THEN GoTo("try")
           ELSE IF passedOver \/ WouldBlock(ec) THEN Incomplete(ec)
           ELSE Return(ec, 0)
      ELSE IF passedOver \/ (WouldBlock(ec) /\ ~ call.flags.nb)
           THEN GoTo("poll") ELSE Return(ec, 0)

\* Fault: SO_ERROR is read without waiting for the attempt to end.
AfterConnectUnpolled(ec) ==
  IF ec \in {"operation_in_progress", "operation_would_block"}
  THEN GoTo("status") ELSE Return(ec, 0)

AfterConnect(ec) ==
  IF ec \in {"operation_in_progress", "operation_would_block"}
  THEN GoTo("poll") ELSE Return(ec, 0)

\* non_blocking_connect first looks, without waiting, whether the attempt that
\* is going on has ended; if not it returns false and leaves the error code.  An
\* interrupted poll is none of its cases and passes for an attempt that ended.
CheckConnect(ec) ==
  \/ Ready /\ ec = "success" /\ GoTo("status")
  \/ ec = "interrupted" /\ GoTo("status")
  \/ ~ Ready /\ ec = "success" /\ Incomplete(result.ec)

Attempt(ec) ==
  /\ pc = "try"
  /\ \/ /\ call.op \in Reads
        /\ \E n \in -1..MaxUnread : KernelRecv(ec, n) /\ AfterTransfer(ec, n)
        /\ UNCHANGED <<queue, dial>>
     \/ /\ call.op \in Sends
        /\ \E n \in -1..MaxRoom : KernelSend(ec, n) /\ AfterTransfer(ec, n)
        /\ UNCHANGED <<queue, dial>>
     \/ /\ call.op \in Accepts
        /\ KernelAccept(ec) /\ AfterAccept(ec)
        /\ UNCHANGED <<stream, dial>>
     \/ /\ call.op = "sync_connect"
        /\ KernelConnect(ec) /\ AfterConnect(ec)
        /\ UNCHANGED <<stream, queue>>
     \/ /\ call.op = "non_blocking_connect"
        /\ CheckConnect(ec)
        /\ UNCHANGED network
  /\ told' = (told \/ (pc' = "idle" /\ result'.done /\ result'.ec = "connection_reset"))
  /\ UNCHANGED <<config, call>>

\* Fault: every operation waits for input.
PollForInput(ec) ==
  /\ pc = "poll"
  /\ \/ ec = "success" /\ (unread > 0 \/ waiting + aborted > 0) /\ GoTo("try")
     \/ ec = "interrupted" /\ Return(ec, 0)
  /\ UNCHANGED <<config, network, told, call>>

\* poll_read, poll_write and poll_connect as the sync_ operations call them:
\* with no timeout, whatever the mode; a signal ends the operation.
Poll(ec) ==
  /\ pc = "poll"
  /\ \/ ec = "success" /\ Ready
        /\ GoTo(IF call.op = "sync_connect" THEN "status" ELSE "try")
     \/ ec = "interrupted" /\ Return(ec, 0)
  /\ UNCHANGED <<config, network, told, call>>

\* The end of sync_connect and of non_blocking_connect.
Status(ec) ==
  /\ pc = "status"
  /\ KernelStatus(ec)
  /\ Return(ec, 0)
  /\ UNCHANGED <<config, stream, queue, told, call>>

\* wait() and has_state(): poll with a timeout, none in non-blocking mode.  When
\* it runs out has_state() says no, with the error code of the mode, and wait()
\* polls again.  The size stands for yes (1) and no.
Look(ec) ==
  /\ pc = "look"
  /\ \/ ec = "success" /\ Ready /\ Return(ec, 1)
     \/ ec = "interrupted" /\ Return(ec, 0)
     \/ /\ ~ Ready /\ call.op \in Queries
        /\ ec = IF call.flags.nb THEN "operation_would_block" ELSE "success"
        /\ Return(ec, 0)
  /\ UNCHANGED <<config, network, told, call>>

\* Fault: empty buffers are not special.
CallEmptyToo(op, empty) ==
  /\ pc = "idle"
  /\ op \in OpsOf(role) /\ (op = "non_blocking_connect" => dial # "none")
  /\ empty => op \in Reads \cup Sends
  /\ call' = [op |-> op, flags |-> user, empty |-> empty]
  /\ GoTo(IF op \in Waits \cup Queries THEN "look" ELSE "try")
  /\ UNCHANGED <<config, network, told>>

\* An operation is called.  Empty buffers make sync_recv and sync_send on a
\* stream return at once, and are not special to the others.  Nobody calls
\* non_blocking_connect before a connection attempt was made.
Call(op, empty) ==
  /\ pc = "idle"
  /\ op \in OpsOf(role) /\ (op = "non_blocking_connect" => dial # "none")
  /\ empty => op \in Reads \cup Sends
  /\ call' = [op |-> op, flags |-> user, empty |-> empty]
  /\ IF empty /\ role = "stream" /\ op \in {"sync_recv", "sync_send"}
     THEN Return("success", 0)
     ELSE GoTo(IF op \in Waits \cup Queries THEN "look" ELSE "try")
  /\ UNCHANGED <<config, network, told>>

\* set_user_non_blocking between calls.
SetNonBlocking(mode) ==
  /\ pc = "idle"
  /\ user' = [user EXCEPT !.nb = mode]
  /\ kernelNB' = mode
  /\ UNCHANGED <<role, network, told, pc, call, result>>

\* set_option(enable_connection_aborted(value)): a flag of _state only.
SetReportAborted(value) ==
  /\ pc = "idle" /\ role = "listener"
  /\ user' = [user EXCEPT !.aborts = value]
  /\ UNCHANGED <<role, kernelNB, network, told, pc, call, result>>

-----------------------------------------------------------------------------
(* The network.                                                            *)

DataArrives ==
  /\ role \in {"stream", "datagram"} /\ ~ ended /\ reset = "no" /\ unread < MaxUnread
  /\ unread' = unread + 1
  /\ UNCHANGED <<room, ended, reset>>

\* A datagram that poll has seen may be found bad and dropped before it is read.
DatagramDropped ==
  /\ role = "datagram" /\ unread > 0
  /\ unread' = unread - 1
  /\ UNCHANGED <<room, ended, reset>>

DataLeaves ==
  /\ role \in {"stream", "datagram"} /\ reset = "no" /\ room < MaxRoom
  /\ room' = room + 1
  /\ UNCHANGED <<unread, ended, reset>>

PeerEnds ==
  /\ role = "stream" /\ ~ ended /\ reset = "no"
  /\ ended' = TRUE
  /\ UNCHANGED <<unread, room, reset>>

\* Some systems throw away what was not read.
PeerResets ==
  /\ role = "stream" /\ reset = "no"
  /\ reset' = "pending" /\ unread' \in {0, unread}
  /\ UNCHANGED <<room, ended>>

ConnectionArrives ==
  /\ role = "listener" /\ waiting + aborted < MaxBacklog
  /\ waiting' = waiting + 1
  /\ UNCHANGED aborted

\* A connection dies before it is accepted: some systems take it out of the
\* queue, others leave it there for accept to report.
ConnectionAborts ==
  /\ waiting > 0
  /\ waiting' = waiting - 1
  /\ aborted' \in {aborted, aborted + 1}

DialAnswered ==
  \/ dial = "in_progress" /\ dial' \in {"up", "failed"}
  \/ dial = "up" /\ dial' = "failed"

Network ==
  /\ \/ /\ DataArrives \/ DatagramDropped \/ DataLeaves \/ PeerEnds \/ PeerResets
        /\ UNCHANGED <<queue, dial>>
     \/ (ConnectionArrives \/ ConnectionAborts) /\ UNCHANGED <<stream, dial>>
     \/ DialAnswered /\ UNCHANGED <<stream, queue>>
  /\ UNCHANGED <<config, told, pc, call, result>>

-----------------------------------------------------------------------------
\* A descriptor may be non-blocking when the flag is clear, and the reverse:
\* accepted sockets inherit the mode, and another copy of the object may have
\* set it.  Before the first call, call and result are those of one that asked
\* for nothing.
Init ==
  /\ role \in Roles
  /\ user \in [nb : BOOLEAN, aborts : {FALSE}]
  /\ kernelNB \in BOOLEAN
  /\ unread = 0 /\ room = MaxRoom /\ ended = FALSE /\ reset = "no" /\ told = FALSE
  /\ waiting = 0 /\ aborted = 0 /\ dial = "none"
  /\ pc = "idle"
  /\ call \in [op : OpsOf(role), flags : {user}, empty : {TRUE}]
  /\ result = [ec |-> "success", size |-> 0, done |-> TRUE]

Step(ec) == Attempt(ec) \/ Poll(ec) \/ Status(ec) \/ Look(ec)

Next ==
  \/ \E ec \in Codes : Step(ec)
  \/ \E op \in Ops, empty \in BOOLEAN : Call(op, empty)
  \/ \E b \in BOOLEAN : SetNonBlocking(b) \/ SetReportAborted(b)
  \/ Network

\* The calling thread runs, and signals do not interrupt every system call.
Progress == \E ec \in Codes \ {"interrupted"} : Step(ec)

Spec == Init /\ [][Next]_vars /\ WF_vars(Progress)

-----------------------------------------------------------------------------
(* Correctness.                                                            *)

Synced == {"sync_recv", "sync_recvfrom", "sync_send", "sync_sendto", "sync_accept",
           "sync_connect"}

Returned(op) == pc = "idle" /\ call.op = op

\* In blocking mode the loops hide every would_block answer (a descriptor that
\* is non-blocking behind the flag, a datagram dropped or a connection gone
\* after poll reported it); in non-blocking mode no transfer waits in poll.  A
\* non_blocking_ operation asks to be run again, and never reports would_block,
\* nor does wait(), whatever the mode.
ModeRespected ==
  /\ pc = "idle" /\ call.op \in Synced /\ ~ call.flags.nb =>
        ~ WouldBlock(result.ec)
  /\ pc = "poll" /\ call.op \in Reads \cup Sends => ~ call.flags.nb
  /\ pc = "idle" /\ result.done /\ WouldBlock(result.ec) =>
        call.op \in Synced \cup Queries \cup {"recv", "send"}

\* sync_recv on a stream returns no bytes without an error only to a caller
\* that asked for none.  It reports the end of the stream only when every byte
\* was read and the peer has ended it, or the caller was told before that the
\* connection was reset (recv then finds no bytes, and to sync_recv that is the
\* end of a stream the peer never ended).  The same is true of
\* non_blocking_recv, unless it was given empty buffers, which it does not see.
EndOfStreamIsReal ==
  role = "stream" =>
     /\ Returned("sync_recv") /\ result.ec = "success" /\ result.size = 0 => call.empty
     /\ /\ Returned("sync_recv") \/ (Returned("non_blocking_recv") /\ ~ call.empty)
        /\ result.ec = "no_message_available"
        => unread = 0 /\ (ended \/ told)

\* An aborted connection fails an accept only if the caller enabled that when
\* it called, and a sync_connect that succeeds was answered by the peer.
OutcomesAreReal ==
  /\ pc = "idle" /\ result.done /\ result.ec = "connection_aborted" => call.flags.aborts
  /\ Returned("sync_connect") /\ result.ec = "success" => dial # "in_progress"

\* Nothing is lost between the descriptor and the caller: bytes taken from a
\* stream's receive queue are returned by the same step, all of them; a datagram
\* taken ends the call, with the error that says so if it was too long; a
\* connection taken from the listen queue is the one accept returns.
NothingLost ==
  [][\A ec \in Codes : Attempt(ec) =>
       /\ unread' < unread =>
            /\ pc' = "idle" /\ result'.done /\ result'.ec = ec
            /\ role = "stream" => result'.size = unread - unread'
       /\ room' < room => pc' = "idle" /\ result'.ec = "success"
       /\ waiting' < waiting => pc' = "idle" /\ result'.done /\ result'.ec = "success"]_vars

\* An operation does not go on for ever while what it waits for is there, unless
\* aborted connections keep turning up in front of an accept.
ReadyCallsReturn ==
  <>[](aborted = 0) => []<>(pc = "idle" \/ ~ Ready)

-----------------------------------------------------------------------------
(* What the documentation says and the code does not do.                   *)

\* basic_socket::receive blocks until it has received something, and reports
\* with an error code that the peer closed the connection.
ReceiveReportsEof ==
  Returned("recv") /\ role = "stream" /\ result.ec = "success" /\ result.size = 0 =>
     call.empty
=============================================================================
