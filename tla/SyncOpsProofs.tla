--------------------------- MODULE SyncOpsProofs ---------------------------
(***************************************************************************)
(* Proofs, for queues of any length and sizes of any width, of what        *)
(* SyncOps promises.  A call is followed through its loop: where it can be *)
(* tells which call it is, and what the loop has seen when it gets there.  *)
(* The network acts between any two steps, so what is known of its queues  *)
(* after a call returned is what it cannot undo.                           *)
(***************************************************************************)
EXTENDS SyncOps, TLAPS

Transfers == Reads \cup Sends
Looks     == Waits \cup Queries

\* Where a call can be, and what it has seen there.
PlaceOfCall ==
  /\ call.op \in OpsOf(role)
  /\ pc = "look" <=> pc # "idle" /\ call.op \in Looks
  /\ pc = "poll" => call.op \in Synced
  /\ pc = "poll" /\ call.op \in Transfers => ~ call.flags.nb
  /\ pc # "idle" /\ call.op = "sync_recv" /\ role = "stream" => ~ call.empty
  /\ pc = "status" => call.op \in Connects
  /\ pc = "status" /\ call.op = "sync_connect" => dial \in {"up", "failed"}

\* The listen queue holds what it was told to.
BacklogKept == waiting + aborted <= MaxBacklog

\* A reset is only forgotten after it was told to the caller.
ResetIsTold ==
  /\ reset = "reported" => told
  /\ told => reset # "no"

Safe ==
  /\ SyncTypeOK /\ PlaceOfCall /\ BacklogKept /\ ResetIsTold
  /\ ModeRespected /\ EndOfStreamIsReal /\ OutcomesAreReal

Results == [ec : Codes, size : 0..(SizeModulus - 1), done : BOOLEAN]

\* The counts that are returned: minus one is the only one that is no size.
Counts == -1..(SizeModulus - 1)

-----------------------------------------------------------------------------
(* How a step of a call ends.                                              *)

\* As a size a count is itself, and minus one is the largest size there is.
LEMMA ToSizeOfCount ==
  ASSUME NEW n \in Counts
  PROVE  /\ ToSize(n) \in 0..(SizeModulus - 1)
         /\ n >= 0 => ToSize(n) = n
         /\ n = -1 => ToSize(n) # 0
<1>1. SizeModulus \in Nat \ {0} /\ n < SizeModulus
  BY BoundsAssumption DEF Counts
<1>2. n >= 0 => n % SizeModulus = n
  BY <1>1 DEF Counts
<1>3. (-1) % SizeModulus = SizeModulus - 1 /\ SizeModulus - 1 > 0
  BY <1>1, BoundsAssumption
<1> QED
  BY <1>1, <1>2, <1>3 DEF ToSize, Counts

\* A call that returns is idle, with a result of the right type.
LEMMA ReturnEffect ==
  ASSUME NEW ec \in Codes, NEW n \in Counts, Return(ec, n)
  PROVE  /\ pc' = "idle" /\ result' \in Results
         /\ result'.ec = ec /\ result'.done
         /\ n >= 0 => result'.size = n
         /\ n = -1 => result'.size # 0
BY ToSizeOfCount DEF Return, Results

\* So is one that is to be called again.
LEMMA IncompleteEffect ==
  ASSUME SyncTypeOK, NEW ec \in Codes, Incomplete(ec)
  PROVE  /\ pc' = "idle" /\ result' \in Results
         /\ result'.ec = ec /\ ~ result'.done
BY DEF Incomplete, Results, SyncTypeOK

\* A failed attempt waits in blocking mode when the system would have, and
\* returns the error otherwise.
LEMMA WaitOrFailEffect ==
  ASSUME SyncTypeOK, NEW ec \in Codes, WaitOrFail(ec)
  PROVE  \/ WouldBlock(ec) /\ pc' = "poll" /\ UNCHANGED result /\ ~ call.flags.nb
         \/ /\ pc' = "idle" /\ result' \in Results
            /\ result'.ec = ec /\ result'.done /\ result'.size = 0
            /\ WouldBlock(ec) => call.flags.nb
BY ReturnEffect, BoundsAssumption DEF WaitOrFail, GoTo, SyncTypeOK, Counts

-----------------------------------------------------------------------------
(* The attempts.                                                           *)

\* A reset stays one, and is only forgotten by a call that reports it.
ResetKept(ec) ==
  /\ reset' \in Resets /\ (reset' = "no" <=> reset = "no")
  /\ reset' = "reported" => reset = "reported" \/ ec = "connection_reset"
  /\ ec = "connection_reset" => reset # "no"

\* What recv returns: bytes, the end of the stream or no bytes asked for, a
\* datagram, or an error with minus one.
LEMMA KernelRecvEffect ==
  ASSUME SyncTypeOK, NEW ec \in Codes, NEW n \in -1..MaxUnread, KernelRecv(ec, n)
  PROVE  /\ UNCHANGED <<room, ended>> /\ unread' \in 0..unread /\ ResetKept(ec)
         /\ ec \notin {"connection_aborted", "no_message_available"}
         /\ n >= 0 => ec = "success"
         /\ n = -1 => ec # "success"
         /\ role = "stream" => (n > 0 /\ unread - unread' = n) \/ (n <= 0 /\ unread' = unread)
         /\ role = "stream" /\ n = 0 =>
              call.empty \/ (unread = 0 /\ (ended \/ reset = "reported"))
         /\ unread' < unread => ec \in {"success", "message_size"}
BY DEF KernelRecv, ReportReset, ResetKept, SyncTypeOK, Resets

\* What send returns: a count of what it took, or an error with minus one.
LEMMA KernelSendEffect ==
  ASSUME SyncTypeOK, NEW ec \in Codes, NEW n \in -1..MaxRoom, KernelSend(ec, n)
  PROVE  /\ UNCHANGED <<unread, ended>> /\ room' \in 0..room /\ ResetKept(ec)
         /\ ec \notin {"connection_aborted", "no_message_available"}
         /\ n = -1 => ec # "success"
         /\ n >= 0 => ec = "success"
         /\ room' < room => n >= 0
BY DEF KernelSend, ReportReset, ResetKept, SyncTypeOK, Resets

\* How a step of a transfer leaves the call.
TransferOutcome ==
  \/ pc' = "try" /\ UNCHANGED result
  \/ pc' = "poll" /\ UNCHANGED result /\ call.op \in Synced /\ ~ call.flags.nb
  \/ /\ pc' = "idle" /\ result' \in Results
     /\ result'.ec # "connection_aborted"
     /\ WouldBlock(result'.ec) /\ call.op \in Synced => call.flags.nb
     /\ WouldBlock(result'.ec) /\ result'.done => call.op \in Synced \cup {"recv", "send"}
     /\ call.op = "sync_recv" /\ role = "stream" =>
          ~ (result'.ec = "success" /\ result'.size = 0)
     /\ /\ call.op \in {"sync_recv", "non_blocking_recv"} /\ role = "stream"
        /\ ~ call.empty /\ result'.ec = "no_message_available"
        => unread = 0 /\ (ended \/ told)

\* It ends with what the system call answered.
TransferEnds(ec, n) ==
  pc' = "idle" /\ result'.done /\ result'.ec = ec /\ (n >= 0 => result'.size = n)

\* What the loops and the raw calls make of an attempt to transfer: it is made
\* again, or waits in blocking mode, or the call ends.  Bytes and datagrams that
\* were taken end it, with their number, and so does a reset.
LEMMA AfterTransferEffect ==
  ASSUME Safe, pc = "try", call.op \in Transfers, NEW ec \in Codes, NEW n \in Counts,
         AfterTransfer(ec, n),
         ec \notin {"connection_aborted", "no_message_available"},
         n >= 0 => ec = "success",
         n = -1 => ec # "success",
         call.op \in Reads /\ role = "stream" /\ ~ call.empty /\ n = 0 =>
            unread = 0 /\ (ended \/ told)
  PROVE  /\ TransferOutcome
         /\ n > 0 \/ (n = 0 /\ (role # "stream" \/ call.op \in Sends)) \/ ec = "message_size" =>
              TransferEnds(ec, n)
         /\ pc' = "idle" /\ result'.done /\ result'.ec = "connection_reset"
              <=> ec = "connection_reset"
<1> USE DEF Safe, Transfers, WouldBlock, TransferOutcome, TransferEnds
<1>0. result.size \in Counts /\ 0 \in Counts /\ result \in Results
  BY BoundsAssumption DEF SyncTypeOK, Counts, Results
<1>1. CASE call.op \in {"recv", "send"}
  BY <1>1, ReturnEffect DEF AfterTransfer, Synced, Sends, Reads
<1>2. CASE call.op = "sync_recv"
  <2>1. AfterSyncRecv(ec, n)
    BY <1>2 DEF AfterTransfer
  <2>2. CASE n > 0
    BY <1>2, <2>1, <2>2, ReturnEffect DEF AfterSyncRecv, Synced, Counts
  <2>3. CASE role = "stream" /\ n = 0
    BY <1>0, <1>2, <2>1, <2>3, ReturnEffect DEF AfterSyncRecv, Synced, Codes, Sends
  <2>4. CASE role # "stream" /\ n = 0
    <3>1. WaitOrFail(ec)
      BY <2>1, <2>4 DEF AfterSyncRecv
    <3> QED
      BY <1>2, <2>4, <3>1, WaitOrFailEffect DEF Synced, Sends
  <2>5. CASE n = -1
    <3>1. WaitOrFail(ec)
      BY <2>1, <2>5 DEF AfterSyncRecv
    <3> QED
      BY <1>2, <2>5, <3>1, WaitOrFailEffect DEF Synced, Sends
  <2> QED
    BY <2>2, <2>3, <2>4, <2>5 DEF Counts
<1>3. CASE call.op \in {"sync_recvfrom", "sync_send", "sync_sendto"}
  <2>1. AfterSync(ec, n)
    BY <1>3 DEF AfterTransfer
  <2>2. CASE n >= 0
    BY <1>3, <2>1, <2>2, ReturnEffect DEF AfterSync, Synced, Counts
  <2>3. CASE n = -1
    <3>1. WaitOrFail(ec)
      BY <2>1, <2>3 DEF AfterSync
    <3> QED
      BY <1>3, <2>3, <3>1, WaitOrFailEffect DEF Synced
  <2> QED
    BY <2>2, <2>3 DEF Counts
<1>4. CASE call.op \in {"non_blocking_recv", "non_blocking_recvfrom", "non_blocking_send"}
  <2>1. CASE call.op = "non_blocking_recv" /\ role = "stream" /\ n = 0
    BY <1>0, <2>1, ReturnEffect DEF AfterTransfer, AfterNonBlockingRecv, Synced, Codes, Sends
  <2>2. CASE ~ (call.op = "non_blocking_recv" /\ role = "stream" /\ n = 0)
    <3>1. AfterNonBlocking(ec, n)
      BY <1>4, <2>2 DEF AfterTransfer, AfterNonBlockingRecv
    <3>2. CASE ec = "interrupted"
      BY <1>4, <3>1, <3>2 DEF AfterNonBlocking, GoTo, Counts
    <3>3. CASE WouldBlock(ec)
      BY <1>4, <3>1, <3>3, IncompleteEffect DEF AfterNonBlocking, Synced, Counts
    <3>4. CASE ec # "interrupted" /\ ~ WouldBlock(ec)
      BY <1>0, <1>4, <3>1, <3>4, ReturnEffect DEF AfterNonBlocking, Synced, Counts
    <3> QED
      BY <3>2, <3>3, <3>4
  <2> QED
    BY <2>1, <2>2
<1> QED
  BY <1>1, <1>2, <1>3, <1>4 DEF Reads, Sends, AfterTransfer

\* What NothingLost says of one attempt.
NothingLostBy(ec) ==
  /\ unread' < unread =>
       /\ pc' = "idle" /\ result'.done /\ result'.ec = ec
       /\ role = "stream" => result'.size = unread - unread'
  /\ room' < room => pc' = "idle" /\ result'.ec = "success"
  /\ waiting' < waiting => pc' = "idle" /\ result'.done /\ result'.ec = "success"

\* What is left tells what was taken.
LEMMA TakenCount ==
  \A n, before, after \in Int :
     (n > 0 /\ before - after = n) \/ (n <= 0 /\ after = before) =>
        (after < before => n > 0 /\ before - after = n)
OBVIOUS

\* Reading and writing, tried once.
LEMMA TransferKeepsSafe ==
  ASSUME Safe, call.op \in Transfers, NEW ec \in Codes, Attempt(ec)
  PROVE  Safe' /\ NothingLostBy(ec)
<1>1. /\ pc = "try" /\ UNCHANGED <<role, user, kernelNB, call>>
      /\ UNCHANGED <<waiting, aborted, dial>>
  BY DEF Attempt, Transfers, Reads, Sends, Accepts, config, queue
<1>2. CASE call.op \in Reads
  <2>1. PICK n \in -1..MaxUnread : KernelRecv(ec, n) /\ AfterTransfer(ec, n)
    BY <1>2 DEF Attempt, Reads, Sends, Accepts
  <2>2. n \in Counts
    BY BoundsAssumption DEF Counts
  <2>3. /\ UNCHANGED <<room, ended>> /\ unread' \in 0..unread /\ ResetKept(ec)
        /\ ec \notin {"connection_aborted", "no_message_available"}
        /\ n >= 0 => ec = "success"
        /\ n = -1 => ec # "success"
        /\ role = "stream" => (n > 0 /\ unread - unread' = n) \/ (n <= 0 /\ unread' = unread)
        /\ unread' < unread => n >= 0 \/ ec = "message_size"
        /\ role = "stream" /\ ~ call.empty /\ n = 0 => unread = 0 /\ (ended \/ told)
    BY <1>1, <2>1, <2>2, KernelRecvEffect DEF Safe, ResetIsTold, Counts
  <2>4. /\ TransferOutcome
        /\ n > 0 \/ (n = 0 /\ (role # "stream" \/ call.op \in Sends)) \/ ec = "message_size" =>
             TransferEnds(ec, n)
        /\ pc' = "idle" /\ result'.done /\ result'.ec = "connection_reset"
             <=> ec = "connection_reset"
    <3>1. call.op \notin Sends
      BY <1>2 DEF Reads, Sends
    <3> QED
      BY <1>1, <1>2, <2>1, <2>2, <2>3, <3>1, AfterTransferEffect DEF Transfers
  <2>5. NothingLostBy(ec)
    <3>1. unread \in Int /\ unread' \in Int /\ room' = room /\ waiting' = waiting
          /\ waiting \in Int /\ room \in Int /\ n \in Int
      BY BoundsAssumption, <1>1, <2>3 DEF Safe, SyncTypeOK
    <3>2. role = "stream" /\ unread' < unread => n > 0 /\ unread - unread' = n
      <4>1. role = "stream" => (n > 0 /\ unread - unread' = n) \/ (n <= 0 /\ unread' = unread)
        BY <2>3
      <4> QED
        BY <3>1, <4>1, TakenCount
    <3>3. unread' < unread => n > 0 \/ (n = 0 /\ role # "stream") \/ ec = "message_size"
      <4>1. unread' < unread => n >= 0 \/ ec = "message_size"
        BY <2>3
      <4>2. n >= 0 => n > 0 \/ n = 0
        BY <2>2 DEF Counts
      <4> QED
        BY <3>2, <4>1, <4>2, Zenon
    <3>4. unread' < unread =>
            TransferEnds(ec, n)
      BY <2>4, <3>3
    <3>5. n > 0 => n >= 0
      BY <2>2 DEF Counts
    <3>6. ~ (room' < room) /\ ~ (waiting' < waiting)
      BY <3>1
    <3>7. unread' < unread /\ role = "stream" => result'.size = unread - unread'
      BY <3>2, <3>4, <3>5 DEF TransferEnds
    <3> QED
      BY <3>4, <3>6, <3>7, Zenon DEF NothingLostBy, TransferEnds
  <2>6. ResetIsTold' /\ told' \in BOOLEAN /\ (told => told')
    BY <2>3, <2>4 DEF Attempt, Safe, ResetIsTold, ResetKept, SyncTypeOK
  <2>11. SyncTypeOK' /\ BacklogKept'
    BY BoundsAssumption, <1>1, <2>3, <2>4, <2>6
    DEF TransferOutcome, Safe, SyncTypeOK, BacklogKept, Results, ResetKept
  <2>7. PlaceOfCall'
    BY <1>1, <1>2, <2>4 DEF TransferOutcome, Safe, PlaceOfCall, OpsOf, Transfers, Looks,
                                  Waits, Queries, Reads
  <2>8. ModeRespected'
    BY <1>1, <2>4 DEF TransferOutcome, ModeRespected, WouldBlock
  <2>9. EndOfStreamIsReal'
    <3>1. (unread = 0 => unread' = 0) /\ (told => told') /\ ended' = ended
      BY <2>3, <2>6
    <3>2. call.op = "sync_recv" /\ role = "stream" => ~ call.empty
      BY <1>1 DEF Safe, PlaceOfCall
    <3> QED
      BY <1>1, <2>4, <3>1, <3>2 DEF TransferOutcome, EndOfStreamIsReal, Returned
  <2>10. OutcomesAreReal'
    BY <1>1, <1>2, <2>4 DEF TransferOutcome, OutcomesAreReal, Returned, Reads
  <2> QED
    BY <2>5, <2>6, <2>7, <2>8, <2>9, <2>10, <2>11 DEF Safe
<1>3. CASE call.op \in Sends
  <2>1. PICK n \in -1..MaxRoom : KernelSend(ec, n) /\ AfterTransfer(ec, n)
    BY <1>3 DEF Attempt, Reads, Sends, Accepts
  <2>2. n \in Counts
    BY BoundsAssumption DEF Counts
  <2>3. /\ UNCHANGED <<unread, ended>> /\ room' \in 0..room /\ ResetKept(ec)
        /\ ec \notin {"connection_aborted", "no_message_available"}
        /\ n >= 0 => ec = "success"
        /\ n = -1 => ec # "success"
        /\ room' < room => n >= 0
    BY <1>1, <2>1, KernelSendEffect DEF Safe
  <2>4. /\ TransferOutcome
        /\ n >= 0 => TransferEnds(ec, n)
        /\ pc' = "idle" /\ result'.done /\ result'.ec = "connection_reset"
             <=> ec = "connection_reset"
    <3>1. call.op \notin Reads
      BY <1>3 DEF Reads, Sends
    <3> QED
      BY <1>1, <1>3, <2>1, <2>2, <2>3, <3>1, AfterTransferEffect DEF Transfers
  <2>5. NothingLostBy(ec)
    BY BoundsAssumption, <1>1, <2>3, <2>4 DEF TransferEnds, NothingLostBy, Safe, SyncTypeOK
  <2>6. ResetIsTold' /\ told' \in BOOLEAN /\ (told => told')
    BY <2>3, <2>4 DEF Attempt, Safe, ResetIsTold, ResetKept, SyncTypeOK
  <2>11. SyncTypeOK' /\ BacklogKept'
    BY BoundsAssumption, <1>1, <2>3, <2>4, <2>6
    DEF TransferOutcome, Safe, SyncTypeOK, BacklogKept, Results, ResetKept
  <2>7. PlaceOfCall'
    BY <1>1, <1>3, <2>4 DEF TransferOutcome, Safe, PlaceOfCall, OpsOf, Transfers, Looks,
                                  Waits, Queries, Sends
  <2>8. ModeRespected'
    BY <1>1, <2>4 DEF TransferOutcome, ModeRespected, WouldBlock
  <2>9. EndOfStreamIsReal' /\ OutcomesAreReal'
    BY <1>1, <1>3, <2>4 DEF TransferOutcome, EndOfStreamIsReal, OutcomesAreReal, Returned, Sends
  <2> QED
    BY <2>5, <2>6, <2>7, <2>8, <2>9, <2>11 DEF Safe
<1> QED
  BY <1>2, <1>3 DEF Transfers

\* What accept makes of an attempt: it is made again after a signal, waits in
\* poll, or ends; with a connection it ends.
LEMMA AfterAcceptEffect ==
  ASSUME SyncTypeOK, call.op \in Accepts, NEW ec \in Codes, AfterAccept(ec)
  PROVE  /\ \/ pc' = "try" /\ UNCHANGED result
            \/ pc' = "poll" /\ UNCHANGED result /\ call.op = "sync_accept"
            \/ /\ pc' = "idle" /\ result' \in Results
               /\ call.op = "sync_accept" => (WouldBlock(result'.ec) => call.flags.nb)
               /\ call.op # "sync_accept" => ~ (WouldBlock(result'.ec) /\ result'.done)
               /\ result'.done /\ result'.ec = "connection_aborted" => call.flags.aborts
               /\ result'.ec = ec
         /\ ec = "success" => pc' = "idle" /\ result'.done /\ result'.ec = "success"
<1> DEFINE passedOver == ec = "connection_aborted" /\ ~ call.flags.aborts
<1>0. 0 \in Counts
  BY BoundsAssumption DEF Counts
<1>1. CASE call.op = "non_blocking_accept"
  <2>1. \/ ec = "interrupted" /\ GoTo("try")
        \/ ec # "interrupted" /\ (passedOver \/ WouldBlock(ec)) /\ Incomplete(ec)
        \/ ~ passedOver /\ ~ WouldBlock(ec) /\ Return(ec, 0)
    BY <1>1 DEF AfterAccept
  <2> QED
    BY <1>0, <1>1, <2>1, ReturnEffect, IncompleteEffect DEF GoTo, WouldBlock
<1>2. CASE call.op = "sync_accept"
  <2>1. \/ (passedOver \/ (WouldBlock(ec) /\ ~ call.flags.nb)) /\ GoTo("poll")
        \/ ~ passedOver /\ ~ (WouldBlock(ec) /\ ~ call.flags.nb) /\ Return(ec, 0)
    BY <1>2 DEF AfterAccept
  <2> QED
    BY <1>0, <1>2, <2>1, ReturnEffect DEF GoTo, WouldBlock
<1> QED
  BY <1>1, <1>2 DEF Accepts

\* Two queues that get no longer stay within what both may hold.
LEMMA SmallerSum ==
  \A a, b, most \in Nat : \A x \in 0..a, y \in 0..b :
     a + b <= most => x + y <= most /\ x \in 0..most /\ y \in 0..most
OBVIOUS

\* Accepting, tried once.
LEMMA AcceptKeepsSafe ==
  ASSUME Safe, call.op \in Accepts, NEW ec \in Codes, Attempt(ec)
  PROVE  Safe' /\ NothingLostBy(ec)
<1>1. /\ pc = "try" /\ UNCHANGED <<role, user, kernelNB, call>>
      /\ UNCHANGED <<unread, room, ended, reset, dial>>
      /\ KernelAccept(ec) /\ AfterAccept(ec)
  BY DEF Attempt, Reads, Sends, Accepts, config, stream
<1>2. /\ waiting' \in 0..waiting /\ aborted' \in 0..aborted
      /\ waiting' < waiting => ec = "success"
      /\ ec # "connection_reset"
  BY <1>1 DEF KernelAccept, Safe, SyncTypeOK, queue
<1>3. /\ \/ pc' = "try" /\ UNCHANGED result
         \/ pc' = "poll" /\ UNCHANGED result /\ call.op = "sync_accept"
         \/ /\ pc' = "idle" /\ result' \in Results
            /\ call.op = "sync_accept" => (WouldBlock(result'.ec) => call.flags.nb)
            /\ call.op # "sync_accept" => ~ (WouldBlock(result'.ec) /\ result'.done)
            /\ result'.done /\ result'.ec = "connection_aborted" => call.flags.aborts
            /\ result'.ec = ec
      /\ ec = "success" => pc' = "idle" /\ result'.done /\ result'.ec = "success"
  BY <1>1, AfterAcceptEffect DEF Safe
<1>4. NothingLostBy(ec)
  BY <1>1, <1>2, <1>3 DEF NothingLostBy, Safe, SyncTypeOK
<1>9. told' = told
  BY <1>2, <1>3 DEF Attempt, Safe, SyncTypeOK
<1>5. SyncTypeOK' /\ BacklogKept' /\ ResetIsTold'
  <2>1. waiting \in Nat /\ aborted \in Nat /\ MaxBacklog \in Nat /\ waiting + aborted <= MaxBacklog
    BY BoundsAssumption DEF Safe, SyncTypeOK, BacklogKept
  <2>2. BacklogKept' /\ waiting' \in 0..MaxBacklog /\ aborted' \in 0..MaxBacklog
    BY <1>2, <2>1, SmallerSum DEF BacklogKept
  <2> QED
    BY <1>1, <1>3, <1>9, <2>2 DEF Safe, SyncTypeOK, Results, ResetIsTold
<1>6. PlaceOfCall'
  BY <1>1, <1>3 DEF Safe, PlaceOfCall, OpsOf, Transfers, Looks, Waits, Queries, Accepts, Reads,
                    Sends, Synced
<1>7. ModeRespected'
  BY <1>1, <1>3 DEF ModeRespected, WouldBlock, Synced, Accepts, Reads, Sends
<1>8. EndOfStreamIsReal' /\ OutcomesAreReal'
  BY <1>1, <1>3 DEF EndOfStreamIsReal, OutcomesAreReal, Returned, Accepts
<1> QED
  BY <1>4, <1>5, <1>6, <1>7, <1>8 DEF Safe

\* Connecting, tried once: what ends at once was answered, and what goes on is
\* waited for or looked at.
LEMMA ConnectKeepsSafe ==
  ASSUME Safe, call.op \in Connects, NEW ec \in Codes, Attempt(ec)
  PROVE  Safe' /\ NothingLostBy(ec)
<1>1. /\ pc = "try" /\ UNCHANGED <<role, user, kernelNB, call>>
      /\ UNCHANGED <<unread, room, ended, reset, waiting, aborted>>
  BY DEF Attempt, Reads, Sends, Accepts, Connects, config, stream, queue, network
<1>2. 0 \in Counts /\ result.ec \in Codes /\ result \in Results
  BY BoundsAssumption DEF Safe, SyncTypeOK, Counts, Results
<1>3. CASE call.op = "sync_connect"
  <2>1. KernelConnect(ec) /\ AfterConnect(ec)
    BY <1>3 DEF Attempt, Reads, Sends, Accepts
  <2>2. /\ dial' \in Dials
        /\ ec = "success" => dial' = "up"
        /\ ec # "connection_aborted" /\ ec # "connection_reset"
    BY <2>1, Zenon DEF KernelConnect, Dials
  <2>3. \/ pc' = "poll" /\ UNCHANGED result
        \/ /\ pc' = "idle" /\ result' \in Results /\ ~ WouldBlock(result'.ec)
           /\ result'.ec = ec
    BY <1>2, <2>1, ReturnEffect DEF AfterConnect, GoTo, WouldBlock
  <2>7. told' = told
    BY <2>2, <2>3 DEF Attempt, Safe, SyncTypeOK
  <2>4. SyncTypeOK' /\ BacklogKept' /\ ResetIsTold' /\ NothingLostBy(ec)
    BY <1>1, <1>2, <2>2, <2>3, <2>7
    DEF Safe, SyncTypeOK, BacklogKept, NothingLostBy, Results, ResetIsTold
  <2>5. PlaceOfCall'
    BY <1>1, <1>3, <2>3 DEF Safe, PlaceOfCall, OpsOf, Transfers, Looks, Waits, Queries, Reads,
                            Sends, Synced
  <2>6. ModeRespected' /\ EndOfStreamIsReal' /\ OutcomesAreReal'
    BY <1>1, <1>3, <2>2, <2>3 DEF ModeRespected, EndOfStreamIsReal, OutcomesAreReal, Returned,
                                  WouldBlock, Reads, Sends
  <2> QED
    BY <2>4, <2>5, <2>6 DEF Safe
<1>4. CASE call.op = "non_blocking_connect"
  <2>1. CheckConnect(ec) /\ UNCHANGED dial
    BY <1>4 DEF Attempt, Reads, Sends, Accepts, network
  <2>2. \/ pc' = "status" /\ UNCHANGED result
        \/ pc' = "idle" /\ result' \in Results /\ ~ result'.done
    BY <1>2, <2>1, IncompleteEffect DEF CheckConnect, GoTo, Safe
  <2>6. told' = told
    BY <2>2 DEF Attempt, Safe, SyncTypeOK
  <2>3. SyncTypeOK' /\ BacklogKept' /\ ResetIsTold' /\ NothingLostBy(ec)
    BY <1>1, <1>2, <2>1, <2>2, <2>6
    DEF Safe, SyncTypeOK, BacklogKept, NothingLostBy, Results, ResetIsTold
  <2>4. PlaceOfCall'
    BY <1>1, <1>4, <2>1, <2>2 DEF Safe, PlaceOfCall, OpsOf, Transfers, Looks, Waits, Queries,
                                  Reads, Sends, Synced, Connects
  <2>5. ModeRespected' /\ EndOfStreamIsReal' /\ OutcomesAreReal'
    BY <1>1, <1>4, <2>2 DEF ModeRespected, EndOfStreamIsReal, OutcomesAreReal, Returned,
                            Reads, Sends, Synced
  <2> QED
    BY <2>3, <2>4, <2>5 DEF Safe
<1> QED
  BY <1>3, <1>4 DEF Connects

-----------------------------------------------------------------------------
(* The other steps of a call, and those of its caller.                     *)

\* An attempt to connect that poll has seen the end of has ended.
LEMMA ReadyToConnect ==
  ASSUME Safe, call.op \in Connects, Ready
  PROVE  dial \in {"up", "failed"}
<1>1. role = "dialer"
  BY DEF Safe, SyncTypeOK, PlaceOfCall, Connects, OpsOf, Waits, Queries, Reads, Sends, Accepts, Roles
<1>2. Writable
  BY DEF Ready, Connects, Reads, Accepts, Sends
<1> QED
  BY <1>1, <1>2, Zenon DEF Writable

\* Waiting in poll.
LEMMA PollKeepsSafe ==
  ASSUME Safe, NEW ec \in Codes, Poll(ec)
  PROVE  Safe'
<1>1. /\ pc = "poll" /\ call.op \in Synced /\ UNCHANGED <<role, user, kernelNB, call>>
      /\ UNCHANGED <<unread, room, ended, reset, told, waiting, aborted, dial>>
      /\ 0 \in Counts
  BY BoundsAssumption DEF Poll, config, network, stream, queue, Safe, PlaceOfCall, Counts
<1>2. \/ pc' = "try" /\ UNCHANGED result
      \/ pc' = "status" /\ UNCHANGED result /\ call.op = "sync_connect"
         /\ dial \in {"up", "failed"}
      \/ pc' = "idle" /\ result' \in Results /\ result'.ec = "interrupted"
  BY <1>1, ReturnEffect, ReadyToConnect DEF Poll, GoTo, Connects
<1>3. SyncTypeOK' /\ BacklogKept' /\ ResetIsTold'
  BY <1>1, <1>2 DEF Safe, SyncTypeOK, BacklogKept, ResetIsTold, Results
<1>4. PlaceOfCall'
  BY <1>1, <1>2 DEF Safe, PlaceOfCall, OpsOf, Looks, Waits, Queries, Connects, Synced
<1>5. ModeRespected' /\ EndOfStreamIsReal' /\ OutcomesAreReal'
  BY <1>1, <1>2 DEF ModeRespected, EndOfStreamIsReal, OutcomesAreReal, Returned, WouldBlock
<1> QED
  BY <1>3, <1>4, <1>5 DEF Safe

\* Asking how an attempt to connect ended.
LEMMA StatusKeepsSafe ==
  ASSUME Safe, NEW ec \in Codes, Status(ec)
  PROVE  Safe'
<1>1. /\ pc = "status" /\ call.op \in Connects /\ UNCHANGED <<role, user, kernelNB, call>>
      /\ UNCHANGED <<unread, room, ended, reset, told, waiting, aborted>>
      /\ 0 \in Counts
      /\ call.op = "sync_connect" => dial \in {"up", "failed"}
  BY BoundsAssumption DEF Status, config, stream, queue, Safe, PlaceOfCall, Counts
<1>2. /\ ec \in {"success", "connection_refused"}
      /\ dial' \in Dials /\ (ec = "success" => dial' = dial)
  BY DEF Status, KernelStatus, Safe, SyncTypeOK, Dials
<1>3. pc' = "idle" /\ result' \in Results /\ result'.ec = ec
  BY <1>1, ReturnEffect DEF Status
<1>4. SyncTypeOK' /\ BacklogKept' /\ ResetIsTold'
  BY <1>1, <1>2, <1>3 DEF Safe, SyncTypeOK, BacklogKept, ResetIsTold, Results
<1>5. PlaceOfCall'
  BY <1>1, <1>3 DEF Safe, PlaceOfCall, OpsOf
<1>6. ModeRespected' /\ EndOfStreamIsReal' /\ OutcomesAreReal'
  BY <1>1, <1>2, <1>3 DEF ModeRespected, EndOfStreamIsReal, OutcomesAreReal, Returned, WouldBlock,
                          Connects
<1> QED
  BY <1>4, <1>5, <1>6 DEF Safe

\* wait and has_state.
LEMMA LookKeepsSafe ==
  ASSUME Safe, NEW ec \in Codes, Look(ec)
  PROVE  Safe'
<1>1. /\ pc = "look" /\ call.op \in Looks /\ UNCHANGED <<role, user, kernelNB, call>>
      /\ UNCHANGED <<unread, room, ended, reset, told, waiting, aborted, dial>>
      /\ 0 \in Counts /\ 1 \in Counts
  BY BoundsAssumption DEF Look, config, network, stream, queue, Safe, PlaceOfCall, Counts
<1>2. /\ pc' = "idle" /\ result' \in Results
      /\ result'.ec \in {"success", "interrupted", "operation_would_block"}
      /\ result'.ec = "operation_would_block" => call.op \in Queries
  BY <1>1, ReturnEffect DEF Look
<1>3. SyncTypeOK' /\ BacklogKept' /\ ResetIsTold'
  BY <1>1, <1>2 DEF Safe, SyncTypeOK, BacklogKept, ResetIsTold, Results
<1>4. PlaceOfCall'
  BY <1>1, <1>2 DEF Safe, PlaceOfCall, OpsOf
<1>5. ModeRespected' /\ EndOfStreamIsReal' /\ OutcomesAreReal'
  BY <1>1, <1>2 DEF ModeRespected, EndOfStreamIsReal, OutcomesAreReal, Returned, WouldBlock, Looks,
                    Waits, Queries, Synced
<1> QED
  BY <1>3, <1>4, <1>5 DEF Safe

\* An operation is called.
LEMMA CallKeepsSafe ==
  ASSUME Safe, NEW op \in Ops, NEW empty \in BOOLEAN, Call(op, empty)
  PROVE  Safe'
<1>1. /\ pc = "idle" /\ op \in OpsOf(role) /\ UNCHANGED <<role, user, kernelNB>>
      /\ UNCHANGED <<unread, room, ended, reset, told, waiting, aborted, dial>>
      /\ call' = [op |-> op, flags |-> user, empty |-> empty]
      /\ 0 \in Counts
  BY BoundsAssumption DEF Call, config, network, stream, queue, Counts
<1>2. CASE empty /\ role = "stream" /\ op \in {"sync_recv", "sync_send"}
  <2>1. Return("success", 0)
    BY <1>2, Zenon DEF Call
  <2>2. pc' = "idle" /\ result' \in Results /\ result'.ec = "success"
    BY <1>1, <2>1, ReturnEffect DEF Codes
  <2>3. SyncTypeOK' /\ BacklogKept' /\ ResetIsTold'
    BY <1>1, <2>2 DEF Safe, SyncTypeOK, BacklogKept, ResetIsTold, Results
  <2>4. PlaceOfCall'
    BY <1>1, <2>2 DEF Safe, PlaceOfCall, OpsOf
  <2>5. ModeRespected' /\ EndOfStreamIsReal' /\ OutcomesAreReal'
    BY <1>1, <1>2, <2>2 DEF ModeRespected, EndOfStreamIsReal, OutcomesAreReal, Returned, WouldBlock
  <2> QED
    BY <2>3, <2>4, <2>5 DEF Safe
<1>3. CASE ~ (empty /\ role = "stream" /\ op \in {"sync_recv", "sync_send"})
  <2>1. UNCHANGED result /\ pc' = IF op \in Looks THEN "look" ELSE "try"
    BY <1>3 DEF Call, GoTo, Looks
  <2>2. SyncTypeOK' /\ BacklogKept' /\ ResetIsTold'
    BY <1>1, <2>1 DEF Safe, SyncTypeOK, BacklogKept, ResetIsTold
  <2>3. PlaceOfCall'
    BY <1>1, <1>3, <2>1 DEF Safe, PlaceOfCall, OpsOf
  <2>4. ModeRespected' /\ EndOfStreamIsReal' /\ OutcomesAreReal'
    BY <1>1, <2>1 DEF ModeRespected, EndOfStreamIsReal, OutcomesAreReal, Returned
  <2> QED
    BY <2>2, <2>3, <2>4 DEF Safe
<1> QED
  BY <1>2, <1>3

\* Nothing is claimed of the flags of the descriptor.
LEMMA SameCallStaysSafe ==
  ASSUME Safe, user' \in UserFlags, kernelNB' \in BOOLEAN,
         UNCHANGED <<role, pc, call, result>>,
         UNCHANGED <<unread, room, ended, reset, told, waiting, aborted, dial>>
  PROVE  Safe'
<1>1. SyncTypeOK' /\ BacklogKept' /\ ResetIsTold'
  BY DEF Safe, SyncTypeOK, BacklogKept, ResetIsTold
<1>2. PlaceOfCall'
  BY DEF Safe, PlaceOfCall, OpsOf
<1>3. ModeRespected' /\ EndOfStreamIsReal' /\ OutcomesAreReal'
  BY DEF Safe, ModeRespected, EndOfStreamIsReal, OutcomesAreReal, Returned
<1> QED
  BY <1>1, <1>2, <1>3 DEF Safe

\* The flags change between calls: a call has its own copy.
LEMMA FlagsKeepSafe ==
  ASSUME Safe, NEW b \in BOOLEAN, SetNonBlocking(b) \/ SetReportAborted(b)
  PROVE  Safe'
<1>1. /\ user' \in UserFlags /\ kernelNB' \in BOOLEAN /\ UNCHANGED <<role, pc, call, result>>
      /\ UNCHANGED <<unread, room, ended, reset, told, waiting, aborted, dial>>
  BY DEF SetNonBlocking, SetReportAborted, network, stream, queue, Safe, SyncTypeOK, UserFlags
<1> QED
  BY <1>1, SameCallStaysSafe

\* The network: what has ended stays ended and empty, and an attempt to connect
\* that ended does not begin again.
LEMMA NetworkKeepsSafe ==
  ASSUME Safe, Network
  PROVE  Safe'
<1>1. UNCHANGED <<role, user, kernelNB, told, pc, call, result>>
  BY DEF Network, config
<1>2. /\ unread' \in 0..MaxUnread /\ room' \in 0..MaxRoom
      /\ ended' \in BOOLEAN /\ reset' \in Resets
      /\ (ended \/ reset # "no") /\ unread = 0 => unread' = 0
      /\ ended => ended'
      /\ reset # "no" => reset' = reset
      /\ reset' = "reported" => reset' = reset
  <2>0. unread \in 0..MaxUnread /\ room \in 0..MaxRoom /\ ended \in BOOLEAN
        /\ reset \in Resets /\ "pending" \in Resets
        /\ MaxUnread \in Nat /\ MaxRoom \in Nat
    BY BoundsAssumption DEF Safe, SyncTypeOK, Resets
  <2>1. CASE DataArrives
    BY <2>0, <2>1 DEF DataArrives
  <2>2. CASE DatagramDropped
    BY <2>0, <2>2 DEF DatagramDropped
  <2>3. CASE DataLeaves
    BY <2>0, <2>3 DEF DataLeaves
  <2>4. CASE PeerEnds
    BY <2>0, <2>4 DEF PeerEnds
  <2>5. CASE PeerResets
    BY <2>0, <2>5 DEF PeerResets
  <2>6. CASE UNCHANGED stream
    BY <2>0, <2>6 DEF stream
  <2> QED
    BY <2>1, <2>2, <2>3, <2>4, <2>5, <2>6 DEF Network
<1>3. waiting' \in 0..MaxBacklog /\ aborted' \in 0..MaxBacklog /\ BacklogKept'
  BY BoundsAssumption DEF Network, ConnectionArrives, ConnectionAborts, queue, Safe, SyncTypeOK,
                          BacklogKept
<1>4. dial' \in Dials /\ (dial' = dial \/ dial' \in {"up", "failed"})
  BY DEF Network, DialAnswered, Safe, SyncTypeOK, Dials
<1>5. SyncTypeOK' /\ PlaceOfCall' /\ ResetIsTold'
  <2>1. SyncTypeOK'
    BY <1>1, <1>2, <1>3, <1>4 DEF Safe, SyncTypeOK
  <2>2. PlaceOfCall'
    BY <1>1, <1>4 DEF Safe, PlaceOfCall, OpsOf
  <2>3. ResetIsTold'
    BY <1>1, <1>2 DEF Safe, ResetIsTold
  <2> QED
    BY <2>1, <2>2, <2>3
<1>6. ModeRespected'
  BY <1>1 DEF Safe, ModeRespected
<1>7. EndOfStreamIsReal'
  <2>1. unread = 0 /\ (ended \/ told) => unread' = 0 /\ (ended' \/ told')
    BY <1>1, <1>2 DEF Safe, ResetIsTold
  <2>2. role' = role /\ pc' = pc /\ call' = call /\ result' = result
    BY <1>1
  <2> QED
    BY <2>1, <2>2 DEF Safe, EndOfStreamIsReal, Returned
<1>8. OutcomesAreReal'
  BY <1>1, <1>4 DEF Safe, OutcomesAreReal, Returned
<1> QED
  BY <1>3, <1>5, <1>6, <1>7, <1>8 DEF Safe

-----------------------------------------------------------------------------
(* The theorems.                                                           *)

\* Before the first call nothing is claimed of a result.
LEMMA SafeInit == Init => Safe
<1> SUFFICES ASSUME Init PROVE Safe
  OBVIOUS
<1>1. call \in [op : Ops, flags : UserFlags, empty : BOOLEAN]
  <2>1. OpsOf(role) \subseteq Ops
    BY DEF Init, Roles, OpsOf, Ops
  <2>2. user \in UserFlags
    BY DEF Init, UserFlags
  <2> QED
    BY <2>1, <2>2 DEF Init
<1>2. result \in Results
  BY BoundsAssumption DEF Init, Results, Codes
<1>3. SyncTypeOK /\ BacklogKept
  <2>1. /\ unread \in 0..MaxUnread /\ room \in 0..MaxRoom
        /\ waiting \in 0..MaxBacklog /\ aborted \in 0..MaxBacklog /\ BacklogKept
    BY BoundsAssumption DEF Init, BacklogKept
  <2>2. user \in UserFlags
    BY DEF Init, UserFlags
  <2>3. /\ role \in Roles /\ kernelNB \in BOOLEAN /\ ended \in BOOLEAN /\ reset \in Resets
        /\ told \in BOOLEAN /\ dial \in Dials /\ pc \in {"idle", "try", "poll", "status", "look"}
    BY DEF Init, Dials, Resets
  <2> QED
    BY <1>1, <1>2, <2>1, <2>2, <2>3, Zenon DEF SyncTypeOK, Results
<1>4. PlaceOfCall /\ ResetIsTold
  BY DEF Init, PlaceOfCall, ResetIsTold
<1>5. ModeRespected /\ EndOfStreamIsReal /\ OutcomesAreReal
  BY DEF Init, ModeRespected, EndOfStreamIsReal, OutcomesAreReal, WouldBlock, Returned
<1> QED
  BY <1>3, <1>4, <1>5 DEF Safe

\* An attempt of any operation.
LEMMA AttemptKeepsSafe ==
  ASSUME Safe, NEW ec \in Codes, Attempt(ec)
  PROVE  Safe' /\ NothingLostBy(ec)
<1>1. call.op \in Transfers \cup Accepts \cup Connects
  BY DEF Attempt, Transfers, Connects
<1> QED
  BY <1>1, TransferKeepsSafe, AcceptKeepsSafe, ConnectKeepsSafe

\* Every step keeps what is claimed.
LEMMA SafeNext == Safe /\ [Next]_vars => Safe'
<1> SUFFICES ASSUME Safe, [Next]_vars PROVE Safe'
  OBVIOUS
<1>1. ASSUME NEW ec \in Codes, Step(ec) PROVE Safe'
  BY <1>1, AttemptKeepsSafe, PollKeepsSafe, StatusKeepsSafe, LookKeepsSafe DEF Step
<1>2. ASSUME NEW op \in Ops, NEW empty \in BOOLEAN, Call(op, empty) PROVE Safe'
  BY <1>2, CallKeepsSafe
<1>3. ASSUME NEW b \in BOOLEAN, SetNonBlocking(b) \/ SetReportAborted(b) PROVE Safe'
  BY <1>3, FlagsKeepSafe
<1>4. CASE Network
  BY <1>4, NetworkKeepsSafe
<1>5. CASE UNCHANGED vars
  <2>1. user' \in UserFlags /\ kernelNB' \in BOOLEAN
    BY <1>5 DEF vars, config, Safe, SyncTypeOK
  <2> QED
    BY <1>5, <2>1, SameCallStaysSafe DEF vars, config, network, stream, queue
<1> QED
  BY <1>1, <1>2, <1>3, <1>4, <1>5 DEF Next

\* What is claimed holds throughout.
LEMMA AlwaysSafe == Spec => []Safe
<1>1. Init => Safe
  BY SafeInit
<1>2. Safe /\ [Next]_vars => Safe'
  BY SafeNext
<1> QED
  BY <1>1, <1>2, PTL DEF Spec

\* No operation writes a variable with a value it is not meant to have, whatever
\* the system calls answer: the count -1 of a failed raw call included.
THEOREM TypeCorrect == Spec => []SyncTypeOK
<1>1. Safe => SyncTypeOK
  BY DEF Safe
<1> QED
  BY <1>1, AlwaysSafe, PTL

\* The mode the caller chose decides, never that of the descriptor.
THEOREM ModeRespectedAlways == Spec => []ModeRespected
<1>1. Safe => ModeRespected
  BY DEF Safe
<1> QED
  BY <1>1, AlwaysSafe, PTL

\* sync_recv, and non_blocking_recv unless it was given empty buffers, report
\* the end of a stream only when every byte was read and the peer has ended it
\* or the caller was told of a reset before; sync_recv returns no bytes without
\* an error only to a caller that asked for none.
THEOREM EndOfStreamIsRealAlways == Spec => []EndOfStreamIsReal
<1>1. Safe => EndOfStreamIsReal
  BY DEF Safe
<1> QED
  BY <1>1, AlwaysSafe, PTL

\* Accept hides aborted connections unless told not to, and sync_connect knows
\* the answer when it reports success.
THEOREM OutcomesAreRealAlways == Spec => []OutcomesAreReal
<1>1. Safe => OutcomesAreReal
  BY DEF Safe
<1> QED
  BY <1>1, AlwaysSafe, PTL

\* What a step takes from the descriptor it gives to the caller.
THEOREM NothingIsLost == Spec => NothingLost
<1>1. Safe /\ [Next]_vars =>
        [\A ec \in Codes : Attempt(ec) =>
           /\ unread' < unread =>
                /\ pc' = "idle" /\ result'.done /\ result'.ec = ec
                /\ role = "stream" => result'.size = unread - unread'
           /\ room' < room => pc' = "idle" /\ result'.ec = "success"
           /\ waiting' < waiting => pc' = "idle" /\ result'.done /\ result'.ec = "success"]_vars
  BY AttemptKeepsSafe DEF NothingLostBy
<1> QED
  BY <1>1, AlwaysSafe, PTL DEF Spec, NothingLost

=============================================================================
