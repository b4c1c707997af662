----------------------------- MODULE EchoServer -----------------------------
(***************************************************************************)
(* The demo server, proj.win32/NetLiteServer/main.cpp: one thread that in   *)
(* turn looks for a connection to accept and passes over its clients,       *)
(* reading from each what is available and writing to it what was left for  *)
(* it.  The first character of what is read is the index of the client it   *)
(* is for, and ClientMsgs holds one text for each index.  Every socket is   *)
(* in non-blocking mode and every call is the one that throws: main catches *)
(* nothing, so an exception ends the server ("dead").                       *)
(*                                                                         *)
(* One step per system call; connections come, write, read, end and break   *)
(* between any two.  What a peer writes at once is a unit, with its first   *)
(* character; the zero bytes that pad a text are left out.                  *)
(***************************************************************************)
EXTENDS Integers, FiniteSets, Sequences, Functions, SequencesExt

CONSTANTS
  Peers,         \* connections that are attempted
  Digits,        \* client indices a first character can name
  MaxWrites,     \* units the peers write, all together
  MaxUnread,     \* units a receive queue holds
  MaxRoom,       \* units a send queue holds
  Backlog,       \* connections the listen queue holds
  BufferSize     \* units the server's buffer holds

ASSUME ConstantsAssumption ==
  /\ IsFiniteSet(Peers)
  /\ Digits \subseteq Nat
  /\ {MaxWrites, MaxUnread, MaxRoom, Backlog, BufferSize} \subseteq Nat \ {0}

VARIABLES
  pc,          \* where the server is
  todo,        \* the clients this pass has still to come to
  client,      \* the index of the client it serves
  buffer,      \* what it has just read
  Clients,     \* index -> peer
  ClientMsgs,  \* index -> the text left for it
  conn,        \* how far each connection is
  queue,       \* the listen queue
  inbox,       \* per peer, the receive queue of the server's socket
  space,       \* per peer, what the send queue of the server's socket has room for
  sent,        \* per peer, what each send of the server wrote (history)
  written,     \* per peer, the number of units it wrote
  ended,       \* the peer has finished writing
  broken       \* the connection was reset

progress == <<pc, todo, client, buffer>>
tables   == <<Clients, ClientMsgs>>
sockets  == <<inbox, space, written, ended, broken>>
vars     == <<progress, tables, conn, queue, sent, sockets>>

Units == [from : Peers, no : Nat \ {0}, to : Digits]

\* The indices given out so far are 0, 1, ...
ClientIndex == Cardinality(DOMAIN Clients)

Peer == Clients[client]

\* table[key] = value
Put(table, key, value) ==
  [k \in DOMAIN table \cup {key} |-> IF k = key THEN value ELSE table[k]]

TypeOK ==
  /\ pc \in {"pending", "accept", "accept_poll", "greet", "next", "readable", "available",
             "receive", "store", "writable", "send", "dead"}
  /\ todo \subseteq DOMAIN Clients
  /\ client \in Nat
  /\ buffer \in Seq(Units) /\ Len(buffer) <= BufferSize
  /\ ClientIndex \in Nat /\ Clients \in [0..(ClientIndex - 1) -> Peers]
  /\ DOMAIN ClientMsgs \subseteq Digits
  /\ \A i \in DOMAIN ClientMsgs : ClientMsgs[i] \in Seq(Units)
  /\ conn \in [Peers -> {"none", "queued", "aborted", "gone", "up"}]
  /\ queue \in Seq(Peers) /\ Len(queue) <= Backlog
  /\ inbox \in [Peers -> Seq(Units)]
  /\ space \in [Peers -> 0..MaxRoom]
  /\ sent \in [Peers -> Seq(Seq(Units))]
  /\ written \in [Peers -> Nat]
  /\ ended \in [Peers -> BOOLEAN] /\ broken \in [Peers -> BOOLEAN]

-----------------------------------------------------------------------------
(* The server.                                                             *)

Lesser(a, b) == IF a < b THEN a ELSE b

GoTo(place) == pc' = place /\ UNCHANGED <<todo, client, buffer>>

\* The end of the loop's body, where client and buffer go out of scope.
EndTurn == pc' = "next" /\ client' = 0 /\ buffer' = <<>> /\ UNCHANGED todo

\* An exception nobody catches.
Throw == GoTo("dead")

BeginPass(clients) == pc' = "next" /\ todo' = clients /\ client' = 0 /\ UNCHANGED buffer

\* Fault: the server accepts without looking.
PendingAlways ==
  /\ pc = "pending" /\ GoTo("accept")
  /\ UNCHANGED <<tables, conn, queue, sent, sockets>>

\* has_pending_accept(): a listener has no error state, so the first of its two
\* polls always says no; the second looks at the listen queue.
Pending ==
  /\ pc = "pending"
  /\ IF queue # <<>> THEN GoTo("accept") ELSE BeginPass(DOMAIN Clients)
  /\ UNCHANGED <<tables, conn, queue, sent, sockets>>

\* Fault: the index is incremented first.
InsertPreIncrement(p) ==
  Clients' = Put(Clients, ClientIndex + 1, p) /\ client' = ClientIndex + 1

\* The new client is put into the map and served, for now, as client.
Insert(p) == Clients' = Put(Clients, ClientIndex, p) /\ client' = ClientIndex

\* accept(): in non-blocking mode an empty queue is an error; an aborted
\* connection is passed over, but then the next one is waited for.
Accept ==
  /\ pc = "accept"
  /\ \/ queue = <<>> /\ Throw /\ UNCHANGED <<tables, conn, queue>>
     \/ /\ queue # <<>> /\ queue' = Tail(queue)
        /\ \/ /\ conn[Head(queue)] = "queued"
              /\ conn' = [conn EXCEPT ![Head(queue)] = "up"]
              /\ Insert(Head(queue))
              /\ pc' = "greet"
              /\ UNCHANGED <<todo, buffer, ClientMsgs>>
           \/ /\ conn[Head(queue)] = "aborted"
              /\ conn' = [conn EXCEPT ![Head(queue)] = "gone"]
              /\ GoTo("accept_poll")
              /\ UNCHANGED tables
  /\ UNCHANGED <<sent, sockets>>

\* The poll of sync_accept, without a timeout.
AcceptPoll ==
  /\ pc = "accept_poll" /\ queue # <<>>
  /\ GoTo("accept")
  /\ UNCHANGED <<tables, conn, queue, sent, sockets>>

\* remote_endpoint() of a connection that is gone throws not_connected.
Greet ==
  /\ pc = "greet"
  /\ IF broken[Peer] THEN Throw ELSE BeginPass(DOMAIN Clients)
  /\ UNCHANGED <<tables, conn, queue, sent, sockets>>

\* The clients are passed over in the order of an unordered_map.  After the last
\* one the server sleeps and begins again.
NextClient ==
  /\ pc = "next"
  /\ IF todo = {} THEN GoTo("pending")
     ELSE \E c \in todo :
            pc' = "readable" /\ client' = c /\ todo' = todo \ {c} /\ UNCHANGED buffer
  /\ UNCHANGED <<tables, conn, queue, sent, sockets>>

\* Fault: the state of a client is waited for.
ReadableWaits ==
  /\ pc = "readable"
  /\ inbox[Peer] # <<>> \/ ended[Peer] \/ broken[Peer]
  /\ GoTo("available")
  /\ UNCHANGED <<tables, conn, queue, sent, sockets>>

\* has_state(readable): bytes, the end of the stream and an error all count.
Readable ==
  /\ pc = "readable"
  /\ GoTo(IF inbox[Peer] # <<>> \/ ended[Peer] \/ broken[Peer]
          THEN "available" ELSE "writable")
  /\ UNCHANGED <<tables, conn, queue, sent, sockets>>

Available ==
  /\ pc = "available"
  /\ GoTo(IF inbox[Peer] # <<>> THEN "receive" ELSE "writable")
  /\ UNCHANGED <<tables, conn, queue, sent, sockets>>

\* receive(): what it finds, up to the size of the buffer.  There is nothing to
\* find, and connection_reset is thrown, if a reset has emptied the queue.
Receive ==
  /\ pc = "receive"
  /\ \/ inbox[Peer] = <<>> /\ Throw /\ UNCHANGED inbox
     \/ \E n \in 1..Lesser(Len(inbox[Peer]), BufferSize) :
          /\ buffer' = SubSeq(inbox[Peer], 1, n)
          /\ inbox' = [inbox EXCEPT ![Peer] = SubSeq(@, n + 1, Len(@))]
          /\ pc' = "store" /\ UNCHANGED <<todo, client>>
  /\ UNCHANGED <<tables, conn, queue, sent, space, written, ended, broken>>

\* Fault: what is read is put after what is there.
StoreAppends ==
  /\ pc = "store"
  /\ LET to == Head(buffer).to
         old == IF to \in DOMAIN ClientMsgs THEN ClientMsgs[to] ELSE <<>>
     IN  ClientMsgs' = Put(ClientMsgs, to, old \o buffer)
  /\ GoTo("writable")
  /\ UNCHANGED <<Clients, conn, queue, sent, sockets>>

\* The text is printed with the address it came from, and then replaces the one
\* left for the client that its first character names; that character, which is
\* not kept, is a detail of the first unit.
Store ==
  /\ pc = "store"
  /\ IF broken[Peer] THEN Throw /\ UNCHANGED ClientMsgs
     ELSE GoTo("writable") /\ ClientMsgs' = Put(ClientMsgs, Head(buffer).to, buffer)
  /\ UNCHANGED <<Clients, conn, queue, sent, sockets>>

\* Fault: nothing is written to a client that has finished writing.
WritableUnlessEnded ==
  /\ pc = "writable"
  /\ IF space[Peer] > 0 /\ ~ ended[Peer] /\ client \in DOMAIN ClientMsgs
     THEN GoTo("send") ELSE EndTurn
  /\ UNCHANGED <<tables, conn, queue, sent, sockets>>

\* has_state(writable), and the search of ClientMsgs.  A text that was sent is
\* still there, empty, and is sent again.
Writable ==
  /\ pc = "writable"
  /\ IF (space[Peer] > 0 \/ broken[Peer]) /\ client \in DOMAIN ClientMsgs
     THEN GoTo("send") ELSE EndTurn
  /\ UNCHANGED <<tables, conn, queue, sent, sockets>>

\* Fault: a text of which only a part was sent is sent again.
SendAgain ==
  /\ pc = "send"
  /\ LET text == ClientMsgs[client]
     IN \E n \in 0..Lesser(Len(text), space[Peer]) :
          /\ sent' = [sent EXCEPT ![Peer] = IF n = 0 THEN @ ELSE Append(@, SubSeq(text, 1, n))]
          /\ space' = [space EXCEPT ![Peer] = @ - n]
          /\ ClientMsgs' = IF n = Len(text) THEN [ClientMsgs EXCEPT ![client] = <<>>]
                                            ELSE ClientMsgs
  /\ EndTurn
  /\ UNCHANGED <<Clients, conn, queue, inbox, written, ended, broken>>

\* send() writes what there is room for, at least one unit of a text that is not
\* empty; whatever it wrote, the text is then cleared.
Send ==
  /\ pc = "send"
  /\ LET text == ClientMsgs[client]
     IN  IF broken[Peer]
         THEN Throw /\ UNCHANGED <<ClientMsgs, sent, space>>
         ELSE /\ \/ text = <<>> /\ UNCHANGED <<sent, space>>
                 \/ \E n \in 1..Lesser(Len(text), space[Peer]) :
                      /\ sent' = [sent EXCEPT ![Peer] = Append(@, SubSeq(text, 1, n))]
                      /\ space' = [space EXCEPT ![Peer] = @ - n]
              /\ ClientMsgs' = [ClientMsgs EXCEPT ![client] = <<>>]
              /\ EndTurn
  /\ UNCHANGED <<Clients, conn, queue, inbox, written, ended, broken>>

Server ==
  \/ Pending \/ Accept \/ AcceptPoll \/ Greet
  \/ NextClient \/ Readable \/ Available \/ Receive \/ Store \/ Writable \/ Send

-----------------------------------------------------------------------------
(* The peers and the network.                                              *)

Connect(p) ==
  /\ conn[p] = "none" /\ Len(queue) < Backlog
  /\ conn' = [conn EXCEPT ![p] = "queued"]
  /\ queue' = Append(queue, p)
  /\ UNCHANGED <<progress, tables, sent, sockets>>

\* A connection dies in the listen queue: some systems drop it, others keep it
\* there for accept to report, and on others it is accepted broken (Reset).
Abort(p) ==
  /\ conn[p] = "queued"
  /\ \/ /\ conn' = [conn EXCEPT ![p] = "gone"]
        /\ \E i \in DOMAIN queue : queue[i] = p /\ queue' = RemoveAt(queue, i)
     \/ conn' = [conn EXCEPT ![p] = "aborted"] /\ UNCHANGED queue
  /\ UNCHANGED <<progress, tables, sent, sockets>>

\* A reset may throw away what was not read yet.
Reset(p) ==
  /\ conn[p] \in {"queued", "up"} /\ ~ broken[p]
  /\ broken' = [broken EXCEPT ![p] = TRUE]
  /\ \/ UNCHANGED inbox
     \/ inbox' = [inbox EXCEPT ![p] = <<>>]
  /\ UNCHANGED <<progress, tables, conn, queue, sent, space, written, ended>>

Write(p, to) ==
  /\ conn[p] \in {"queued", "up"} /\ ~ ended[p] /\ ~ broken[p]
  /\ FoldFunction(+, 0, written) < MaxWrites /\ Len(inbox[p]) < MaxUnread
  /\ written' = [written EXCEPT ![p] = @ + 1]
  /\ inbox' = [inbox EXCEPT ![p] = Append(@, [from |-> p, no |-> written'[p], to |-> to])]
  /\ UNCHANGED <<progress, tables, conn, queue, sent, space, ended, broken>>

End(p) ==
  /\ conn[p] \in {"queued", "up"} /\ ~ ended[p] /\ ~ broken[p]
  /\ ended' = [ended EXCEPT ![p] = TRUE]
  /\ UNCHANGED <<progress, tables, conn, queue, sent, inbox, space, written, broken>>

Read(p) ==
  /\ ~ broken[p] /\ space[p] < MaxRoom
  /\ space' = [space EXCEPT ![p] = @ + 1]
  /\ UNCHANGED <<progress, tables, conn, queue, sent, inbox, written, ended, broken>>

\* When the server is dead nothing is left to happen.
Network ==
  /\ pc # "dead"
  /\ \E p \in Peers :
        \/ Connect(p) \/ Abort(p) \/ Reset(p) \/ End(p) \/ Read(p)
        \/ \E to \in Digits : Write(p, to)

-----------------------------------------------------------------------------
Init ==
  /\ pc = "pending" /\ todo = {} /\ client = 0 /\ buffer = <<>>
  /\ Clients = [i \in {} |-> 0] /\ ClientMsgs = [i \in {} |-> 0]
  /\ conn = [p \in Peers |-> "none"] /\ queue = <<>>
  /\ inbox = [p \in Peers |-> <<>>] /\ space = [p \in Peers |-> MaxRoom]
  /\ sent = [p \in Peers |-> <<>>] /\ written = [p \in Peers |-> 0]
  /\ ended = [p \in Peers |-> FALSE] /\ broken = [p \in Peers |-> FALSE]

Next == Server \/ Network

\* The server's thread runs; nobody else has to do anything.
Spec == Init /\ [][Next]_vars /\ WF_vars(Server)

-----------------------------------------------------------------------------
(* Correctness.                                                            *)

\* The server ends, or waits for a connection that need not come, only when a
\* connection was lost: looking first keeps accept, receive and send from
\* failing for any other reason, however late the looking is.
OnlyLostConnectionsHarm ==
  pc \in {"dead", "accept_poll"} =>
     \E p \in Peers : broken[p] \/ conn[p] = "gone"

\* What one send writes to a client is a piece of what a single peer wrote,
\* without gaps, and begins with a unit that names that client: texts of two
\* peers, or of two times, are never mixed.  (Units after the first may name
\* others: they came with it in one receive.)
DeliveredAsWritten ==
  \A i \in DOMAIN Clients : \A k \in DOMAIN sent[Clients[i]] :
     LET text == sent[Clients[i]][k]
     IN  /\ text[1].to = i
         /\ \A j \in DOMAIN text \ {1} :
               text[j].from = text[j - 1].from /\ text[j].no = text[j - 1].no + 1

\* No unit reaches two clients, or one twice, and a client gets what one peer
\* wrote in the order it was written, though it may miss some of it.
DeliveredOnceInOrder ==
  \A p, q \in Peers : \A k \in DOMAIN sent[p], l \in DOMAIN sent[q] :
     \A a \in DOMAIN sent[p][k], b \in DOMAIN sent[q][l] :
        LET x == sent[p][k][a]  y == sent[q][l][b]
        IN  x.from = y.from =>
              /\ x.no = y.no => <<p, k, a>> = <<q, l, b>>
              /\ p = q /\ k < l => x.no < y.no

\* A connection does not stay in the listen queue while the server lives.
QueueIsServed ==
  \A p \in Peers : conn[p] = "queued" ~> conn[p] # "queued" \/ pc = "dead"

MailWaits(i) ==
  /\ i \in DOMAIN Clients \cap DOMAIN ClientMsgs
  /\ ClientMsgs[i] # <<>> /\ space[Clients[i]] > 0

\* A text left for a client that has connected and reads does not stay: it is
\* sent, unless the server ends or waits in accept.
MailIsSent ==
  \A i \in Digits : MailWaits(i) ~> ~ MailWaits(i) \/ pc \in {"dead", "accept_poll"}
=============================================================================
