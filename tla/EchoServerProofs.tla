-------------------------- MODULE EchoServerProofs --------------------------
(***************************************************************************)
(* Proofs, for any number of peers, clients and texts and queues of any    *)
(* length, of what EchoServer promises.  A unit is on one way: from its    *)
(* peer's receive queue into the buffer, from there into a text that is    *)
(* left for a client, and from there to that client.  Each place hands on   *)
(* what comes earliest in it, or nothing, so what is further on the way is *)
(* earlier, and what was taken from the receive queue of a peer is counted *)
(* by what the peer wrote less what is still there.                        *)
(***************************************************************************)
EXTENDS EchoServer, FiniteSetTheorems, SequenceTheorems, TLAPS

Lost == \E p \in Peers : broken[p] \/ conn[p] = "gone"

\* Where the server is tells whom it serves and what it has found.
Serving == {"greet", "readable", "available", "receive", "store", "writable", "send"}

Looked ==
  /\ pc \in Serving => client \in DOMAIN Clients
  /\ pc = "send" => client \in DOMAIN ClientMsgs
  /\ pc = "store" => buffer # <<>>
  /\ pc = "accept" => queue # <<>> \/ Lost
  /\ pc = "receive" => inbox[Peer] # <<>> \/ Lost
  /\ pc \in {"dead", "accept_poll"} => Lost

\* Clients are connections that were accepted, each once, and only they are
\* written to.
Accepted ==
  /\ \A i \in DOMAIN Clients : conn[Clients[i]] = "up"
  /\ \A i, j \in DOMAIN Clients : Clients[i] = Clients[j] => i = j
  /\ \A p \in Peers : conn[p] # "up" => sent[p] = <<>>

\* How many units were taken from what a peer wrote, or thrown away by a reset.
Taken(p) == written[p] - Len(inbox[p])

\* A receive queue holds the last units its peer wrote.
Queued(p, units, taken) ==
  \A j \in DOMAIN units : units[j].from = p /\ units[j].no = taken + j

\* A text is a piece of what one peer wrote.
Text(s) == \A j \in DOMAIN s : s[j].from = s[1].from /\ s[j].no = s[1].no + j - 1

Texts ==
  /\ \A p \in Peers : Len(inbox[p]) <= written[p] /\ Queued(p, inbox[p], Taken(p))
  /\ pc = "store" => Text(buffer) /\ buffer[1].from = Peer
  /\ \A i \in DOMAIN ClientMsgs :
        Text(ClientMsgs[i]) /\ (ClientMsgs[i] # <<>> => ClientMsgs[i][1].to = i)
  /\ \A p \in Peers : \A k \in DOMAIN sent[p] : Text(sent[p][k]) /\ sent[p][k] # <<>>
  /\ \A i \in DOMAIN Clients : \A k \in DOMAIN sent[Clients[i]] : sent[Clients[i]][k][1].to = i

\* Where a unit is.
InBuffer(x)   == pc = "store" /\ \E a \in DOMAIN buffer : x = buffer[a]
IsLeft(x, i)  == i \in DOMAIN ClientMsgs /\ \E a \in DOMAIN ClientMsgs[i] : x = ClientMsgs[i][a]
WasSent(x, p) == \E k \in DOMAIN sent[p] : \E a \in DOMAIN sent[p][k] : x = sent[p][k][a]

Before(x, y) == x.from = y.from => x.no < y.no
Apart(x, y)  == x.from = y.from => x.no # y.no

\* What is further on the way is earlier, if it is for the same client, and
\* another unit in any case.
OnTheWay ==
  /\ \A x \in Units : InBuffer(x) => x.no <= Taken(x.from)
  /\ \A x \in Units, i \in Digits : IsLeft(x, i) => x.no <= Taken(x.from)
  /\ \A x \in Units, p \in Peers : WasSent(x, p) => x.no <= Taken(x.from)
  /\ \A x, y \in Units, i \in Digits : InBuffer(x) /\ IsLeft(y, i) => Before(y, x)
  /\ \A x, y \in Units, p \in Peers : InBuffer(x) /\ WasSent(y, p) => Before(y, x)
  /\ \A x, y \in Units, i, j \in Digits : IsLeft(x, i) /\ IsLeft(y, j) /\ i # j => Apart(x, y)
  /\ \A x, y \in Units, i \in Digits, p \in Peers : IsLeft(x, i) /\ WasSent(y, p) => Apart(x, y)
  /\ \A x, y \in Units, i \in Digits \cap DOMAIN Clients :
        IsLeft(x, i) /\ WasSent(y, Clients[i]) => Before(y, x)

IInv ==
  /\ TypeOK /\ Looked /\ Accepted /\ Texts /\ OnTheWay /\ DeliveredOnceInOrder

-----------------------------------------------------------------------------
(* Pieces of sequences, and tables.                                        *)

\* A piece of a sequence.
LEMMA PieceOf ==
  ASSUME NEW S, NEW s \in Seq(S), NEW m \in 1..(Len(s) + 1), NEW n \in (m - 1)..Len(s)
  PROVE  /\ SubSeq(s, m, n) \in Seq(S) /\ Len(SubSeq(s, m, n)) = n - m + 1
         /\ \A j \in 1..(n - m + 1) : SubSeq(s, m, n)[j] = s[m + j - 1]
<1>1. \A i \in m..n : s[i] \in S
  OBVIOUS
<1>2. m \in Int /\ n \in Int /\ (m <= n \/ n - m + 1 = 0)
  OBVIOUS
<1> QED
  BY <1>1, <1>2, SubSeqProperties

\* A piece of a text is one.
LEMMA PieceOfText ==
  ASSUME NEW s \in Seq(Units), Text(s), NEW n \in 1..Len(s)
  PROVE  LET t == SubSeq(s, 1, n)
         IN  /\ t \in Seq(Units) /\ Text(t) /\ t # <<>> /\ t[1] = s[1] /\ DOMAIN t = 1..n
             /\ \A j \in DOMAIN t : j \in DOMAIN s /\ t[j] = s[j]
<1> DEFINE t == SubSeq(s, 1, n)
<1>1. t \in Seq(Units) /\ Len(t) = n /\ DOMAIN t = 1..n
  BY PieceOf
<1>2. \A j \in DOMAIN t : j \in DOMAIN s /\ t[j] = s[j]
  BY <1>1, PieceOf
<1>3. t # <<>> /\ t[1] = s[1]
  BY <1>1, <1>2
<1>4. Text(t)
  BY <1>2, <1>3 DEF Text
<1> QED
  BY <1>1, <1>2, <1>3, <1>4

\* The numbers of a text's units tell its units apart.
LEMMA UnitsOfText ==
  ASSUME NEW s \in Seq(Units), Text(s)
  PROVE  \A a, b \in DOMAIN s : s[a].from = s[b].from /\ (s[a].no = s[b].no => a = b)
<1> SUFFICES ASSUME NEW a \in DOMAIN s, NEW b \in DOMAIN s
             PROVE  s[a].from = s[b].from /\ (s[a].no = s[b].no => a = b)
  OBVIOUS
<1>1. 1 \in DOMAIN s /\ s[1] \in Units
  OBVIOUS
<1>2. s[1].no \in Nat /\ a \in Nat /\ b \in Nat
  BY <1>1 DEF Units
<1>3. s[a].no = s[1].no + a - 1 /\ s[b].no = s[1].no + b - 1
  BY DEF Text
<1>4. s[a].from = s[b].from
  BY DEF Text
<1> QED
  BY <1>2, <1>3, <1>4

\* A receive queue without its first units, and the text that was taken from it.
LEMMA QueueShortens ==
  ASSUME NEW p \in Peers, NEW units \in Seq(Units), NEW taken \in Nat, Queued(p, units, taken),
         NEW n \in 1..Len(units)
  PROVE  LET text == SubSeq(units, 1, n)
             rest == SubSeq(units, n + 1, Len(units))
         IN  /\ text \in Seq(Units) /\ text # <<>> /\ Len(text) = n
             /\ Text(text) /\ text[1].from = p /\ text[1].no = taken + 1
             /\ \A j \in DOMAIN text :
                   text[j].from = p /\ text[j].no > taken /\ text[j].no <= taken + n
             /\ rest \in Seq(Units) /\ Len(rest) = Len(units) - n
             /\ Queued(p, rest, taken + n)
<1> DEFINE text == SubSeq(units, 1, n)
           rest == SubSeq(units, n + 1, Len(units))
<1>1. /\ text \in Seq(Units) /\ Len(text) = n /\ DOMAIN text = 1..n
      /\ \A j \in 1..n : text[j] = units[j] /\ j \in DOMAIN units
  BY PieceOf
<1>2. rest \in Seq(Units) /\ Len(rest) = Len(units) - n
  BY PieceOf
<1>3. \A j \in DOMAIN rest : rest[j] = units[n + j] /\ n + j \in DOMAIN units
  <2>1. \A j \in 1..(Len(units) - (n + 1) + 1) : rest[j] = units[(n + 1) + j - 1]
    BY PieceOf
  <2> QED
    BY <1>2, <2>1
<1>4. \A j \in 1..n : text[j].from = p /\ text[j].no = taken + j
  BY <1>1 DEF Queued
<1>5. text # <<>> /\ Text(text) /\ text[1].from = p /\ text[1].no = taken + 1
  BY <1>1, <1>4 DEF Text
<1>6. \A j \in DOMAIN text :
        text[j].from = p /\ text[j].no > taken /\ text[j].no <= taken + n
  BY <1>1, <1>4
<1>7. Queued(p, rest, taken + n)
  BY <1>2, <1>3 DEF Queued
<1> QED
  BY <1>1, <1>2, <1>5, <1>6, <1>7

\* The queue with the next unit its peer writes.
LEMMA QueueGrows ==
  ASSUME NEW p \in Peers, NEW units \in Seq(Units), NEW count \in Nat, Len(units) <= count,
         Queued(p, units, count - Len(units)), NEW to \in Digits
  PROVE  LET longer == Append(units, [from |-> p, no |-> count + 1, to |-> to])
         IN  /\ longer \in Seq(Units) /\ Len(longer) = Len(units) + 1
             /\ Queued(p, longer, count - Len(units))
<1> DEFINE unit == [from |-> p, no |-> count + 1, to |-> to]
           longer == Append(units, unit)
<1>1. unit \in Units
  BY DEF Units
<1>2. longer \in Seq(Units) /\ Len(longer) = Len(units) + 1
  BY <1>1
<1>3. \A j \in 1..Len(units) : longer[j] = units[j]
  BY <1>1
<1>4. longer[Len(units) + 1] = unit
  BY <1>1
<1>5. Queued(p, longer, count - Len(units))
  BY <1>2, <1>3, <1>4 DEF Queued
<1> QED
  BY <1>2, <1>5

\* A new client has the next index.
LEMMA NextIndex ==
  ASSUME NEW n \in Nat, NEW table \in [0..(n - 1) -> Peers], NEW p \in Peers
  PROVE  LET longer == Put(table, n, p)
         IN  /\ Cardinality(DOMAIN table) = n
             /\ longer \in [0..n -> Peers] /\ Cardinality(DOMAIN longer) = n + 1
             /\ longer[n] = p /\ n \notin DOMAIN table
             /\ \A i \in DOMAIN table : i \in DOMAIN longer /\ longer[i] = table[i]
<1>1. Cardinality(0..(n - 1)) = n /\ Cardinality(0..n) = n + 1
  BY FS_Interval
<1>2. 0..(n - 1) \cup {n} = 0..n /\ n \notin 0..(n - 1)
  OBVIOUS
<1> QED
  BY <1>1, <1>2 DEF Put

-----------------------------------------------------------------------------
(* What most steps leave alone.                                            *)

\* Units that do not move stay where they were on the way.
LEMMA WayKept ==
  ASSUME TypeOK, OnTheWay, UNCHANGED Clients,
         \A x \in Units : InBuffer(x)' => InBuffer(x),
         \A x \in Units, i \in Digits : IsLeft(x, i)' => IsLeft(x, i),
         \A x \in Units, p \in Peers : WasSent(x, p)' => WasSent(x, p),
         \A p \in Peers : Taken(p) \in Int /\ Taken(p)' \in Int /\ Taken(p) <= Taken(p)'
  PROVE  OnTheWay'
<1>1. \A x \in Units : x.from \in Peers /\ x.no \in Int
  BY DEF Units
<1>2. \A x \in Units : x.no <= Taken(x.from) => x.no <= Taken(x.from)'
  BY <1>1
<1>3. \A i \in DOMAIN Clients : Clients[i] \in Peers
  BY DEF TypeOK
<1> QED
  BY <1>1, <1>2, <1>3 DEF OnTheWay

\* What was taken of a peer's units is a number.
LEMMA TakenIsNumber ==
  ASSUME TypeOK, NEW p \in Peers
  PROVE  Taken(p) \in Int /\ Len(inbox[p]) \in Nat /\ written[p] \in Nat
BY DEF TypeOK, Taken

\* A connection that was lost stays so.
LEMMA LossRemains ==
  ASSUME TypeOK, Lost,
         \A p \in Peers : broken[p] => broken'[p],
         \A p \in Peers : conn[p] = "gone" => conn'[p] = "gone"
  PROVE  Lost'
BY DEF Lost

\* A step of the server that only looks, or goes on to the next client.
LEMMA MoveKeeps ==
  ASSUME IInv, UNCHANGED <<Clients, ClientMsgs, conn, queue, sent>>,
         UNCHANGED <<inbox, space, written, ended, broken>>,
         pc' \in Serving \cup {"pending", "accept", "accept_poll", "next", "dead"}, pc' # "store",
         todo' \subseteq DOMAIN Clients, client' \in Nat,
         buffer' \in Seq(Units) /\ Len(buffer') <= BufferSize,
         pc' \in Serving => client' \in DOMAIN Clients,
         pc' = "send" => client' \in DOMAIN ClientMsgs,
         pc' = "accept" => queue # <<>> \/ Lost,
         pc' = "receive" => inbox[Clients[client']] # <<>>,
         pc' \in {"dead", "accept_poll"} => Lost
  PROVE  IInv'
<1>1. TypeOK'
  BY DEF IInv, TypeOK, ClientIndex, Serving
<1>2. Looked'
  BY DEF Looked, Lost, Peer
<1>3. Accepted'
  BY DEF IInv, Accepted
<1>4. Texts'
  BY DEF IInv, Texts, Taken
<1>5. OnTheWay'
  <2>1. \A x \in Units : ~ InBuffer(x)'
    BY DEF InBuffer
  <2>2. \A x \in Units, i \in Digits : IsLeft(x, i)' => IsLeft(x, i)
    BY DEF IsLeft
  <2>3. \A x \in Units, p \in Peers : WasSent(x, p)' => WasSent(x, p)
    BY DEF WasSent
  <2>4. \A p \in Peers : Taken(p) \in Int /\ Taken(p)' \in Int /\ Taken(p) <= Taken(p)'
    BY TakenIsNumber DEF IInv, Taken
  <2> QED
    BY <2>1, <2>2, <2>3, <2>4, WayKept DEF IInv
<1>6. DeliveredOnceInOrder'
  BY DEF IInv, DeliveredOnceInOrder
<1> QED
  BY <1>1, <1>2, <1>3, <1>4, <1>5, <1>6 DEF IInv

-----------------------------------------------------------------------------
(* The server.                                                             *)

\* Whom the server serves is a peer it has accepted.
LEMMA PeerIsAccepted ==
  ASSUME IInv, pc \in Serving
  PROVE  client \in DOMAIN Clients /\ Peer \in Peers /\ conn[Peer] = "up"
BY DEF IInv, TypeOK, Looked, Accepted, Peer

\* Looking for connections, greeting, going over the clients and looking what
\* can be done for them.
LEMMA LooksKeep ==
  ASSUME IInv, Pending \/ AcceptPoll \/ Greet \/ NextClient \/ Readable \/ Available \/ Writable
  PROVE  IInv'
<1> USE DEF GoTo, BeginPass, EndTurn, Throw, progress, tables, sockets
<1>0. /\ todo \subseteq DOMAIN Clients /\ client \in Nat
      /\ buffer \in Seq(Units) /\ Len(buffer) <= BufferSize
      /\ DOMAIN Clients \subseteq Nat
  BY DEF IInv, TypeOK
<1>1. CASE Pending
  BY <1>0, <1>1, MoveKeeps DEF Pending, Serving
<1>2. CASE AcceptPoll
  BY <1>0, <1>2, MoveKeeps DEF AcceptPoll, Serving
<1>3. CASE Greet
  <2>1. pc = "greet" /\ (broken[Peer] => Lost)
    BY <1>3, PeerIsAccepted DEF Greet, Lost, Serving
  <2> QED
    BY <1>0, <1>3, <2>1, MoveKeeps DEF Greet, Serving
<1>4. CASE NextClient
  BY <1>0, <1>4, MoveKeeps DEF NextClient, Serving
<1>5. CASE Readable
  <2>1. client \in DOMAIN Clients
    BY <1>5, PeerIsAccepted DEF Readable, Serving
  <2> QED
    BY <1>0, <1>5, <2>1, MoveKeeps DEF Readable, Serving
<1>6. CASE Available
  <2>1. client \in DOMAIN Clients
    BY <1>6, PeerIsAccepted DEF Available, Serving
  <2> QED
    BY <1>0, <1>6, <2>1, MoveKeeps DEF Available, Serving, Peer
<1>7. CASE Writable
  <2>1. client \in DOMAIN Clients
    BY <1>7, PeerIsAccepted DEF Writable, Serving
  <2>2. <<>> \in Seq(Units) /\ Len(<<>>) <= BufferSize
    BY ConstantsAssumption
  <2>3. CASE (space[Peer] > 0 \/ broken[Peer]) /\ client \in DOMAIN ClientMsgs
    BY <1>0, <1>7, <2>1, <2>3, MoveKeeps DEF Writable, Serving
  <2>4. CASE ~ ((space[Peer] > 0 \/ broken[Peer]) /\ client \in DOMAIN ClientMsgs)
    <3>1. pc' = "next" /\ client' = 0 /\ buffer' = <<>> /\ UNCHANGED todo
      BY <1>7, <2>4, Zenon DEF Writable
    <3> QED
      BY <1>0, <1>7, <2>2, <3>1, MoveKeeps DEF Writable, Serving
  <2> QED
    BY <2>3, <2>4
<1> QED
  BY <1>1, <1>2, <1>3, <1>4, <1>5, <1>6, <1>7

\* Connections that come, or are lost before they are accepted.
LEMMA ConnectionsKeep ==
  ASSUME IInv, UNCHANGED <<todo, client, buffer, Clients, ClientMsgs, sent>>,
         UNCHANGED <<inbox, space, written, ended, broken>>,
         pc' = pc \/ pc' = "accept_poll",
         conn' \in [Peers -> {"none", "queued", "aborted", "gone", "up"}],
         queue' \in Seq(Peers) /\ Len(queue') <= Backlog,
         \A p \in Peers : conn'[p] = "up" <=> conn[p] = "up",
         Lost => Lost',
         Lost' \/ (pc' = pc /\ (queue # <<>> => queue' # <<>>))
  PROVE  IInv'
<1>1. TypeOK'
  BY DEF IInv, TypeOK, ClientIndex
<1>2. Looked'
  BY DEF IInv, Looked, Peer, Serving
<1>3. Accepted'
  <2>1. \A i \in DOMAIN Clients : Clients[i] \in Peers
    BY DEF IInv, TypeOK
  <2> QED
    BY <2>1 DEF IInv, Accepted
<1>4. Texts'
  BY DEF IInv, Texts, Taken, Peer
<1>5. OnTheWay'
  <2>1. \A x \in Units : InBuffer(x)' => InBuffer(x)
    BY DEF InBuffer
  <2>2. \A x \in Units, i \in Digits : IsLeft(x, i)' => IsLeft(x, i)
    BY DEF IsLeft
  <2>3. \A x \in Units, p \in Peers : WasSent(x, p)' => WasSent(x, p)
    BY DEF WasSent
  <2>4. \A p \in Peers : Taken(p) \in Int /\ Taken(p)' \in Int /\ Taken(p) <= Taken(p)'
    BY TakenIsNumber DEF IInv, Taken
  <2> QED
    BY <2>1, <2>2, <2>3, <2>4, WayKept DEF IInv
<1>6. DeliveredOnceInOrder'
  BY DEF IInv, DeliveredOnceInOrder
<1> QED
  BY <1>1, <1>2, <1>3, <1>4, <1>5, <1>6 DEF IInv

\* A connection is accepted: its peer is nobody's client yet and was sent nothing.
LEMMA InsertKeeps ==
  ASSUME IInv, pc = "accept", NEW p \in Peers, conn[p] = "queued", Insert(p),
         conn' = [conn EXCEPT ![p] = "up"], queue' \in Seq(Peers) /\ Len(queue') <= Backlog,
         pc' = "greet", UNCHANGED <<todo, buffer, ClientMsgs, sent>>,
         UNCHANGED <<inbox, space, written, ended, broken>>
  PROVE  IInv'
<1>1. /\ Clients' \in [0..ClientIndex -> Peers] /\ ClientIndex' = ClientIndex + 1
      /\ ClientIndex \in Nat /\ Clients'[ClientIndex] = p
      /\ DOMAIN Clients = 0..(ClientIndex - 1)
      /\ \A i \in DOMAIN Clients : i \in DOMAIN Clients' /\ Clients'[i] = Clients[i]
      /\ client' = ClientIndex
  <2>1. ClientIndex \in Nat /\ Clients \in [0..(ClientIndex - 1) -> Peers]
    BY DEF IInv, TypeOK
  <2>2. Clients' = Put(Clients, ClientIndex, p) /\ client' = ClientIndex
    BY DEF Insert
  <2>3. Clients' \in [0..ClientIndex -> Peers] /\ Cardinality(DOMAIN Clients') = ClientIndex + 1
    BY <2>1, <2>2, NextIndex
  <2>4. ClientIndex' = ClientIndex + 1
    BY <2>3 DEF ClientIndex
  <2>5. /\ Clients'[ClientIndex] = p
        /\ \A i \in DOMAIN Clients : i \in DOMAIN Clients' /\ Clients'[i] = Clients[i]
    BY <2>1, <2>2, NextIndex
  <2> QED
    BY <2>1, <2>2, <2>3, <2>4, <2>5
<1>2. \A i \in DOMAIN Clients' : i \in DOMAIN Clients \/ i = ClientIndex
  BY <1>1
<1>3. TypeOK'
  <2>1. 0..(ClientIndex' - 1) = 0..ClientIndex /\ ClientIndex' \in Nat
    BY <1>1
  <2>2. todo' \subseteq DOMAIN Clients' /\ client' \in Nat
    BY <1>1 DEF IInv, TypeOK
  <2> QED
    BY <1>1, <2>1, <2>2 DEF IInv, TypeOK
<1>4. Looked'
  BY <1>1 DEF Looked, Serving
<1>5. \A i \in DOMAIN Clients : Clients[i] # p /\ Clients[i] \in Peers
  BY DEF IInv, Accepted, TypeOK
<1>6. sent[p] = <<>>
  BY DEF IInv, Accepted
<1>7. Accepted'
  <2>1. \A q \in Peers : conn'[q] = IF q = p THEN "up" ELSE conn[q]
    BY DEF IInv, TypeOK
  <2>2. \A i \in DOMAIN Clients' : conn'[Clients'[i]] = "up"
    BY <1>1, <1>2, <1>5, <2>1 DEF IInv, Accepted
  <2>3. \A i, j \in DOMAIN Clients' : Clients'[i] = Clients'[j] => i = j
    BY <1>1, <1>2, <1>5 DEF IInv, Accepted
  <2>4. \A q \in Peers : conn'[q] # "up" => sent'[q] = <<>>
    BY <2>1 DEF IInv, Accepted
  <2> QED
    BY <2>2, <2>3, <2>4 DEF Accepted
<1>8. Texts'
  <2>1. \A i \in DOMAIN Clients' : \A k \in DOMAIN sent'[Clients'[i]] :
           sent'[Clients'[i]][k][1].to = i
    BY <1>1, <1>2, <1>5, <1>6 DEF IInv, Texts
  <2> QED
    BY <2>1 DEF IInv, Texts, Taken
<1>9. OnTheWay'
  <2>1. \A x \in Units : ~ InBuffer(x)'
    BY DEF InBuffer
  <2>2. \A x \in Units, i \in Digits : IsLeft(x, i)' <=> IsLeft(x, i)
    BY DEF IsLeft
  <2>3. \A x \in Units, q \in Peers : WasSent(x, q)' <=> WasSent(x, q)
    BY DEF WasSent
  <2>4. \A x \in Units : ~ WasSent(x, p)
    BY <1>6 DEF WasSent
  <2>5. \A x \in Units : x.from \in Peers /\ Taken(x.from)' = Taken(x.from)
    BY DEF Taken, Units
  <2>6. ASSUME NEW x \in Units, NEW y \in Units, NEW i \in Digits \cap DOMAIN Clients',
               IsLeft(x, i)', WasSent(y, Clients[i])'
        PROVE  Before(y, x)
    <3>1. WasSent(y, Clients'[i])
      BY <2>6 DEF WasSent
    <3>2. i \in DOMAIN Clients /\ Clients'[i] = Clients[i]
      BY <1>1, <1>2, <2>4, <3>1
    <3> QED
      BY <2>2, <2>6, <3>1, <3>2 DEF IInv, OnTheWay
  <2> QED
    BY <2>1, <2>2, <2>3, <2>5, <2>6 DEF IInv, OnTheWay
<1>10. DeliveredOnceInOrder'
  BY DEF IInv, DeliveredOnceInOrder
<1> QED
  BY <1>3, <1>4, <1>7, <1>8, <1>9, <1>10 DEF IInv

\* accept().
LEMMA AcceptKeeps ==
  ASSUME IInv, Accept
  PROVE  IInv'
<1> USE DEF GoTo, Throw, progress, tables, sockets
<1>0. /\ pc = "accept" /\ queue \in Seq(Peers) /\ Len(queue) <= Backlog /\ Backlog \in Nat
      /\ conn \in [Peers -> {"none", "queued", "aborted", "gone", "up"}]
  BY ConstantsAssumption DEF Accept, IInv, TypeOK
<1>1. CASE queue = <<>>
  <2>1. Lost
    BY <1>0, <1>1 DEF IInv, Looked
  <2> QED
    BY <1>0, <1>1, <2>1, MoveKeeps DEF Accept, IInv, TypeOK, Serving
<1>2. CASE queue # <<>>
  <2> DEFINE p == Head(queue)
  <2>1. p \in Peers /\ queue' \in Seq(Peers) /\ Len(queue') <= Backlog
    <3>1. queue' = Tail(queue)
      BY <1>2 DEF Accept
    <3> QED
      BY <1>0, <1>2, <3>1, HeadTailProperties
  <2>2. CASE conn[p] = "queued"
    BY <1>0, <1>2, <2>1, <2>2, InsertKeeps DEF Accept
  <2>3. CASE conn[p] = "aborted"
    <3>1. /\ conn' = [conn EXCEPT ![p] = "gone"] /\ pc' = "accept_poll"
          /\ UNCHANGED <<todo, client, buffer, Clients, ClientMsgs, sent>>
          /\ UNCHANGED <<inbox, space, written, ended, broken>>
      BY <1>2, <2>3 DEF Accept
    <3>2. Lost' /\ \A q \in Peers : conn'[q] = "up" <=> conn[q] = "up"
      BY <1>0, <2>1, <2>3, <3>1 DEF Lost
    <3> QED
      BY <1>0, <2>1, <3>1, <3>2, ConnectionsKeep
  <2> QED
    BY <1>2, <2>2, <2>3 DEF Accept
<1> QED
  BY <1>1, <1>2

\* receive(): a text goes from the receive queue into the buffer.
LEMMA ReceiveKeeps ==
  ASSUME IInv, Receive
  PROVE  IInv'
<1> USE DEF GoTo, Throw, progress, tables, sockets
<1>0. pc = "receive" /\ client \in DOMAIN Clients /\ Peer \in Peers
  BY PeerIsAccepted DEF Receive, Serving
<1>1. CASE inbox[Peer] = <<>> /\ Throw /\ UNCHANGED inbox
  <2>1. Lost
    BY <1>0, <1>1 DEF IInv, Looked
  <2> QED
    BY <1>0, <1>1, <2>1, MoveKeeps DEF Receive, IInv, TypeOK, Serving
<1>2. CASE ~ (inbox[Peer] = <<>> /\ Throw /\ UNCHANGED inbox)
  <2> DEFINE units == inbox[Peer]
             taken == Taken(Peer)
  <2>1. PICK n \in 1..Lesser(Len(units), BufferSize) :
           /\ buffer' = SubSeq(units, 1, n)
           /\ inbox' = [inbox EXCEPT ![Peer] = SubSeq(units, n + 1, Len(units))]
           /\ pc' = "store" /\ UNCHANGED <<todo, client>>
    BY <1>2 DEF Receive
  <2>2. /\ units \in Seq(Units) /\ taken \in Nat /\ Queued(Peer, units, taken)
        /\ n \in 1..Len(units) /\ n <= BufferSize
    <3>1. units \in Seq(Units) /\ BufferSize \in Nat
      BY <1>0, ConstantsAssumption DEF IInv, TypeOK
    <3>2. Len(units) <= written[Peer] /\ Queued(Peer, units, taken)
      BY <1>0 DEF IInv, Texts
    <3>3. taken \in Nat
      BY <1>0, <3>1, <3>2, TakenIsNumber DEF IInv, Taken
    <3>4. n \in 1..Len(units) /\ n <= BufferSize
      BY <2>1, <3>1 DEF Lesser
    <3> QED
      BY <3>1, <3>2, <3>3, <3>4
  <2> DEFINE text == SubSeq(units, 1, n)
             rest == SubSeq(units, n + 1, Len(units))
  <2>3. /\ text \in Seq(Units) /\ text # <<>> /\ Len(text) = n
        /\ Text(text) /\ text[1].from = Peer
        /\ \A j \in DOMAIN text :
              text[j].from = Peer /\ text[j].no > taken /\ text[j].no <= taken + n
        /\ rest \in Seq(Units) /\ Len(rest) = Len(units) - n
        /\ Queued(Peer, rest, taken + n)
    <3> HIDE DEF units, taken
    <3> QED
      BY <1>0, <2>2, QueueShortens
  <2>4. /\ UNCHANGED <<Clients, ClientMsgs, conn, queue, sent>>
        /\ UNCHANGED <<space, written, ended, broken, todo, client>>
        /\ pc' = "store" /\ buffer' = text /\ inbox' = [inbox EXCEPT ![Peer] = rest]
        /\ Peer' = Peer
    BY <2>1 DEF Receive, Peer
  <2> HIDE DEF text, rest
  <2>5. TypeOK'
    BY <1>0, <2>2, <2>3, <2>4 DEF IInv, TypeOK, ClientIndex
  <2>6. Looked' /\ Accepted' /\ DeliveredOnceInOrder'
    BY <1>0, <2>3, <2>4 DEF IInv, Looked, Serving, Accepted, DeliveredOnceInOrder
  <2>7. \A p \in Peers :
           /\ inbox'[p] = IF p = Peer THEN rest ELSE inbox[p]
           /\ Taken(p) \in Int /\ Taken(p)' = IF p = Peer THEN taken + n ELSE Taken(p)
    <3>1. \A p \in Peers : inbox'[p] = IF p = Peer THEN rest ELSE inbox[p]
      BY <2>4 DEF IInv, TypeOK
    <3>2. Len(units) \in Nat /\ written[Peer] \in Nat /\ taken = written[Peer] - Len(units)
      BY <1>0, TakenIsNumber DEF IInv, Taken
    <3>3. written[Peer] - Len(rest) = taken + n
      BY <2>2, <2>3, <3>2
    <3>4. \A p \in Peers : Taken(p)' = IF p = Peer THEN taken + n ELSE Taken(p)
      BY <2>4, <3>1, <3>3 DEF Taken
    <3> QED
      BY <3>1, <3>4, TakenIsNumber DEF IInv
  <2>8. Texts'
    <3>1. \A p \in Peers : Len(inbox'[p]) <= written'[p] /\ Queued(p, inbox'[p], Taken(p)')
      <4> SUFFICES ASSUME NEW p \in Peers
                   PROVE  Len(inbox'[p]) <= written'[p] /\ Queued(p, inbox'[p], Taken(p)')
        OBVIOUS
      <4>1. CASE p = Peer
        BY <1>0, <2>2, <2>3, <2>4, <2>7, <4>1, TakenIsNumber DEF IInv, Texts
      <4>2. CASE p # Peer
        BY <2>4, <2>7, <4>2 DEF IInv, Texts
      <4> QED
        BY <4>1, <4>2
    <3>2. Text(buffer') /\ buffer'[1].from = Peer'
      BY <2>3, <2>4
    <3> QED
      BY <2>4, <3>1, <3>2 DEF IInv, Texts, Text, Queued
  <2>9. OnTheWay'
    <3>1. \A x \in Units : InBuffer(x)' =>
             x.from = Peer /\ x.no > taken /\ x.no <= taken + n
      BY <2>3, <2>4 DEF InBuffer
    <3>2. \A x \in Units, i \in Digits : IsLeft(x, i)' <=> IsLeft(x, i)
      BY <2>4 DEF IsLeft
    <3>3. \A x \in Units, p \in Peers : WasSent(x, p)' <=> WasSent(x, p)
      BY <2>4 DEF WasSent
    <3>4. \A x \in Units : x.from \in Peers /\ x.no \in Int
      BY DEF Units
    <3>5. \A p \in Peers : Taken(p) \in Int /\ Taken(p)' \in Int /\ Taken(p) <= Taken(p)'
      BY <2>2, <2>7
    <3>6. \A x \in Units : InBuffer(x)' => x.no <= Taken(x.from)'
      BY <1>0, <2>7, <3>1
    <3>7. \A x, y \in Units : InBuffer(x)' /\ y.no <= Taken(y.from) => Before(y, x)
      BY <2>2, <3>1, <3>4 DEF Before
    <3>8. \A x \in Units : x.no <= Taken(x.from) => x.no <= Taken(x.from)'
      BY <3>4, <3>5
    <3>9. \A i \in DOMAIN Clients : Clients[i] \in Peers
      BY DEF IInv, TypeOK
    <3> QED
      BY <2>4, <3>2, <3>3, <3>6, <3>7, <3>8, <3>9 DEF IInv, OnTheWay
  <2> QED
    BY <2>5, <2>6, <2>8, <2>9 DEF IInv
<1> QED
  BY <1>1, <1>2

\* What was received is left for the client its first unit names, and replaces
\* what was left there before.
LEMMA StoreKeeps ==
  ASSUME IInv, Store
  PROVE  IInv'
<1> USE DEF GoTo, Throw, progress, tables, sockets
<1>0. pc = "store" /\ client \in DOMAIN Clients /\ Peer \in Peers
  BY PeerIsAccepted DEF Store, Serving
<1>1. CASE broken[Peer]
  <2>1. Lost
    BY <1>0, <1>1 DEF Lost
  <2> QED
    BY <1>0, <1>1, <2>1, MoveKeeps DEF Store, IInv, TypeOK, Serving
<1>2. CASE ~ broken[Peer]
  <2> DEFINE to == Head(buffer).to
  <2>1. /\ UNCHANGED <<todo, client, buffer, Clients, conn, queue, sent>>
        /\ UNCHANGED <<inbox, space, written, ended, broken>>
        /\ pc' = "writable" /\ ClientMsgs' = Put(ClientMsgs, to, buffer)
    BY <1>2 DEF Store
  <2>2. /\ buffer \in Seq(Units) /\ buffer # <<>> /\ to = buffer[1].to /\ to \in Digits
        /\ Text(buffer)
    <3>1. buffer \in Seq(Units) /\ buffer # <<>> /\ Text(buffer)
      BY <1>0 DEF IInv, TypeOK, Looked, Texts
    <3>2. Head(buffer) = buffer[1] /\ buffer[1] \in Units
      BY <3>1
    <3> QED
      BY <3>1, <3>2 DEF Units
  <2>3. /\ DOMAIN ClientMsgs' = DOMAIN ClientMsgs \cup {to}
        /\ \A i \in DOMAIN ClientMsgs' : ClientMsgs'[i] = IF i = to THEN buffer ELSE ClientMsgs[i]
    BY <2>1 DEF Put
  <2> HIDE DEF to
  <2>4. TypeOK'
    BY <2>1, <2>2, <2>3 DEF IInv, TypeOK, ClientIndex
  <2>5. Looked' /\ Accepted' /\ DeliveredOnceInOrder'
    BY <1>0, <2>1 DEF IInv, Looked, Serving, Accepted, DeliveredOnceInOrder
  <2>6. Texts'
    <3>1. \A i \in DOMAIN ClientMsgs' :
             Text(ClientMsgs'[i]) /\ (ClientMsgs'[i] # <<>> => ClientMsgs'[i][1].to = i)
      BY <2>2, <2>3 DEF IInv, Texts
    <3> QED
      BY <2>1, <3>1 DEF IInv, Texts, Taken, Text
  <2>7. OnTheWay'
    <3>1. \A x \in Units : ~ InBuffer(x)'
      BY <2>1 DEF InBuffer
    <3>2. \A x \in Units, i \in Digits :
             IsLeft(x, i)' => IF i = to THEN InBuffer(x) ELSE IsLeft(x, i)
      BY <1>0, <2>3 DEF IsLeft, InBuffer
    <3>3. \A x \in Units, p \in Peers : WasSent(x, p)' <=> WasSent(x, p)
      BY <2>1 DEF WasSent
    <3>4. \A x \in Units : x.from \in Peers /\ x.no \in Int /\ Taken(x.from)' = Taken(x.from)
      BY <2>1 DEF Units, Taken
    <3>5. \A x, y \in Units : Before(x, y) => Apart(x, y) /\ Apart(y, x)
      BY <3>4 DEF Before, Apart
    <3>6. \A i \in DOMAIN Clients : Clients[i] \in Peers
      BY DEF IInv, TypeOK
    <3>7. \A x, y \in Units, i, j \in Digits :
             IsLeft(x, i)' /\ IsLeft(y, j)' /\ i # j => Apart(x, y)
      BY <3>2, <3>5 DEF IInv, OnTheWay
    <3>8. \A x, y \in Units, i \in Digits, p \in Peers :
             IsLeft(x, i)' /\ WasSent(y, p)' => Apart(x, y)
      BY <3>2, <3>3, <3>5 DEF IInv, OnTheWay
    <3>9. \A x, y \in Units, i \in Digits \cap DOMAIN Clients :
             IsLeft(x, i)' /\ WasSent(y, Clients[i]) => Before(y, x)
      BY <3>2, <3>6 DEF IInv, OnTheWay
    <3>10. \A x \in Units, i \in Digits : IsLeft(x, i)' => x.no <= Taken(x.from)
      BY <3>2 DEF IInv, OnTheWay
    <3> QED
      BY <2>1, <3>1, <3>3, <3>4, <3>6, <3>7, <3>8, <3>9, <3>10 DEF IInv, OnTheWay
  <2> QED
    BY <2>4, <2>5, <2>6, <2>7 DEF IInv
<1> QED
  BY <1>1, <1>2

\* A text that was sent, whole or in part, or was empty, is cleared.
LEMMA ClearedKeeps ==
  ASSUME IInv, pc = "send", UNCHANGED <<todo, Clients, conn, queue, inbox, written, ended, broken>>,
         pc' = "next", client' = 0, buffer' = <<>>,
         ClientMsgs' = [ClientMsgs EXCEPT ![client] = <<>>],
         space' \in [Peers -> 0..MaxRoom], sent' \in [Peers -> Seq(Seq(Units))],
         \A p \in Peers : conn[p] # "up" => sent'[p] = <<>>,
         \A p \in Peers : \A k \in DOMAIN sent'[p] :
            Text(sent'[p][k]) /\ sent'[p][k] # <<>>
              /\ (\A i \in DOMAIN Clients : p = Clients[i] => sent'[p][k][1].to = i),
         \A x \in Units, p \in Peers :
            WasSent(x, p)' => WasSent(x, p) \/ (p = Peer /\ IsLeft(x, client)),
         DeliveredOnceInOrder'
  PROVE  IInv'
<1>0. client \in DOMAIN Clients /\ Peer \in Peers /\ client \in DOMAIN ClientMsgs /\ client \in Digits
  BY PeerIsAccepted DEF IInv, TypeOK, Looked, Serving
<1>1. /\ DOMAIN ClientMsgs' = DOMAIN ClientMsgs
      /\ \A i \in DOMAIN ClientMsgs : ClientMsgs'[i] = IF i = client THEN <<>> ELSE ClientMsgs[i]
  OBVIOUS
<1>2. \A i \in DOMAIN Clients : Clients[i] \in Peers
  BY DEF IInv, TypeOK
<1>3. TypeOK'
  <2>1. \A i \in DOMAIN ClientMsgs' : ClientMsgs'[i] \in Seq(Units)
    BY <1>1 DEF IInv, TypeOK
  <2>2. <<>> \in Seq(Units) /\ Len(<<>>) <= BufferSize
    BY ConstantsAssumption
  <2> QED
    BY <1>1, <2>1, <2>2 DEF IInv, TypeOK, ClientIndex
<1>4. Looked'
  BY DEF Looked, Serving
<1>5. Accepted'
  BY DEF IInv, Accepted
<1>6. Texts'
  <2>1. \A i \in DOMAIN ClientMsgs' :
           Text(ClientMsgs'[i]) /\ (ClientMsgs'[i] # <<>> => ClientMsgs'[i][1].to = i)
    BY <1>1 DEF IInv, Texts, Text
  <2>2. \A i \in DOMAIN Clients : \A k \in DOMAIN sent'[Clients[i]] :
           sent'[Clients[i]][k][1].to = i
    BY <1>2
  <2> QED
    BY <2>1, <2>2 DEF IInv, Texts, Taken, Text
<1>7. OnTheWay'
  <2>1. \A x \in Units : ~ InBuffer(x)'
    BY DEF InBuffer
  <2>2. \A x \in Units, i \in Digits : IsLeft(x, i)' => i # client /\ IsLeft(x, i)
    BY <1>1 DEF IsLeft
  <2>3. \A x \in Units : x.from \in Peers /\ Taken(x.from)' = Taken(x.from)
    BY DEF Units, Taken
  <2>4. \A i \in DOMAIN Clients : Clients[i] = Peer => i = client
    BY <1>0 DEF IInv, Accepted, Peer
  <2>5. \A x, y \in Units, i \in Digits, p \in Peers :
           IsLeft(x, i)' /\ WasSent(y, p)' => Apart(x, y)
    BY <1>0, <2>2 DEF IInv, OnTheWay
  <2>6. \A x, y \in Units, i \in Digits \cap DOMAIN Clients :
           IsLeft(x, i)' /\ WasSent(y, Clients[i])' => Before(y, x)
    BY <1>2, <2>2, <2>4 DEF IInv, OnTheWay
  <2>7. \A x \in Units, p \in Peers : WasSent(x, p)' => x.no <= Taken(x.from)
    BY <1>0 DEF IInv, OnTheWay
  <2> QED
    BY <2>1, <2>2, <2>3, <2>5, <2>6, <2>7 DEF IInv, OnTheWay
<1> QED
  BY <1>3, <1>4, <1>5, <1>6, <1>7 DEF IInv

\* One more text is sent to a client, of units that were left for it.
LEMMA DeliveredOneMore ==
  ASSUME IInv, pc = "send", NEW t \in Seq(Units), Text(t), t # <<>>,
         \A a \in DOMAIN t : IsLeft(t[a], client),
         sent' = [sent EXCEPT ![Peer] = Append(sent[Peer], t)]
  PROVE  DeliveredOnceInOrder'
<1> DEFINE new == Len(sent[Peer]) + 1
<1>0. /\ client \in DOMAIN Clients /\ Peer \in Peers /\ client \in Digits
      /\ sent \in [Peers -> Seq(Seq(Units))] /\ Peer = Clients[client]
  BY PeerIsAccepted DEF IInv, TypeOK, Looked, Serving, Peer
<1>1. \A p \in Peers : \A k \in DOMAIN sent'[p] :
         \/ p = Peer /\ k = new /\ sent'[p][k] = t
         \/ k \in DOMAIN sent[p] /\ sent'[p][k] = sent[p][k] /\ (p = Peer => k < new)
  <2> SUFFICES ASSUME NEW p \in Peers, NEW k \in DOMAIN sent'[p]
               PROVE  \/ p = Peer /\ k = new /\ sent'[p][k] = t
                      \/ k \in DOMAIN sent[p] /\ sent'[p][k] = sent[p][k] /\ (p = Peer => k < new)
    OBVIOUS
  <2>1. CASE p = Peer
    <3>1. sent'[p] = Append(sent[p], t) /\ sent[p] \in Seq(Seq(Units))
      BY <1>0, <2>1
    <3>2. DOMAIN sent'[p] = 1..new
      BY <2>1, <3>1
    <3> QED
      BY <2>1, <3>1, <3>2
  <2>2. CASE p # Peer
    BY <1>0, <2>2
  <2> QED
    BY <2>1, <2>2
<1>2. \A p \in Peers : \A k \in DOMAIN sent[p] : \A a \in DOMAIN sent[p][k] :
         sent[p][k][a] \in Units /\ WasSent(sent[p][k][a], p)
  BY <1>0 DEF WasSent
<1>3. \A a \in DOMAIN t : t[a] \in Units
  OBVIOUS
<1>4. \A p \in Peers : \A k \in DOMAIN sent[p] : \A a \in DOMAIN sent[p][k] : \A b \in DOMAIN t :
         LET x == sent[p][k][a]  y == t[b]
         IN  Apart(y, x) /\ (p = Peer => Before(x, y))
  BY <1>0, <1>2, <1>3 DEF IInv, OnTheWay
<1> HIDE DEF new
<1> SUFFICES ASSUME NEW p \in Peers, NEW q \in Peers,
                    NEW k \in DOMAIN sent'[p], NEW l \in DOMAIN sent'[q],
                    NEW a \in DOMAIN sent'[p][k], NEW b \in DOMAIN sent'[q][l],
                    sent'[p][k][a].from = sent'[q][l][b].from
             PROVE  /\ sent'[p][k][a].no = sent'[q][l][b].no => p = q /\ k = l /\ a = b
                    /\ p = q /\ k < l => sent'[p][k][a].no < sent'[q][l][b].no
  BY DEF DeliveredOnceInOrder
<1>5. CASE k \in DOMAIN sent[p] /\ sent'[p][k] = sent[p][k] /\ l \in DOMAIN sent[q]
             /\ sent'[q][l] = sent[q][l]
  BY <1>5 DEF IInv, DeliveredOnceInOrder
<1>6. CASE k \in DOMAIN sent[p] /\ sent'[p][k] = sent[p][k] /\ q = Peer /\ l = new /\ sent'[q][l] = t
  BY <1>4, <1>6 DEF Apart, Before
<1>7. CASE /\ p = Peer /\ k = new /\ sent'[p][k] = t
           /\ l \in DOMAIN sent[q] /\ sent'[q][l] = sent[q][l] /\ (q = Peer => l < new)
  <2>1. ~ (p = q /\ k < l)
    BY <1>0, <1>7 DEF new
  <2>2. sent'[p][k][a].no # sent'[q][l][b].no
    BY <1>4, <1>7 DEF Apart
  <2> QED
    BY <2>1, <2>2
<1>8. CASE /\ p = Peer /\ k = new /\ sent'[p][k] = t
           /\ q = Peer /\ l = new /\ sent'[q][l] = t
  <2>1. ~ (k < l)
    BY <1>0, <1>8 DEF new
  <2> QED
    BY <1>8, <2>1, UnitsOfText
<1> QED
  BY <1>1, <1>5, <1>6, <1>7, <1>8

\* send(): what there is room for of a text goes to its client, the rest is lost.
LEMMA SendKeeps ==
  ASSUME IInv, Send
  PROVE  IInv'
<1> USE DEF EndTurn, GoTo, Throw, progress, tables, sockets
<1>0. /\ pc = "send" /\ client \in DOMAIN Clients /\ Peer \in Peers /\ client \in DOMAIN ClientMsgs
      /\ conn[Peer] = "up" /\ Peer = Clients[client]
  BY PeerIsAccepted DEF Send, Serving, IInv, Looked, Peer
<1> DEFINE text == ClientMsgs[client]
<1>1. CASE broken[Peer]
  <2>1. Lost
    BY <1>0, <1>1 DEF Lost
  <2> QED
    BY <1>0, <1>1, <2>1, MoveKeeps DEF Send, IInv, TypeOK, Serving
<1>2. CASE ~ broken[Peer]
  <2>1. /\ UNCHANGED <<todo, Clients, conn, queue, inbox, written, ended, broken>>
        /\ pc' = "next" /\ client' = 0 /\ buffer' = <<>>
        /\ ClientMsgs' = [ClientMsgs EXCEPT ![client] = <<>>]
        /\ \/ UNCHANGED <<sent, space>>
           \/ \E n \in 1..Lesser(Len(text), space[Peer]) :
                /\ sent' = [sent EXCEPT ![Peer] = Append(sent[Peer], SubSeq(text, 1, n))]
                /\ space' = [space EXCEPT ![Peer] = space[Peer] - n]
    BY <1>2 DEF Send
  <2>2. /\ text \in Seq(Units) /\ Text(text) /\ (text # <<>> => text[1].to = client)
        /\ space \in [Peers -> 0..MaxRoom] /\ MaxRoom \in Nat
        /\ sent \in [Peers -> Seq(Seq(Units))]
    BY <1>0, ConstantsAssumption DEF IInv, TypeOK, Texts
  <2>3. CASE UNCHANGED <<sent, space>>
    <3>1. \A x \in Units, p \in Peers : WasSent(x, p)' => WasSent(x, p)
      BY <2>3 DEF WasSent
    <3>2. DeliveredOnceInOrder'
      BY <2>3 DEF IInv, DeliveredOnceInOrder
    <3>3. \A p \in Peers : \A k \in DOMAIN sent'[p] :
             Text(sent'[p][k]) /\ sent'[p][k] # <<>>
               /\ (\A i \in DOMAIN Clients : p = Clients[i] => sent'[p][k][1].to = i)
      BY <2>3 DEF IInv, Texts
    <3>4. \A p \in Peers : conn[p] # "up" => sent'[p] = <<>>
      BY <2>3 DEF IInv, Accepted
    <3> QED
      BY <1>0, <2>1, <2>2, <2>3, <3>1, <3>2, <3>3, <3>4, ClearedKeeps
  <2>4. ASSUME NEW n \in 1..Lesser(Len(text), space[Peer]),
               sent' = [sent EXCEPT ![Peer] = Append(sent[Peer], SubSeq(text, 1, n))],
               space' = [space EXCEPT ![Peer] = space[Peer] - n]
        PROVE  IInv'
    <3> DEFINE t == SubSeq(text, 1, n)
    <3>1. n \in 1..Len(text) /\ space[Peer] - n \in 0..MaxRoom
      BY <1>0, <2>2 DEF Lesser
    <3>2. /\ t \in Seq(Units) /\ Text(t) /\ t # <<>> /\ t[1].to = client
          /\ \A a \in DOMAIN t : a \in DOMAIN text /\ t[a] = text[a]
      BY <2>2, <3>1, PieceOfText
    <3>3. \A a \in DOMAIN t : IsLeft(t[a], client)
      BY <1>0, <3>2 DEF IsLeft
    <3> HIDE DEF t
    <3>4. sent' = [sent EXCEPT ![Peer] = Append(sent[Peer], t)]
      BY <2>4 DEF t
    <3>5. DeliveredOnceInOrder'
      BY <1>0, <3>2, <3>3, <3>4, DeliveredOneMore
    <3>6. \A p \in Peers : sent'[p] = IF p = Peer THEN Append(sent[Peer], t) ELSE sent[p]
      BY <2>2, <3>4
    <3>7. \A p \in Peers : \A k \in DOMAIN sent'[p] :
             \/ p = Peer /\ sent'[p][k] = t
             \/ k \in DOMAIN sent[p] /\ sent'[p][k] = sent[p][k]
      <4> SUFFICES ASSUME NEW p \in Peers, NEW k \in DOMAIN sent'[p]
                   PROVE  \/ p = Peer /\ sent'[p][k] = t
                          \/ k \in DOMAIN sent[p] /\ sent'[p][k] = sent[p][k]
        OBVIOUS
      <4>1. CASE p = Peer
        <5>1. sent[p] \in Seq(Seq(Units)) /\ sent'[p] = Append(sent[p], t)
          BY <2>2, <3>6, <4>1
        <5>2. k \in 1..(Len(sent[p]) + 1)
          BY <5>1
        <5> QED
          BY <4>1, <5>1, <5>2
      <4>2. CASE p # Peer
        BY <3>6, <4>2
      <4> QED
        BY <4>1, <4>2
    <3>8. \A p \in Peers : \A k \in DOMAIN sent'[p] :
             Text(sent'[p][k]) /\ sent'[p][k] # <<>>
               /\ (\A i \in DOMAIN Clients : p = Clients[i] => sent'[p][k][1].to = i)
      BY <1>0, <3>2, <3>7 DEF IInv, Texts, Accepted
    <3>9. \A p \in Peers : conn[p] # "up" => sent'[p] = <<>>
      BY <1>0, <3>6 DEF IInv, Accepted
    <3>10. \A x \in Units, p \in Peers :
              WasSent(x, p)' => WasSent(x, p) \/ (p = Peer /\ IsLeft(x, client))
      BY <3>3, <3>7 DEF WasSent
    <3>11. space' \in [Peers -> 0..MaxRoom] /\ sent' \in [Peers -> Seq(Seq(Units))]
      <4>1. sent[Peer] \in Seq(Seq(Units)) /\ Append(sent[Peer], t) \in Seq(Seq(Units))
        BY <1>0, <2>2, <3>2
      <4>2. space' \in [Peers -> 0..MaxRoom]
        BY <1>0, <2>2, <2>4, <3>1
      <4> QED
        BY <1>0, <2>2, <3>4, <4>1, <4>2
    <3> QED
      BY <1>0, <2>1, <3>5, <3>8, <3>9, <3>10, <3>11, ClearedKeeps
  <2> QED
    BY <2>1, <2>3, <2>4
<1> QED
  BY <1>1, <1>2

-----------------------------------------------------------------------------
(* The peers and the network.                                              *)

\* What the network does to the sockets of the server: a queue only gets longer
\* at its end, or is thrown away with a connection that breaks.
LEMMA SocketsKeep ==
  ASSUME IInv, UNCHANGED <<pc, todo, client, buffer, Clients, ClientMsgs, conn, queue, sent>>,
         inbox' \in [Peers -> Seq(Units)], space' \in [Peers -> 0..MaxRoom],
         written' \in [Peers -> Nat], ended' \in [Peers -> BOOLEAN], broken' \in [Peers -> BOOLEAN],
         \A p \in Peers : /\ Len(inbox'[p]) <= written'[p] /\ Queued(p, inbox'[p], Taken(p)')
                         /\ Taken(p) <= Taken(p)',
         Lost => Lost',
         Lost' \/ \A p \in Peers : inbox[p] # <<>> => inbox'[p] # <<>>
  PROVE  IInv'
<1>1. TypeOK'
  BY DEF IInv, TypeOK, ClientIndex
<1>2. Looked'
  BY PeerIsAccepted DEF IInv, Looked, Peer, Serving
<1>3. Accepted' /\ DeliveredOnceInOrder'
  BY DEF IInv, Accepted, DeliveredOnceInOrder
<1>4. Texts'
  BY DEF IInv, Texts, Peer, Text, Queued
<1>5. OnTheWay'
  <2>1. \A x \in Units : InBuffer(x)' => InBuffer(x)
    BY DEF InBuffer
  <2>2. \A x \in Units, i \in Digits : IsLeft(x, i)' => IsLeft(x, i)
    BY DEF IsLeft
  <2>3. \A x \in Units, p \in Peers : WasSent(x, p)' => WasSent(x, p)
    BY DEF WasSent
  <2>4. \A p \in Peers : Taken(p) \in Int /\ Taken(p)' \in Int /\ Taken(p) <= Taken(p)'
    <3>1. \A p \in Peers : Len(inbox'[p]) \in Nat /\ written'[p] \in Nat
      OBVIOUS
    <3> QED
      BY <3>1, TakenIsNumber DEF IInv, Taken
  <2> QED
    BY <2>1, <2>2, <2>3, <2>4, WayKept DEF IInv
<1> QED
  BY <1>1, <1>2, <1>3, <1>4, <1>5 DEF IInv

\* A connection comes into the listen queue.
LEMMA ConnectKeeps ==
  ASSUME IInv, NEW p \in Peers, Connect(p)
  PROVE  IInv'
<1>1. /\ conn[p] = "none" /\ conn' = [conn EXCEPT ![p] = "queued"]
      /\ queue' = Append(queue, p) /\ Len(queue) < Backlog /\ Backlog \in Nat
      /\ UNCHANGED <<pc, todo, client, buffer, Clients, ClientMsgs, sent>>
      /\ UNCHANGED <<inbox, space, written, ended, broken>>
      /\ conn \in [Peers -> {"none", "queued", "aborted", "gone", "up"}] /\ queue \in Seq(Peers)
  BY ConstantsAssumption DEF Connect, progress, tables, sockets, IInv, TypeOK
<1>2. queue' \in Seq(Peers) /\ Len(queue') <= Backlog /\ queue' # <<>>
  BY <1>1
<1>3. \A q \in Peers : conn'[q] = IF q = p THEN "queued" ELSE conn[q]
  BY <1>1
<1>4. Lost => Lost'
  BY <1>1, <1>3 DEF Lost
<1>5. \A q \in Peers : conn'[q] = "up" <=> conn[q] = "up"
  BY <1>1, <1>3
<1>6. conn' \in [Peers -> {"none", "queued", "aborted", "gone", "up"}]
  BY <1>1
<1> QED
  BY <1>1, <1>2, <1>4, <1>5, <1>6, ConnectionsKeep

\* A connection dies there.
LEMMA AbortKeeps ==
  ASSUME IInv, NEW p \in Peers, Abort(p)
  PROVE  IInv'
<1>1. /\ conn[p] = "queued"
      /\ UNCHANGED <<pc, todo, client, buffer, Clients, ClientMsgs, sent>>
      /\ UNCHANGED <<inbox, space, written, ended, broken>>
      /\ conn \in [Peers -> {"none", "queued", "aborted", "gone", "up"}]
      /\ queue \in Seq(Peers) /\ Len(queue) <= Backlog /\ Backlog \in Nat
  BY ConstantsAssumption DEF Abort, progress, tables, sockets, IInv, TypeOK
<1>2. ASSUME NEW i \in DOMAIN queue, queue' = RemoveAt(queue, i), conn' = [conn EXCEPT ![p] = "gone"]
      PROVE  IInv'
  <2>1. queue' \in Seq(Peers) /\ Len(queue') <= Backlog
    <3> DEFINE before == SubSeq(queue, 1, i - 1)
               after == SubSeq(queue, i + 1, Len(queue))
    <3>1. before \in Seq(Peers) /\ Len(before) = i - 1
      BY <1>1, PieceOf
    <3>2. after \in Seq(Peers) /\ Len(after) = Len(queue) - i
      BY <1>1, PieceOf
    <3>3. queue' = before \o after
      BY <1>2 DEF RemoveAt
    <3> HIDE DEF before, after
    <3>4. queue' \in Seq(Peers) /\ Len(queue') = Len(before) + Len(after)
      BY <3>1, <3>2, <3>3, ConcatProperties
    <3> QED
      BY <1>1, <3>1, <3>2, <3>4
  <2>2. Lost' /\ \A q \in Peers : conn'[q] = "up" <=> conn[q] = "up"
    BY <1>1, <1>2 DEF Lost
  <2>3. conn' \in [Peers -> {"none", "queued", "aborted", "gone", "up"}]
    BY <1>1, <1>2
  <2> QED
    BY <1>1, <2>1, <2>2, <2>3, ConnectionsKeep
<1>3. CASE conn' = [conn EXCEPT ![p] = "aborted"] /\ UNCHANGED queue
  <2>1. \A q \in Peers : conn'[q] = IF q = p THEN "aborted" ELSE conn[q]
    BY <1>1, <1>3
  <2>2. Lost => Lost'
    BY <1>1, <2>1 DEF Lost
  <2>3. conn' \in [Peers -> {"none", "queued", "aborted", "gone", "up"}]
    BY <1>1, <1>3
  <2>4. \A q \in Peers : conn'[q] = "up" <=> conn[q] = "up"
    BY <1>1, <2>1
  <2> QED
    BY <1>1, <1>3, <2>2, <2>3, <2>4, ConnectionsKeep
<1> QED
  BY <1>2, <1>3 DEF Abort

\* A peer or the network breaks a connection.
LEMMA ResetKeeps ==
  ASSUME IInv, NEW p \in Peers, Reset(p)
  PROVE  IInv'
<1>1. /\ broken' = [broken EXCEPT ![p] = TRUE]
      /\ UNCHANGED <<pc, todo, client, buffer, Clients, ClientMsgs, conn, queue, sent>>
      /\ UNCHANGED <<space, written, ended>>
      /\ inbox' = inbox \/ inbox' = [inbox EXCEPT ![p] = <<>>]
  BY DEF Reset, progress, tables
<1>2. /\ inbox \in [Peers -> Seq(Units)] /\ space \in [Peers -> 0..MaxRoom]
      /\ written \in [Peers -> Nat] /\ ended \in [Peers -> BOOLEAN] /\ broken \in [Peers -> BOOLEAN]
  BY DEF IInv, TypeOK
<1>3. broken' \in [Peers -> BOOLEAN] /\ inbox' \in [Peers -> Seq(Units)] /\ Lost'
  <2>1. broken' \in [Peers -> BOOLEAN] /\ broken'[p]
    BY <1>1, <1>2
  <2>2. inbox' \in [Peers -> Seq(Units)]
    <3>1. <<>> \in Seq(Units)
      OBVIOUS
    <3> QED
      BY <1>1, <1>2, <3>1
  <2> QED
    BY <2>1, <2>2 DEF Lost
<1>4. \A q \in Peers : inbox'[q] = inbox[q] \/ inbox'[q] = <<>>
  BY <1>1, <1>2
<1>5. ASSUME NEW q \in Peers
      PROVE  /\ Len(inbox'[q]) <= written'[q] /\ Queued(q, inbox'[q], Taken(q)')
             /\ Taken(q) <= Taken(q)'
  <2>1. Len(inbox[q]) \in Nat /\ written[q] \in Nat /\ written' = written
    BY <1>1, TakenIsNumber DEF IInv
  <2>2. CASE inbox'[q] = inbox[q]
    BY <2>1, <2>2 DEF IInv, Texts, Taken
  <2>3. CASE inbox'[q] = <<>>
    <3>1. Len(inbox'[q]) = 0 /\ DOMAIN inbox'[q] = {}
      BY <2>3
    <3> QED
      BY <2>1, <3>1 DEF Taken, Queued
  <2> QED
    BY <1>4, <2>2, <2>3
<1> QED
  BY <1>1, <1>2, <1>3, <1>5, SocketsKeep

\* A peer writes.
LEMMA WriteKeeps ==
  ASSUME IInv, NEW p \in Peers, NEW to \in Digits, Write(p, to)
  PROVE  IInv'
<1> DEFINE unit == [from |-> p, no |-> written[p] + 1, to |-> to]
<1>1. /\ inbox \in [Peers -> Seq(Units)] /\ space \in [Peers -> 0..MaxRoom]
      /\ written \in [Peers -> Nat] /\ ended \in [Peers -> BOOLEAN] /\ broken \in [Peers -> BOOLEAN]
  BY DEF IInv, TypeOK
<1>2. /\ written' = [written EXCEPT ![p] = written[p] + 1]
      /\ UNCHANGED <<pc, todo, client, buffer, Clients, ClientMsgs, conn, queue, sent>>
      /\ UNCHANGED <<space, ended, broken>>
      /\ inbox' = [inbox EXCEPT ![p] = Append(inbox[p], unit)]
  BY <1>1 DEF Write, progress, tables
<1>3. /\ Len(inbox[p]) <= written[p] /\ Queued(p, inbox[p], written[p] - Len(inbox[p]))
      /\ Len(inbox[p]) \in Nat
  BY TakenIsNumber DEF IInv, Texts, Taken
<1> DEFINE longer == Append(inbox[p], unit)
<1>4. /\ longer \in Seq(Units) /\ Len(longer) = Len(inbox[p]) + 1
      /\ Queued(p, longer, written[p] - Len(inbox[p]))
  BY <1>1, <1>3, QueueGrows
<1> HIDE DEF longer
<1>5. inbox' = [inbox EXCEPT ![p] = longer]
  BY <1>2 DEF longer
<1>6. inbox' \in [Peers -> Seq(Units)] /\ written' \in [Peers -> Nat] /\ (Lost => Lost')
  BY <1>1, <1>2, <1>4, <1>5 DEF Lost
<1>7. ASSUME NEW q \in Peers
      PROVE  /\ Len(inbox'[q]) <= written'[q] /\ Queued(q, inbox'[q], Taken(q)')
             /\ Taken(q) <= Taken(q)' /\ (inbox[q] # <<>> => inbox'[q] # <<>>)
  <2>1. CASE q = p
    <3>1. inbox'[q] = longer /\ written'[q] = written[p] + 1
      BY <1>1, <1>2, <1>5, <2>1
    <3>2. Taken(q)' = written[p] - Len(inbox[p])
      BY <1>1, <1>3, <1>4, <3>1 DEF Taken
    <3>3. Taken(q) = written[p] - Len(inbox[p])
      BY <2>1 DEF Taken
    <3>4. Len(inbox'[q]) <= written'[q] /\ inbox'[q] # <<>>
      BY <1>1, <1>3, <1>4, <3>1
    <3> QED
      BY <1>1, <1>3, <1>4, <2>1, <3>1, <3>2, <3>3, <3>4
  <2>2. CASE q # p
    <3>1. inbox'[q] = inbox[q] /\ written'[q] = written[q]
      BY <1>1, <1>2, <1>5, <2>2
    <3>2. Taken(q)' = Taken(q) /\ Taken(q) \in Int
      BY <3>1, TakenIsNumber DEF IInv, Taken
    <3> QED
      BY <3>1, <3>2 DEF IInv, Texts
  <2> QED
    BY <2>1, <2>2
<1> QED
  BY <1>1, <1>2, <1>6, <1>7, SocketsKeep

\* A peer finishes writing, or reads.
LEMMA EndReadKeep ==
  ASSUME IInv, NEW p \in Peers, End(p) \/ Read(p)
  PROVE  IInv'
<1>1. /\ inbox \in [Peers -> Seq(Units)] /\ space \in [Peers -> 0..MaxRoom] /\ MaxRoom \in Nat
      /\ written \in [Peers -> Nat] /\ ended \in [Peers -> BOOLEAN] /\ broken \in [Peers -> BOOLEAN]
  BY ConstantsAssumption DEF IInv, TypeOK
<1>2. /\ UNCHANGED <<pc, todo, client, buffer, Clients, ClientMsgs, conn, queue, sent>>
      /\ UNCHANGED <<inbox, written, broken>>
      /\ ended' \in [Peers -> BOOLEAN] /\ space' \in [Peers -> 0..MaxRoom]
  <2>1. CASE End(p)
    BY <1>1, <2>1 DEF End, progress, tables
  <2>2. CASE Read(p)
    <3>1. space[p] + 1 \in 0..MaxRoom
      BY <1>1, <2>2 DEF Read
    <3> QED
      BY <1>1, <2>2, <3>1 DEF Read, progress, tables
  <2> QED
    BY <2>1, <2>2
<1>3. \A q \in Peers : /\ Len(inbox'[q]) <= written'[q] /\ Queued(q, inbox'[q], Taken(q)')
                        /\ Taken(q) <= Taken(q)'
  <2>1. \A q \in Peers : Taken(q) \in Int
    BY TakenIsNumber DEF IInv
  <2> QED
    BY <1>2, <2>1 DEF IInv, Texts, Taken
<1> QED
  BY <1>1, <1>2, <1>3, SocketsKeep DEF Lost

-----------------------------------------------------------------------------
(* The theorems.                                                           *)

\* In the beginning there is nothing on the way.
LEMMA InvariantInit == Init => IInv
<1> SUFFICES ASSUME Init PROVE IInv
  OBVIOUS
<1>1. TypeOK
  <2>1. DOMAIN Clients = {} /\ DOMAIN ClientMsgs = {} /\ ClientIndex = 0
    BY FS_EmptySet DEF Init, ClientIndex
  <2>2. 0..(0 - 1) = {}
    OBVIOUS
  <2>3. Clients \in [{} -> Peers]
    BY DEF Init
  <2>4. <<>> \in Seq(Units) /\ <<>> \in Seq(Peers) /\ <<>> \in Seq(Seq(Units)) /\ Len(<<>>) = 0
    OBVIOUS
  <2> QED
    BY <2>1, <2>2, <2>3, <2>4, ConstantsAssumption DEF Init, TypeOK
<1>2. Looked /\ Accepted /\ Texts
  BY DEF Init, Looked, Serving, Accepted, Texts, Queued
<1>3. OnTheWay
  <2>1. /\ \A x \in Units : ~ InBuffer(x)
        /\ \A x \in Units, i \in Digits : ~ IsLeft(x, i)
        /\ \A x \in Units, p \in Peers : ~ WasSent(x, p)
    BY DEF Init, InBuffer, IsLeft, WasSent
  <2> QED
    BY <2>1 DEF OnTheWay
<1>4. DeliveredOnceInOrder
  BY DEF Init, DeliveredOnceInOrder
<1> QED
  BY <1>1, <1>2, <1>3, <1>4 DEF IInv

\* Every step keeps the invariant.
LEMMA InvariantNext == IInv /\ [Next]_vars => IInv'
<1> SUFFICES ASSUME IInv, [Next]_vars PROVE IInv'
  OBVIOUS
<1>1. CASE Server
  BY <1>1, LooksKeep, AcceptKeeps, ReceiveKeeps, StoreKeeps, SendKeeps DEF Server
<1>2. CASE Network
  BY <1>2, ConnectKeeps, AbortKeeps, ResetKeeps, WriteKeeps, EndReadKeep DEF Network
<1>3. CASE UNCHANGED vars
  <2> USE <1>3 DEF vars, progress, tables, sockets
  <2>1. TypeOK' /\ Looked' /\ Accepted'
    BY DEF IInv, TypeOK, ClientIndex, Looked, Lost, Peer, Accepted
  <2>2. Texts' /\ DeliveredOnceInOrder'
    BY DEF IInv, Texts, Taken, Peer, DeliveredOnceInOrder
  <2>3. OnTheWay'
    BY DEF IInv, OnTheWay, InBuffer, IsLeft, WasSent, Taken
  <2> QED
    BY <2>1, <2>2, <2>3 DEF IInv
<1> QED
  BY <1>1, <1>2, <1>3 DEF Next

\* The invariant holds throughout.
LEMMA InvariantAlways == Spec => []IInv
<1> QED
  BY InvariantInit, InvariantNext, PTL DEF Spec

\* The tables hold what they are meant to, however many clients come: indices
\* are given out without a gap.
THEOREM TypeCorrect == Spec => []TypeOK
<1>1. IInv => TypeOK
  BY DEF IInv
<1> QED
  BY <1>1, InvariantAlways, PTL

\* Looking first is enough: only a lost connection ends the server or makes it
\* wait, whatever happens between a look and the call it is for.
THEOREM OnlyLossEndsServer == Spec => []OnlyLostConnectionsHarm
<1>1. IInv => OnlyLostConnectionsHarm
  BY DEF IInv, Looked, Lost, OnlyLostConnectionsHarm
<1> QED
  BY <1>1, InvariantAlways, PTL

\* Every text a client gets is a piece of what one peer wrote, and begins with
\* the unit that names this client.
THEOREM TextsArriveAsWritten == Spec => []DeliveredAsWritten
<1>1. IInv => DeliveredAsWritten
  <2> SUFFICES ASSUME IInv, NEW i \in DOMAIN Clients, NEW k \in DOMAIN sent[Clients[i]]
               PROVE  LET text == sent[Clients[i]][k]
                      IN  /\ text[1].to = i
                          /\ \A j \in DOMAIN text \ {1} :
                                /\ text[j].from = text[j - 1].from
                                /\ text[j].no = text[j - 1].no + 1
    BY DEF DeliveredAsWritten
  <2> DEFINE text == sent[Clients[i]][k]
  <2>1. Clients[i] \in Peers /\ text \in Seq(Units)
    BY DEF IInv, TypeOK
  <2>2. text[1].to = i /\ Text(text)
    BY <2>1 DEF IInv, Texts
  <2> HIDE DEF text
  <2>3. ASSUME NEW j \in DOMAIN text \ {1}
        PROVE  text[j].from = text[j - 1].from /\ text[j].no = text[j - 1].no + 1
    <3>1. j \in Nat /\ j - 1 \in DOMAIN text /\ 1 \in DOMAIN text
      BY <2>1
    <3>2. text[1] \in Units /\ text[1].no \in Nat
      <4>1. text[1] \in Units
        BY <2>1, <3>1
      <4> QED
        BY <4>1 DEF Units
    <3>3. text[j].no = text[1].no + j - 1 /\ text[j - 1].no = text[1].no + (j - 1) - 1
      BY <2>2, <3>1 DEF Text
    <3>4. text[j].from = text[j - 1].from
      BY <2>2, <3>1 DEF Text
    <3> QED
      BY <3>1, <3>2, <3>3, <3>4
  <2> QED
    BY <2>2, <2>3 DEF text
<1> QED
  BY <1>1, InvariantAlways, PTL

\* Nothing is delivered twice, to two clients, or out of its order.
THEOREM UnitsArriveOnceInOrder == Spec => []DeliveredOnceInOrder
<1>1. IInv => DeliveredOnceInOrder
  BY DEF IInv
<1> QED
  BY <1>1, InvariantAlways, PTL

=============================================================================
