# NetLite: models and proofs

NetLite is a small C++ socket library in the manner of Asio: a class template
`basic_socket` over the BSD/Winsock calls, a layer of functions `socket_ops`
that wrap each call and retry it, addresses and endpoints as values, and the
beginning of a Windows completion-port `io_context`. This directory holds TLA+
models of the parts that keep state, the TLC configurations that check them on
small instances, and theorems about them checked by TLAPS.

Paths below are relative to the repository; `basic_socket.hpp` and the like are
in `NetLite/`.

## 1. Inventory

### basic_socket: objects and descriptors (`basic_socket.hpp`)

*State.* `_shared_socket`, a `shared_ptr` to a heap cell with the native handle;
`_state`, flag bits; `_open`; `_protocol`. Copies share the cell and have their
own flags.

*Operations.* Default construction, open, assign, accept, connect, copy and move
construction and assignment, listen, bind, non_blocking, set_option, get_option,
shutdown, close, destruction.

*Interactions.* Every operation is a call into `socket_ops` with
`native_handle()` and `_state`; the operating system reuses closed handles.

*Hard.* Who closes: the destructor when the use count is one, `close()` always.
Each failure path: `open()` stores `invalid_socket`, a failed accept still makes
an object, the destructor throws, what `shutdown` reports or what the `close()` it
calls does. Copies that outlive a `close()`.

*Correct when.* No object names a descriptor that was closed; none is lost; the
flags say what the descriptor does; destruction ends the program for none but
known causes.

### socket_ops: the synchronous operations (`socket_ops.ipp`)

*State.* None of its own: the descriptor's mode and queues are the system's, the
flags are the caller's, passed by value to the `sync_` loops and by reference to
close, set_user_non_blocking and setsockopt.

*Operations.* One wrapper for each system call; `sync_X` (try, poll, try again);
`non_blocking_X` (try, again after a signal, report whether it completed); the
four poll functions.

*Interactions.* `basic_socket::accept` and `connect` call the `sync_` loops;
`receive` and `send` call the raw `recv` and `send`.

*Hard.* What poll said is stale when the next attempt is made; zero bytes have
three meanings; the flag and the descriptor's mode can differ; EINTR; a reset
that is reported once; aborted connections in the listen queue; a signed count
returned as `size_t`.

*Correct when.* Blocking calls never show would_block, non-blocking transfers
never wait, the end of the stream is reported only where it is or where a reset
was reported before, and no byte, datagram or connection is taken from the system and not returned.

### win_iocp_io_context (`io_services/`)

*State.* `stopped_`, `stop_event_posted_`, `shutdown_`, `unfinished_work_`
(atomics), `completed_ops_`, the completion port.

*Operations.* run, run_one, wait_one, poll, poll_one, stop, shutdown,
register_handle, from any thread.

*Hard.* `stop()` is two check-then-set pairs; the post may fail after both flags
are set.

*Correct when.* A stop is signalled, the events posted are bounded, calls return.

### winsock_init (`winsock_init.hpp`, `.ipp`)

*State.* A process-wide count and the result of the last WSAStartup.

*Operations.* Construction, copying and destruction of instances.

*Hard.* The first increment and the end of WSAStartup are not one step; a failed
start is counted.

*Correct when.* Whoever has an instance can use Winsock, and the last one out
cleans up.

### Addresses, iterators and ranges (`ip/address*`)

*State.* Values: four or sixteen bytes, a scope for IPv6, which of the two an
`ip::address` holds.

*Operations.* Classification, conversion between the families, comparison; `++`
and `--` of the iterators; `begin`, `end`, `empty`, `size` and `find` of the
ranges.

*Interactions.* A loop over a range compares addresses with `==` and goes on with
`++`; `find` orders them; an endpoint is where the addresses come from.

*Hard.* Carries over several bytes, the highest address, unsigned differences;
scopes, which `==` and `<` look at and `++` does not change; the mapped and
compatible forms of an IPv4 address and the two addresses that look like one.

*Correct when.* Iterating, counting and searching agree, and conversions lose
nothing.

### Endpoints (`ip/endpoint.*`, `basic_endpoint.hpp`)

*State.* A union of two socket addresses that the program or the system writes.

*Operations.* Construction from a family or an address; the setters; `data`,
`size` and `capacity`, through which accept, receive_from and remote_endpoint
have the system fill it.

*Hard.* Members of one structure lie over those of the other and stay behind;
`accept` passes `size()`, the others `capacity()`.

*Correct when.* An endpoint the system filled names the peer, and nothing else
decides how it compares.

### Socket options (`socket_option.hpp`, `socket_base.hpp`, `ip/multicast.hpp`)

*State.* The option object; two flags of the socket and its `_protocol`; the
system's value.

*Operations.* `set_option`, `get_option`, and `resize` of the option after it.

*Hard.* Options the library answers itself; a flag set before a call that may
fail; sizes Linux doubles; booleans Vista answers in one byte; options with a
part for each family, selected by `_protocol`, which `assign()` sets and `open()`
does not.

*Correct when.* What is read back is what was set, and a request is the one that
was made, for the family that `_protocol` records.

### Buffers (`mutablebuf.hpp`, `detail/buffer_sequence_adapter.hpp`)

*State.* A length and a `shared_ptr` that owns its block or does nothing with it.

*Operations.* Construction, copies, moves, `assign`; the adapter of a sequence.

*Hard.* Two control blocks for one block; moves and self-assignments; the limit
of buffers in one call.

*Correct when.* An owned block is freed once, after its last buffer.

### The demo programs (`proj.win32/`)

The server keeps sockets and texts by index and serves them in one loop of
polling calls, in which an exception ends everything. The client has two threads
that share a `std::string` without a lock: one reads words into it, the other
sends and clears it.

*Correct when.* A peer that did nothing wrong is neither forgotten nor able to
end the server; a text is relayed once; a word is sent whole unless the threads
meet.

### The other parts

| part | state | status |
|---|---|---|
| has_state, wait, has_pending_accept | none; they poll with a timeout of 10 or 16 ms | `SyncOps`, `EchoServer` |
| asynchronous operations of basic_socket | none: each ends in `assert(false)` | not modelled |
| inet_pton, inet_ntop, host functions, to_string, from_string | none | parsing and system calls, not modelled |
| win_iocp_operation, do_one | nothing makes an operation, do_one has no body | nothing to model |
| error table, types, config | none | not modelled |

## 2. Modules

| module | models | 
|---|---|
| `BasicSocket` | the life of socket objects, cells and handles |
| `SocketOwnership` | abstract: holders of descriptors, open exactly while held |
| `DisciplinedSocket` | `BasicSocket` under two rules of use and a system whose closes close, and its mapping to `SocketOwnership` |
| `MCBasicSocket`, `MCDisciplinedSocket` | symmetry for TLC |
| `BasicSocketProofs` | theorems about `BasicSocket` and about the mapping |
| `SyncOps`, `SyncOpsProofs` | the synchronous operations on one descriptor, with the network; theorems about them |
| `EchoServer`, `EchoServerProofs` | the demo server: the polling calls, accept, receive and send composed in one loop, with its clients; theorems about it |
| `IocpContext`, `IocpContextProofs` | the io_context, theorems about it |
| `WinsockInit`, `WinsockInitProofs` | the count of Winsock users around main, theorems about it |
| `Addresses` | addresses as values: kinds, order, conversions (operators only) |
| `AddressRange` | iterators and ranges, and a loop over a range |
| `Endpoint` | the union of an endpoint, written by program and system |
| `PeerFilter` | composes the two: peers' addresses are sought in ranges |
| `SocketOptions`, `SocketOptionsProofs` | set_option and get_option with their option objects, theorems about them |
| `Buffers` | mutablebuf, its control blocks, the sequence adapter |
| `EchoClient`, `EchoClientProofs` | the demo client: two threads and a string; theorems about them |
| `ValueProofs` | theorems about `PeerFilter`, with all it composes, and about `Buffers` |
| `MCPeerFilter`, `MCSocketOptions`, `MCBuffers` | instances of these: addresses and ranges, options, symmetry |

An operator whose comment starts with `Fault:` is a wrong version of the
definition that follows it. No specification uses one; substituted for that
definition it breaks a property, which shows that the property depends on the
code being as it is.

### BasicSocket

| variable | code |
|---|---|
| `alive` | the objects between constructor and destructor |
| `shared` | `_shared_socket` of each object, `NullPtr` when empty |
| `cell` | the `native_handle_type` in each heap cell |
| `state` | `_state`: user_set_non_blocking, user_set_linger, possible_dup |
| `open` | `_open` |
| `kernel` | the system's descriptors: status, non-blocking mode, linger |
| `running` | FALSE after std::terminate |
| `history` | which of four kinds of call were made (history variable) |

Each action is one member function with the socket_ops call it makes; a failing
call is an action of its own (`OpenFails`, `AcceptFails`, `DestroyTerminates`,
`DestroyCloseThrows`). Objects are used by one thread at a time, as the class has
no lock, so a member function is one step. A handle leaves `free` by `::socket` or `::accept` and
returns to it only by close. `AcceptFails` gives `_open` either value: the
constructor accept uses does not initialise it. A close that fails with
EWOULDBLOCK and the second attempt are one step (`CloseResults`, `AfterClose`): the
answer of the last attempt counts, and when there were two the non-blocking flags
are cleared. ::close may also fail for a reason of the system's, EINTR or EIO, at
either attempt, and then leaves the descriptor open or free as the system likes;
the object drops it all the same (`CloseAndReset`), and what close() throws
afterwards changes nothing more. In the destructor it ends the program: the
destructor has two points that throw, what `shutdown` reports
(`DestroyTerminates`) and the close() that follows (`DestroyCloseThrows`). Left
out: bind, the endpoint queries, get_option and the other options, which change
nothing here; one-sided shutdowns.

`history` lets the invariants say what they depend on. `NoStaleHandle` holds as
long as no shared descriptor was closed with `close()`; `NoLeak` as long as no
last owner was opened again or assigned over, and none let go of a descriptor
that a failed ::close had left open ("lost" notes both);
`StateAgreesWithKernel` as long as nothing was copied; `TerminationCause` excepts
a destructor whose ::close failed ("failed_end"). Each exception is necessary:
without it TLC finds a counterexample of a few calls. `DisciplinedSocket` turns
the first two into rules of use, adds that no ::close leaves its descriptor open,
which no program can see to, and shows what a program that keeps the rules then
gets.

### SyncOps

One descriptor of a role (stream, datagram, listener, dialer), one calling
thread, one step per system call, and the network free to act between any two.
`pc` is the place in the loop: before the attempt, in poll, before reading
SO_ERROR. `call.flags` is the copy of `_state` the loop was given. `Attempt` is
the system call followed by the tests the loop makes of its answer
(`AfterTransfer` and the operators it chooses from, `AfterAccept`,
`AfterConnect`, `CheckConnect`); what the system can answer is in the
`Kernel...` operators: interrupted at any time, would_block only to a
descriptor in non-blocking mode, short transfers, resets, empty, short and too
long datagrams (too long is an error on Windows, a short read elsewhere). poll has
no timeout and state 0, as every `sync_` loop calls it. A call on a descriptor whose mode makes it wait is simply not enabled yet.
`SizeModulus` stands for 2^64. The two loops of recvmsg are those of recvfrom,
and `non_blocking_sendto` is `non_blocking_send`. `set_internal_non_blocking` and
`select` are called by nothing in the library. A send of several datagrams, and
out-of-band data, are left out.

`non_blocking_connect`, too, is called by nothing. It first polls without
waiting and takes any answer but zero for the end of the attempt, so a signal in
that poll makes it report success for an attempt that is still going on;
`OutcomesAreReal` therefore speaks of `sync_connect` only.

A reset is an error that the next call reports (`ReportReset`); what was not read
before may still be there and comes first. POSIX systems forget the error once it
was reported, and then a recv finds no bytes, which sync_recv and
non_blocking_recv take for the end of a stream that the peer never ended. Windows
reports it again. `reset` therefore has three values, and `told` remembers that an
operation has returned the error: `EndOfStreamIsReal` says that a caller sees no
end of the stream unless the peer ended it or the caller was told. An error that
no operation returned cannot get lost on the way, because no loop tries again
after one. The property also excepts non_blocking_recv with empty buffers: unlike
sync_recv it makes no exception for them and takes the zero bytes it asked for to
be the end of the stream (`socket_ops.ipp:730`).

`wait` and `has_state` only poll (`Look`): when the timeout runs out has_state
says no and wait polls again, which is a step that changes nothing.

### EchoServer

The loop of `NetLiteServer/main.cpp`, one step per system call; `pc` is the call
to come, `client`, `buffer` and `todo` are the variables of the loop, `Clients`
and `ClientMsgs` its two maps. Each call stands for the path through the library
that `SyncOps` models in detail, on a non-blocking socket and without signals
(the program installs no handler): has_pending_accept is `Pending`, whose first
poll asks for an error a listener never has; accept is `Accept` and `AcceptPoll`;
has_state, available, receive, remote_endpoint and send follow. All are the
versions that throw, main catches nothing, and `dead` is where an exception
leads. The peers connect, write, read, end and reset at any time.

A unit is what a peer writes at once, with its first character, the index of the
client it is for (`to`); a receive takes any stretch of units from the front of
the queue, and the text keeps them all, as the code keeps the whole buffer but its
first byte, under the index named by that byte. That byte, and the zeros behind
what was received, which are sent as well (`main.cpp:44`), are left out: no
property looks inside a unit. A connection that dies in the listen queue
disappears, is reported by accept, or is accepted broken: systems differ. `sent`
is a history of what each send wrote.

### IocpContext

Each access to an atomic is a step, so `stop()` has five. `run` stands for run,
run_one, wait_one, poll and poll_one: the five differ in the timeout they would
give to do_one, which none of them reaches. `port` and `failures` count the
stop events posted and refused. Nothing in the repository adds to
`unfinished_work_`, which therefore stays zero.

### WinsockInit

Startup and cleanup are split at the interlocked operations. The static
instances, one for each source file that includes the header, are made and
destroyed one by one outside main; the others come and go in any interleaving
within it, and main ends when they are gone. A detached thread that outlives
main (the demo client has one) breaks this assumption.

### Addresses, AddressRange, Endpoint, PeerFilter

An address is a record of its type, its bytes and its scope. The bits of a byte
(`Width`) and the bytes before the suffix (`Zeros`, `Ones`) are parameters, so that
carries and the highest address are near; the tests of leading bits are
divisions. What is computed byte by byte, or bit by bit as in `Or`, is a recursive
function, not a RECURSIVE operator, so that it can be proved about. `Less` is `operator<` of `ip::address`, equality of records is `==`.

`AddressRange` is the loop `for (it = begin(); it != end(); ++it)` with a step
back now and then: `at` is the iterator, `visited`, `from` and `steps` are
history. `Endpoint` has the union `ep` field by field in the order of memory, so
that the system can write fewer bytes than a socket address has (`Filled`) and
what an IPv6 address left lies under an IPv4 one. `Accept`, `AcceptShort` and
`AcceptRefused` are `accept(peer_endpoint, ec)`, which passes `size()`;
`ReceiveFrom` and `RemoteEndpoint` pass `capacity()`. `PeerFilter` seeks the
endpoint's address in the range, by way of `to_v4()` where the range is one of
IPv4 addresses, and lets the loop go on from what `find()` returned.

`PeerIsKnown` speaks of peers the system had room to write. That `accept` has
none for an IPv6 peer in a new endpoint, which holds 0.0.0.0, is what
`AcceptShort` and `AcceptRefused` are for. `LoopEnds` speaks of an end with the
iterator's scope: `find()` returns iterators of which that is not true, and
their loops do not end.

Left out: text; `local_endpoint`, which passes an `int*` where `getsockname` takes
a `std::size_t*` (`basic_socket.hpp:1598`) and so cannot be instantiated; the
protocols, which are two numbers.

### SocketOptions

`option` is the one option object in use, `state` the two flags of the socket,
`kernel` the system's values, `asked` what each option was last set to on the
socket. `family` is that of the system's socket and `protocol` that of the
object's `_protocol`, which is IPv4 in a new object: `Open` makes a socket of any
family and leaves `protocol` as it was, as open() does
(`basic_socket.hpp:175-194`), `Assign` sets both. `Part`, and the level of the
request, go by `protocol` (`basic_socket.hpp:1721-1723`). Whether the socket has
that level is the system's affair (`LevelExists`): an IPv4 socket has no options
of the IPv6 level, an IPv6 socket may have those of the IPv4 level, so that
`kernel` has an outbound interface for each family. So an IPv6 socket that was
opened is asked to join IPv4 groups and never an IPv6 one, and one that was
assigned before and is opened again goes by the protocol of the old socket.
`RequestsReachRecordedFamily` says what a request still is in all of this: the one
that was made, for the recorded family. That this is the socket's family is not
true, and no property says so. An accepted socket has the family of the listener's
socket and the protocol its object has recorded, so it is where an `Open` or an
`Assign` has put the listener; copies and moves carry `_protocol` with the
descriptor, and are left out. The
actions of `setsockopt` and `getsockopt` are its branches in their order; what
the system does is in `Kept`, `Clamp`, `Unsupported` and the `...Refused`
actions. One boolean and one integer option stand for the others of their kind,
which differ in level and name. Two things are visible here that no property
forbids: `linger` sets `user_set_linger` before the call and leaves it set when
the call fails (`socket_ops.ipp:1242`); an outbound interface of the other family
silently puts the default one of the recorded family back, as the part for that
one is "any".

Reading `multicast_enable_loopback`, `unicast_hops` or `multicast_hops`, and
making a `multicast_hops` of an int, instantiate calls of `throw_exception`, which
is declared nowhere (`socket_option.hpp:410` and others); they do not compile and
are left out.

### Buffers

`holder` is the `shared_ptr` of each mutablebuf: a control block with its block,
whether it owns that, and a number. `Hold` replaces the holders and frees what
lost its last one. `given` counts how often a block was handed over with
`need_del`. `Adapt` is the adapter over a sequence of mutablebufs; what a call is
handed lasts for that step, as the adapter does for a call. Blocks have one size.
Left out: that `need_del` deletes with `delete` what may come from `new[]`
(`mutablebuf.hpp:131`), that `make_buffer<mutablebuf>` takes any element for a
`vector<char>` (`mutablebuf.hpp:363`), and `make_constbuf` of an empty vector, which
takes the address of an element that is not there (`mutablebuf.hpp:327`): each is
seen by reading.

### EchoClient

The accesses of two threads to `msg` are single steps: the size, each character
and the terminator are stored one by one, in any order within one append or
clear, because a data race has no other order. The string stays in its small
buffer, so nothing is allocated; a send copies at once. `raced` and `clash` note
which words and which sends a race can have spoiled; `WholeWordsUnlessRaced`
says that all others are whole, in order, and lost only to a word typed before
they were taken. A socket call that throws ends the client, as in the server.

## 3. Runs

| run | module | shows |
|---|---|---|
| `basic_socket_two_handles` | MCBasicSocket | TypeOK, NoStaleHandle, NoLeak, StateAgreesWithKernel, TerminationCause |
| `disciplined_socket` | MCDisciplinedSocket | ImplementsOwnership (refinement) |
| `sync_ops` | SyncOps | SyncTypeOK, ModeRespected, EndOfStreamIsReal, OutcomesAreReal, NothingLost, ReadyCallsReturn |
| `echo_server` | EchoServer | OnlyLostConnectionsHarm, DeliveredAsWritten, DeliveredOnceInOrder, QueueIsServed, MailIsSent |
| `iocp_context` | IocpContext | StopEventsBounded, StopIsSignalled, CallsReturn, RunStops |
| `winsock_init` | WinsockInit | UsableWhileLive, Balanced |
| `peer_filter` | MCPeerFilter | IterationAgrees, PeerIsKnown, FilterIsRight, ConversionsAgree, LoopEnds |
| `socket_options` | MCSocketOptions | ReadsBackWhatWasSet, RequestsReachRecordedFamily |
| `buffers` | MCBuffers | BuffersTypeOK, BytesAreThere |
| `echo_client` | EchoClient | WholeWordsUnlessRaced, WaitingTextIsTaken |

*Bounds.* Two objects, two cells and two handles are the least at which a
descriptor is shared, dropped by one and reused by the other, and at which a
move or an assignment replaces one descriptor with another. Each object needs
one cell at most, so cells are never short. The invariants and the refinement
are proved for every number.
`sync_ops` has queues of two: a transfer can be short, complete, or leave
something; two connections let one abort behind another; SizeModulus 16 is
larger than every count, so that minus one is told from a size. `echo_server`
has two connections that write two units in all, to each other or to themselves,
through queues of two: a text is replaced, mixed with another peer's, sent
short, or sent in two parts within these. Three threads in `iocp_context` let
one win both checks, one lose the second and one the first. `winsock_init` has
three static instances, so that the middle one is neither the first nor the
last, and five others.
`peer_filter` has bytes of four bits, the least that the tests of leading bits
allow, and IPv6 addresses of seven bytes with every part of the real ones; its
fifteen ranges are empty, plain, across one and two carries, around the highest
address, with swapped ends, and of two scopes; four steps pass each carry and a
step back returns over it; two calls let an endpoint be used for a second peer.
`socket_options` asks for sizes below, within and above the system's limits, and
for a timeout that fits sixteen bits and one that does not (four values stand for
2^16). `buffers` has three buffers, so that two can share a block and a third
have its own, three assignments, so that a block is given twice or given and
lent, and sequences one longer than a call takes. `echo_client` has words of one
and two characters, so that a word can be cut and one can leave its end under
another, and two words, the one a race spoils and the one after it.

*Symmetry.* Objects, cells and handles, and buffers and blocks, are
interchangeable: no definition orders or names one. The runs that use symmetry
check no liveness property.

*Deadlock.* Checked in `sync_ops`, `iocp_context`, `socket_options` and `buffers`.
In the others the system really stops: a program that called std::terminate or
that has ended, a client whose connection broke, a loop at its end whose program
has made its two calls.

*Fairness.* `SyncOps` assumes that the calling thread is scheduled and that not
every system call of it is interrupted; the network and the caller owe nothing.
`ReadyCallsReturn` then says that a call does not go on for ever while what it
waits for stays there, provided that aborted connections stop turning up in
front of an accept, which starts again for each. `EchoServer` assumes that the
server's thread runs, and nothing of the peers. `IocpContext` assumes weak
fairness of each thread inside a call. Nobody has to call anything. `EchoClient`
assumes that main's thread runs and that a server that keeps the connection reads
from it; nobody has to type. `PeerFilter` assumes that a loop goes on while its
condition holds.

### What the documentation says and the code does not do

Two runs check a statement of the documentation and end in a counterexample.

| run | statement | what happens |
|---|---|---|
| `failed_accept_is_open` | accept() on error returns a socket with is_open() false | `_open` is never initialised on that path |
| `receive_hides_eof` | receive() reports the end of the stream by an error code | it returns 0 without an error |

Of the same kind, and without a run of their own; the passing runs check what
does hold there:

- open() and accept() "throw on failure" (`basic_socket.hpp:141`), but the
  destructor of the socket they failed on throws too and terminates the program
  (`TerminationCause` says when);
- open() makes a socket that "will use the specified protocol"
  (`basic_socket.hpp:158`), but the options go by `_protocol`, which open() does not
  set: after open(udp::v6()) on a new object a request to join an IPv6 group hands
  the system the IPv4 part of it, which is zero, and is refused
  (`RequestsReachRecordedFamily` says for which family requests are);
- receive() and send() "return 0 if an error occurred" (`basic_socket.hpp:430`,
  `528`), but return the largest size_t (`ToSize` in `SyncOps`);
- non-blocking operations "fail with would_block" (`basic_socket.hpp:834`), but
  connect waits for its answer, and accept after an aborted connection
  (`ModeRespected` therefore speaks of transfers only);
- "we limit the number of outstanding events" to one stop event
  (`win_iocp_io_context.hpp:72`), but threads that stop together each post one
  (`StopEventsBounded` has the bound);
- before Vista "we will fake success" of reading IPV6_V6ONLY
  (`socket_ops.ipp:1364`), but the code that is compared with WSAENOPROTOOPT has
  been translated by `error_wrapper`, so the read fails (`Translated` in
  `SocketOptions`); the same order of steps hides WSAEMSGSIZE in `recv`;
- the destructor is to turn linger off (`socket_ops.ipp:221`) but calls close(),
  which says it is no destructor;
- `is_non_blocking()` reads the flags of one copy while the mode is the
  descriptor's, so after a copy the two can disagree, which is why
  `StateAgreesWithKernel` excludes copies.

## 4. Proofs

`BasicSocketProofs` proves, for any sets of objects, cells and handles (assuming
only that `InvalidSocket` is no handle and `NullPtr` no cell):

- `TypeCorrect`, the type invariant;
- `NoStaleHandleAlways`, `NoLeakAlways`, `StateAgreesAlways`;
- `TerminationCauseAlways`.

None of the three invariants of the second line is inductive alone. That a sole
owner may close its descriptor rests on no other object naming the same handle
through another cell (the second half of `NoStaleHandle`) and on objects that do
not exist holding nothing (`DeadHoldNothing`); that a move or a destructor keeps
the flags in agreement rests on two objects sharing a cell only after a copy
(`SharingIsNoted`). Their conjunction `Safe` is inductive. The proof first
describes what each change of pointers does to what the objects see
(`HoldsSocketEffect`, `DropEffect`, `CopyEffect`, `MoveEffect`), then shows once
for each kind of change that `Safe` survives it, and then assigns every action
of `Next` to one of them. Of ::close it is used that it leaves every other handle
as it was and that only a failure leaves its own open (`AfterCloseEffect`).
`TerminationCause` follows from the two actions that clear `running`: one
describes the state it leaves, the other is only reached with an open handle, as
`shutdown` has reported nothing else, and notes that ::close failed.

It also proves `OwnershipImplemented`, the refinement, for any sets:
`DisciplinedSpec => Ownership!Spec`. While the two rules are followed and no
::close leaves its descriptor open, `NoStaleHandle` and `NoLeak` together say that
the open descriptors are the held ones (`OpenedIsHeld`), in every state; so only the holders are left, and the
effects above say how each kind of call moves them: a call that gives an object
a descriptor acquires, a copy shares, a move hands over, a close, a destructor
or a failed open releases, and everything else is a stutter. The abstract guards,
that no object leaves a descriptor it holds alone, follow from the rule against
overwriting: who alone sees a descriptor is its last owner (`AloneIsLastOwner`),
because two cells never have one handle.

`WinsockInitProofs` proves `TypeCorrect`, `UsableWhileLiveAlways` and
`BalancedAlways` for any finite sets of instances, with at least one static one.
The inductive invariant adds that the count is the number of instances counted
in (`Counting`), what instances may be doing in each phase (`InPhase`), that
whoever starts Winsock or cleans it up is the only instance (`Alone`), and how
far Winsock is up for each thing it may be doing (`UpAsFar`). That the count is
one after an increment, or zero after a decrement, means by `Counting` that no
other instance is counted; `InPhase` rules out one that is still cleaning up.

`IocpContextProofs` proves `TypeCorrect`, `StopEventsBoundedAlways` and
`StopIsSignalledAlways` for any finite set of threads. `Safe` adds to the bound
that nothing has happened before `stopped_` is set and that each flag that is
set is followed up by a thread still inside stop() or already by a post. The
bound itself counts a thread inside the second part of stop() as a post to come:
a thread enters it only while `stopped` is FALSE, when no post was made, so the
threads there are the whole sum; afterwards nobody enters.

`SyncOpsProofs` proves `TypeCorrect`, `ModeRespectedAlways`,
`EndOfStreamIsRealAlways`, `OutcomesAreRealAlways` and the action property
`NothingIsLost`, for queues of any length and sizes of any width that is larger
than every queue. A property of a result says what the call saw when it returned,
so the invariant `Safe` adds what a call has seen on its way (`PlaceOfCall`): only
a blocking call of the library's own loops gets to poll, a stream read that is
told to wait was not empty, `sync_connect` reads SO_ERROR only when the attempt
has ended. `ResetIsTold` says that a reset the system no longer reports was
returned to the caller: the call that met it did not try again. The network acts between any two steps; what the properties say of
its queues after a return is what it cannot undo. `ToSizeOfCount` is the one
piece of arithmetic: a count is its own size, and minus one is none.

`EchoServerProofs` proves `TypeCorrect`, `OnlyLossEndsServer`,
`TextsArriveAsWritten` and `UnitsArriveOnceInOrder`, for any finite set of peers,
any number of clients and texts, and queues of any length. `Looked` says what the
server found before it got where it is, as long as no connection was lost;
`Accepted` that clients are connections that are up, each under one index.
Delivery rests on where a unit can be: in its peer's receive queue, in the
buffer, in a text that is left, or with a client. `Texts` says that each of
these holds an unbroken piece of one peer's writing, and `OnTheWay` that what is
further on the way is earlier, and that no unit is in two places; what was taken
from a queue is counted by what the peer wrote less what is still there
(`Taken`). `DeliveredOnceInOrder` alone is not inductive: it says nothing of the
texts that are still to be sent.

`SocketOptionsProofs` proves `TypeCorrect`, `ReadsBackAlways` and
`RequestsReachAlways`, for any groups, sizes, limits and timeouts, and for all
four platforms (assuming that what the system answers for a boolean fits in one
byte). `Told` relates what the system and the socket keep to what they were last
told, option by option; `Fresh` says that an option object is as the program made
it until a call changes it, without which nothing is known of what is set. The
arithmetic is in `ClampBounds` (half of the doubled size is the size) and
`OneByteTells` (one byte of an answer has its truth). A renewed socket is as good
as a first one (`NewIsSound`), whatever family its object has recorded; nothing in
the invariant says that this is the socket's. That `joined` and `groups`
shrink together needs that a group is known by its parts (`PartsTellApart`).

`EchoClientProofs` proves `TypeCorrect` and `WordsAreWhole` for any number of
words of any length, and any order of the stores of the two threads. What is kept
of any word is its bounds (`Growth`): main only ever lowers the size, so a thread
that appends to a size it has read stays within the word. For a word that main
did not meet in msg, `Undisturbed` follows the text character by character
(`Reading`), then says that it stands there whole and unsent (`Standing`) or was
sent and is, or is being, taken out (`Taken`); so it is sent at most once, and
after all words before it (`SentWords`).

`ValueProofs` proves, of `PeerFilter`, `TypeCorrect`, `IterationAgreesAlways`,
`PeerIsAlwaysKnown`, `FilterIsAlwaysRight` and `ConversionsAlwaysAgree`, for bytes
of four bits or more, IPv6 prefixes of any length, and any ranges, ports and peers,
finite or not; the code's eight bits and twelve bytes are one case. The argument
has three layers.

- *What the operators compute.* The prover knows no induction over a recursive
  function, and no powers. `LeastOf`, that a set of numbers has a least one (from
  the library's well-founded orders), gives induction over a set (`UpTo`);
  `Recursion` says that a function defined from its value before exists, without
  which nothing is known of its CHOOSE. From these follow the laws of `Power`, that
  bytes are a number below a power of `Base` and every such number is bytes
  (`NumberBound`, `NumberOfDigits`), that memcmp orders them as their numbers
  (`NumberOrder`), that a carry over any number of bytes adds one or goes round
  (`CarryAdds`), and what `Or` does with zeros and ones (`OrNothing`, `OrAll`).
- *The loop.* `IterationAgrees` is not inductive. `Placed` says that the iterator
  is `steps` from its start, modulo the number of addresses, and in the same scope;
  `Swept` that in an ordered range it never goes round and has seen exactly what
  lies behind it, which a step back keeps, because what was seen stays seen.
- *The endpoint.* `PeerWritten` says that the union holds the peer's address and
  port. That a write of the system that ends within an IPv6 address cannot break
  it is because the peer is then unknown; that a setter cannot is because it
  forgets the peer. The verdict follows from `find()`'s comparisons (`FindIs`).

Of `Buffers` it proves `BuffersTypeCorrect` and `BytesAreAlwaysThere`, for any
finite sets of buffers and blocks. `Accounts` is the invariant behind it: for each
block, what was freed and the control blocks that will free it are as many as
the times it was given away, or the program freed a block of its own that nobody
holds. It needs that no two control blocks are the same (`NumbersKept`: they are
numbered as they are made); `HoldCounts` says what a change of holders does to the
accounts, once for every operation.

The invariants were checked by TLC on the instances of the runs before they were
proved. The assumptions on constants are the `ASSUME`s of the modules, which TLC
evaluates in every run: sets are finite where they are counted, and numbers are
numbers.

Only model-checked: liveness (`ReadyCallsReturn`, `QueueIsServed`, `MailIsSent`,
`CallsReturn`, `RunStops`, `LoopEnds`, `WaitingTextIsTaken`), which is out of the
prover's reach. Every invariant and action property of the passing runs, and the
refinement, is also a theorem.

## 5. Not modelled

- The asynchronous operations end in `assert(false)`; `win_iocp_operation` is made
  by nothing, and do_one has an empty loop for a body.
- Parsing and formatting of addresses, the resolver functions, and the error
  table: no state, and their inputs are strings.
- What cannot be compiled: `local_endpoint`, and the three options above.
- The client index of the server above nine, linger in the destructor, the
  untranslated SO_ERROR of a connect, non_blocking_connect after a signal, and
  truncated datagrams on Windows: listed as hazards without a property, with the
  reason.
- A wait type that is none of the three of the enumeration, with which wait() spins
  for ever (`basic_socket.hpp:1437`): seen by reading.

## 6. Plan

The models are complete as far as the code goes, and every safety property of
the runs is proved. What is left:

1. `Buffers` as a second implementation of `SocketOwnership`: a program that gives
   each block away once gets shared ownership of it, as one that keeps the rules
   of `DisciplinedSocket` gets of descriptors.
2. `PeerFilter` without the bounds on calls and steps, which no theorem uses.
