--------------------------- MODULE SocketOptions ---------------------------
(***************************************************************************)
(* set_option() and get_option() of a socket, with the option objects of   *)
(* socket_option.hpp and what socket_ops::setsockopt and getsockopt do on  *)
(* the way: options the library keeps in its own state, a linger flag, the *)
(* halved buffer sizes of Linux, IPV6_V6ONLY on Windows before Vista,      *)
(* which has none (platform "xp").                                         *)
(*                                                                         *)
(* An option is its name and its data, a tuple: one integer for boolean    *)
(* and integer options, two for linger, an IPv4 and an IPv6 part for the   *)
(* multicast options.  The member _protocol selects one of them and the    *)
(* level it is for; assign() sets it and open() does not, so it need not   *)
(* be the family of the socket.  Boolean options stand for all of their    *)
(* kind in keep_alive, integer options in send_buffer_size.                *)
(***************************************************************************)
EXTENDS Integers, Sequences

CONSTANTS
  Programs,    \* sets of options that a program uses together
  Groups,      \* multicast groups: [family, no]
  Sizes,       \* buffer sizes a program asks for
  MinBuffer,   \* the limits of the operating system for them
  MaxBuffer,
  Timeouts,    \* linger timeouts
  Words16,     \* values of an unsigned 16-bit word
  ByteValues   \* values of a byte

Families == {"AF_INET", "AF_INET6"}

ASSUME OptionsAssumption ==
  /\ Groups \subseteq [family : Families, no : Nat \ {0}]
  /\ Sizes \cup Timeouts \subseteq Nat
  /\ {MinBuffer, MaxBuffer, Words16, ByteValues} \subseteq Nat \ {0}
  /\ MinBuffer <= MaxBuffer

VARIABLES
  platform,  \* what the library was built for and runs on
  family,    \* of the operating system's socket
  protocol,  \* the family of _protocol
  uses,      \* the options the program uses
  state,     \* the socket's own flags
  kernel,    \* option name -> the operating system's value
  groups,    \* the groups the socket is a member of
  option,    \* the option object
  call,      \* the last call: "set", "get", "open", "assign", or "none" since
             \* the object was made
  ec,        \* its error
  asked,     \* option name -> what it was last set to on this socket (history)
  joined     \* what it was made to join and not to leave (history)

socket == <<platform, family, protocol, uses>>
vars   == <<socket, state, kernel, groups, option, call, ec, asked, joined>>

-----------------------------------------------------------------------------
(* The option objects.                                                      *)

Booleans == {"keep_alive", "v6_only", "enable_connection_aborted"}
Requests == {"join_group", "leave_group"}
Names    == Booleans \cup Requests
              \cup {"always_fail", "send_buffer_size", "linger", "outbound_interface"}

ASSUME ProgramsAssumption == Programs \subseteq SUBSET Names

\* What the kernel answers for a boolean option that is set, all in one byte.
Truths == {1, 8}

ASSUME BytesAssumption == \A t \in Truths : t < ByteValues

AnyOf(f) == [family |-> f, no |-> 0]

\* The part for one family; the other is zero, the "any" address.
Parts(g) ==
  <<IF g.family = "AF_INET" THEN g ELSE AnyOf("AF_INET"),
    IF g.family = "AF_INET6" THEN g ELSE AnyOf("AF_INET6")>>

\* Fault: the timeout is not narrowed.
TimeoutWide(t) == t

\* linger(bool, int): a 16-bit timeout on Windows.
Timeout(t) == IF platform = "linux" THEN t ELSE t % Words16

\* The objects a program makes, with the value it asks for.
Objects ==
  [name : Booleans, data : {<<0>>, <<1>>}]
    \cup [name : {"always_fail"}, data : {<<1>>}]
    \cup [name : {"send_buffer_size"}, data : {<<n>> : n \in Sizes}]
    \cup [name : {"linger"}, data : {<<on, Timeout(t)>> : on \in {0, 1}, t \in Timeouts}]
    \cup [name : Requests \cup {"outbound_interface"}, data : {Parts(g) : g \in Groups}]

\* Fault: the part for IPv4 is handed over, whatever the protocol.
FirstPart(o) == o.data[1]

\* data(_protocol)
Part(o) == o.data[IF protocol = "AF_INET6" THEN 2 ELSE 1]

-----------------------------------------------------------------------------
(* Sockets.                                                                 *)

NewState == [enable_connection_aborted |-> FALSE, user_set_linger |-> FALSE]

\* What the system keeps for a new socket.
NewKernel ==
  [keep_alive |-> <<0>>, v6_only |-> <<0>>, send_buffer_size |-> <<MinBuffer>>,
   linger |-> <<0, 0>>, outbound_interface |-> [f \in Families |-> AnyOf(f)]]

\* A socket that was just opened, of either family; _protocol is IPv4 when the
\* object is made.
Init ==
  /\ platform \in {"linux", "windows", "vista", "xp"}
  /\ family \in Families /\ protocol = "AF_INET"
  /\ uses \in Programs
  /\ state = NewState /\ kernel = NewKernel /\ groups = {}
  /\ option = [name |-> "keep_alive", data |-> <<0>>]
  /\ call = "open" /\ ec = "success"
  /\ asked = [n \in {} |-> << >>]
  /\ joined = {}

Renewed(f) ==
  /\ family' = f
  /\ state' = NewState /\ kernel' = NewKernel /\ groups' = {}
  /\ ec' = "success"
  /\ asked' = [n \in {} |-> << >>] /\ joined' = {}
  /\ UNCHANGED <<platform, uses, option>>

\* open() makes a new socket and leaves _protocol as it was.
Open(f) ==
  /\ call' = "open"
  /\ Renewed(f) /\ UNCHANGED protocol

\* assign() takes over a socket, with a protocol that says what it is.
Assign(f) ==
  /\ call' = "assign"
  /\ Renewed(f) /\ protocol' = f

\* A program makes an option object.
Make ==
  /\ option' \in {o \in Objects : o.name \in uses}
  /\ call' = "none" /\ ec' = "success"
  /\ UNCHANGED <<socket, state, kernel, groups, asked, joined>>

Asked(n, v) == asked' = [m \in DOMAIN asked \cup {n} |-> IF m = n THEN v ELSE asked[m]]

-----------------------------------------------------------------------------
(* setsockopt                                                               *)

SetCall ==
  /\ call = "none"
  /\ call' = "set"
  /\ UNCHANGED <<socket, option>>

Fails(error) == ec' = error /\ UNCHANGED <<kernel, groups, asked, joined>>

\* The library answers for itself, without the system.
SetAlwaysFail ==
  /\ option.name = "always_fail"
  /\ Fails("invalid_argument")
  /\ UNCHANGED state /\ SetCall

SetAborted ==
  /\ option.name = "enable_connection_aborted"
  /\ state' = [state EXCEPT !.enable_connection_aborted = option.data # <<0>>]
  /\ Asked(option.name, option.data)
  /\ ec' = "success"
  /\ UNCHANGED <<kernel, groups, joined>> /\ SetCall

ToKernel == option.name \notin {"always_fail", "enable_connection_aborted"}

\* The flag that has the destructor turn linger off is set before the call,
\* and stays when the call fails.
NoteLinger ==
  state' = IF option.name = "linger" THEN [state EXCEPT !.user_set_linger = TRUE] ELSE state

Unsupported == option.name = "v6_only" /\ (platform = "xp" \/ family = "AF_INET")

\* The system refuses: for its own reasons, for an option it does not have.
SetRefused ==
  /\ ToKernel
  /\ Fails("refused")
  /\ NoteLinger /\ SetCall

Clamp(n) == IF n < MinBuffer THEN MinBuffer ELSE IF n > MaxBuffer THEN MaxBuffer ELSE n

\* What the system keeps.  Linux doubles buffer sizes; a linger option that is
\* off need not change the timeout.
Kept(n, data) ==
  CASE n = "send_buffer_size" ->
         {<<IF platform = "linux" THEN 2 * Clamp(data[1]) ELSE Clamp(data[1])>>}
    [] n = "linger" ->
         {data} \cup IF data[1] = 0 THEN {<<0, kernel.linger[2]>>} ELSE {}
    [] OTHER -> IF data = <<0>> THEN {data} ELSE {<<t>> : t \in Truths}

SetValue ==
  /\ option.name \in {"keep_alive", "v6_only", "send_buffer_size", "linger"} /\ ~Unsupported
  /\ \E v \in Kept(option.name, option.data) : kernel' = [kernel EXCEPT ![option.name] = v]
  /\ Asked(option.name, option.data)
  /\ ec' = "success"
  /\ NoteLinger /\ SetCall /\ UNCHANGED <<groups, joined>>

\* An IPv4 socket has no options of the IPv6 level; an IPv6 socket may have
\* those of the IPv4 level.
LevelExists == protocol = "AF_INET6" => family = "AF_INET6"

\* The any address is a fine interface, the default one ...
SetInterface ==
  /\ option.name = "outbound_interface" /\ LevelExists
  /\ kernel' = [kernel EXCEPT !.outbound_interface[protocol] = Part(option)]
  /\ Asked(option.name, option.data)
  /\ ec' = "success"
  /\ UNCHANGED <<state, groups, joined>> /\ SetCall

\* ... but no group, and a group is joined and left once.
SetMembership ==
  /\ option.name \in Requests /\ LevelExists
  /\ LET g == Part(option)
     IN  IF g.no = 0 THEN Fails("not_multicast")
         ELSE IF (option.name = "join_group") = (g \in groups) THEN Fails("refused")
         ELSE /\ groups' = IF option.name = "join_group" THEN groups \cup {g} ELSE groups \ {g}
              /\ joined' = IF option.name = "join_group"
                           THEN joined \cup {option.data} ELSE joined \ {option.data}
              /\ ec' = "success"
              /\ UNCHANGED <<kernel, asked>>
  /\ UNCHANGED state /\ SetCall

SetOption ==
  \/ SetAlwaysFail \/ SetAborted \/ SetRefused \/ SetValue \/ SetInterface \/ SetMembership

-----------------------------------------------------------------------------
(* getsockopt, and resize() of the option when it succeeds.                 *)

Gettable == option.name \notin Requests \cup {"outbound_interface"}

GetCall ==
  /\ call = "none"
  /\ call' = "get"
  /\ UNCHANGED <<socket, state, kernel, groups, asked, joined>>

GetAlwaysFail ==
  /\ option.name = "always_fail"
  /\ ec' = "invalid_argument"
  /\ UNCHANGED option /\ GetCall

GetAborted ==
  /\ option.name = "enable_connection_aborted"
  /\ option' = [option EXCEPT !.data = IF state.enable_connection_aborted THEN <<1>> ELSE <<0>>]
  /\ ec' = "success"
  /\ GetCall

\* What error_wrapper makes of a Winsock code.
Translated(code) == IF code = "WSAENOPROTOOPT" THEN "no_protocol_option" ELSE code

\* Where the system has no IPV6_V6ONLY the library is to pretend that it is on;
\* but the code it looks for has been translated by then.
GetRefused ==
  /\ ToKernel /\ Gettable
  /\ \E code \in {"refused"} \cup IF platform = "linux" THEN {} ELSE {"WSAENOPROTOOPT"} :
       IF option.name = "v6_only" /\ Translated(code) = "WSAENOPROTOOPT"
       THEN ec' = "success" /\ option' = [option EXCEPT !.data = <<1>>]
       ELSE ec' = Translated(code) /\ UNCHANGED option
  /\ GetCall

\* Fault: the doubled size is returned.
ShownDoubled(v) == v

\* On Linux the size of a buffer is halved.
Shown(v) ==
  IF platform = "linux" /\ option.name = "send_buffer_size" THEN <<v[1] \div 2>> ELSE v

\* Vista writes one byte of a boolean's four and says so; resize() then makes
\* the whole of it from that byte.
OneByte(v) ==
  LET written == option.data[1] - (option.data[1] % ByteValues) + (v[1] % ByteValues)
  IN  <<IF written % ByteValues # 0 THEN 1 ELSE 0>>

GetValue ==
  /\ ToKernel /\ Gettable /\ ~Unsupported
  /\ LET v == Shown(kernel[option.name])
     IN  option' = [option EXCEPT !.data =
           IF platform = "vista" /\ option.name \in Booleans THEN OneByte(v) ELSE v]
  /\ ec' = "success"
  /\ GetCall

GetOption == GetAlwaysFail \/ GetAborted \/ GetRefused \/ GetValue

-----------------------------------------------------------------------------
Next ==
  \/ \E f \in Families : Open(f) \/ Assign(f)
  \/ Make \/ SetOption \/ GetOption

Spec == Init /\ [][Next]_vars

-----------------------------------------------------------------------------
(* What the options promise.                                                *)

TypeOK ==
  /\ platform \in {"linux", "windows", "vista", "xp"}
  /\ family \in Families /\ protocol \in Families
  /\ uses \in Programs
  /\ state \in [enable_connection_aborted : BOOLEAN, user_set_linger : BOOLEAN]
  /\ \A n \in DOMAIN kernel \ {"outbound_interface"} : kernel[n] \in Seq(Nat)
  /\ kernel.send_buffer_size[1] <= 2 * MaxBuffer
  /\ kernel.linger[2] < Words16 \/ platform = "linux"
  /\ \A f \in Families : kernel.outbound_interface[f] \in Groups \cup {AnyOf(f)}
  /\ groups \subseteq Groups
  /\ option.name \in Names
  /\ Gettable => option.data \in Seq(Nat)
  /\ call \in {"set", "get", "open", "assign", "none"}
  /\ ec \in {"success", "refused", "invalid_argument", "not_multicast", "no_protocol_option"}

\* What get_option() says without an error is what set_option() was last told,
\* on every platform and whatever was set in between: a boolean its truth,
\* which may come back in one byte or as another number than one; a buffer
\* size within the system's limits the very size, which Linux has doubled;
\* linger what is in force of it.  The flag of the socket that the calls
\* of accept go by says what the option says (socket_option.hpp:99-118,
\* socket_ops.ipp:1210-1395).
ReadsBackWhatWasSet ==
  LET n == option.name
      told == asked[n]
  IN  /\ call = "get" /\ ec = "success" /\ n \in DOMAIN asked =>
           /\ n \in Booleans => (option.data = <<0>>) = (told = <<0>>)
           /\ n = "send_buffer_size" => option.data = <<Clamp(told[1])>>
           /\ n = "linger" => /\ option.data[1] = told[1]
                              /\ told[1] = 1 => option.data = told
      /\ "enable_connection_aborted" \in DOMAIN asked =>
           state.enable_connection_aborted = (asked["enable_connection_aborted"] = <<1>>)
      /\ "linger" \in DOMAIN asked => state.user_set_linger

\* The interface of a family that was asked for, of the recorded one.
InterfaceAsked(f) ==
  {g \in Groups : /\ g.family = f /\ f = protocol
                  /\ "outbound_interface" \in DOMAIN asked
                  /\ asked["outbound_interface"] = Parts(g)}

\* The socket is in the groups it was made to join and did not leave, each of
\* the family that _protocol records; a request is refused as no group only when
\* its group is of the other family, whose part is not looked at.  An outbound
\* interface of the other family is not refused: it silently puts back the
\* default interface of the recorded one.  So in an object that was
\* only opened, with IPv6 or not, every request is one about IPv4 (socket_option.hpp:734-748 and 807-821,
\* basic_socket.hpp:1721-1723).
RequestsReachRecordedFamily ==
  /\ joined = {Parts(g) : g \in groups}
  /\ \A g \in groups : g.family = protocol
  /\ ec = "not_multicast" => \A g \in Groups : option.data = Parts(g) => g.family # protocol
  /\ \A f \in Families :
       kernel.outbound_interface[f] \in
         IF InterfaceAsked(f) = {} THEN {AnyOf(f)} ELSE InterfaceAsked(f)

=============================================================================
