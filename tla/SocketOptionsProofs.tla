------------------------ MODULE SocketOptionsProofs ------------------------
(***************************************************************************)
(* Proofs, for any groups, sizes, timeouts and widths, of what             *)
(* SocketOptions promises.  What get_option() returns is made of what the  *)
(* system or the socket keeps, so the invariant relates that to what was   *)
(* last asked, option by option and platform by platform.                  *)
(***************************************************************************)
EXTENDS SocketOptions, TLAPS

KernelNames == {"keep_alive", "v6_only", "send_buffer_size", "linger", "outbound_interface"}

\* What a program makes of a boolean.
OffOrOn == {<<0>>, <<1>>}

\* What the system keeps for a boolean option.
Answers == {<<0>>} \cup {<<t>> : t \in Truths}

\* What the system keeps for each option.
KernelKeeps ==
  /\ DOMAIN kernel = KernelNames
  /\ kernel["keep_alive"] \in Answers /\ kernel["v6_only"] \in Answers
  /\ \E n \in Nat : kernel["send_buffer_size"] = <<n>> /\ n <= 2 * MaxBuffer
  /\ \E on \in {0, 1}, t \in Nat :
        kernel["linger"] = <<on, t>> /\ (platform = "linux" \/ t < Words16)
  /\ DOMAIN kernel["outbound_interface"] = Families
  /\ \A f \in Families : kernel["outbound_interface"][f] \in Groups \cup {AnyOf(f)}

\* An option that was not used in a call yet is as the program made it.
Fresh == call = "none" => option \in Objects /\ ec = "success"

\* What the system and the socket keep is what they were last told.
Told ==
  /\ \A n \in {"keep_alive", "v6_only"} \cap DOMAIN asked :
        kernel[n] = <<0>> <=> asked[n] = <<0>>
  /\ "send_buffer_size" \in DOMAIN asked =>
        \E n \in Nat : /\ asked["send_buffer_size"] = <<n>>
                       /\ kernel["send_buffer_size"] =
                            <<IF platform = "linux" THEN 2 * Clamp(n) ELSE Clamp(n)>>
  /\ "linger" \in DOMAIN asked =>
        /\ kernel["linger"][1] = asked["linger"][1]
        /\ asked["linger"][1] = 1 => kernel["linger"] = asked["linger"]
        /\ state.user_set_linger
  /\ "enable_connection_aborted" \in DOMAIN asked =>
        /\ asked["enable_connection_aborted"] \in {<<0>>, <<1>>}
        /\ state.enable_connection_aborted = (asked["enable_connection_aborted"] = <<1>>)

IInv ==
  /\ TypeOK /\ KernelKeeps /\ Fresh /\ Told
  /\ ReadsBackWhatWasSet /\ RequestsReachRecordedFamily

-----------------------------------------------------------------------------
(* The option objects.                                                      *)

\* What a program makes.
LEMMA ObjectShape ==
  ASSUME TypeOK, NEW o \in Objects
  PROVE  /\ o.name \in Names
         /\ o.name \in Booleans => o.data \in {<<0>>, <<1>>}
         /\ o.name = "always_fail" => o.data = <<1>>
         /\ o.name = "send_buffer_size" => \E n \in Nat : o.data = <<n>>
         /\ o.name = "linger" =>
              \E on \in {0, 1}, t \in Nat :
                 o.data = <<on, t>> /\ (platform = "linux" \/ t < Words16)
         /\ o.name \in Requests \cup {"outbound_interface"} => \E g \in Groups : o.data = Parts(g)
<1>1. CASE o \in [name : Booleans, data : {<<0>>, <<1>>}]
  BY <1>1 DEF Booleans, Names, Requests
<1>2. CASE o \in [name : {"always_fail"}, data : {<<1>>}]
  BY <1>2 DEF Booleans, Names, Requests
<1>3. CASE o \in [name : {"send_buffer_size"}, data : {<<n>> : n \in Sizes}]
  BY <1>3, OptionsAssumption DEF Booleans, Names, Requests
<1>4. CASE o \in [name : {"linger"}, data : {<<on, Timeout(t)>> : on \in {0, 1}, t \in Timeouts}]
  <2>1. PICK on \in {0, 1}, t \in Timeouts : o.data = <<on, Timeout(t)>>
    BY <1>4
  <2>2. Timeout(t) \in Nat /\ (platform = "linux" \/ Timeout(t) < Words16)
    BY OptionsAssumption DEF Timeout
  <2> QED
    BY <1>4, <2>1, <2>2 DEF Booleans, Names, Requests
<1>5. CASE o \in [name : Requests \cup {"outbound_interface"}, data : {Parts(g) : g \in Groups}]
  BY <1>5 DEF Booleans, Names, Requests
<1> QED
  BY <1>1, <1>2, <1>3, <1>4, <1>5 DEF Objects

\* The part for the recorded family is looked at: the group that is asked for, if
\* it is of that family, and otherwise the any address, which is no group.
LEMMA PartOfObject ==
  ASSUME TypeOK, NEW g \in Groups, NEW o, o.data = Parts(g)
  PROVE  /\ g.family = protocol => Part(o) = g /\ g.no # 0
         /\ g.family # protocol => Part(o) = AnyOf(protocol) /\ AnyOf(protocol).no = 0
<1>1. g.family \in {"AF_INET", "AF_INET6"} /\ g.no \in Nat \ {0}
  BY OptionsAssumption DEF Families
<1>2. /\ Parts(g)[1] = IF g.family = "AF_INET" THEN g ELSE AnyOf("AF_INET")
      /\ Parts(g)[2] = IF g.family = "AF_INET6" THEN g ELSE AnyOf("AF_INET6")
  BY DEF Parts
<1> QED
  BY <1>1, <1>2 DEF Part, AnyOf, TypeOK, Families

\* Groups of one family are told apart by their parts.
LEMMA PartsTellApart ==
  ASSUME NEW g \in Groups, NEW h \in Groups, g.family = h.family, Parts(g) = Parts(h)
  PROVE  g = h
<1>1. g.family \in {"AF_INET", "AF_INET6"}
  BY OptionsAssumption DEF Families
<1>2. /\ Parts(g)[1] = IF g.family = "AF_INET" THEN g ELSE AnyOf("AF_INET")
      /\ Parts(g)[2] = IF g.family = "AF_INET6" THEN g ELSE AnyOf("AF_INET6")
      /\ Parts(h)[1] = IF h.family = "AF_INET" THEN h ELSE AnyOf("AF_INET")
      /\ Parts(h)[2] = IF h.family = "AF_INET6" THEN h ELSE AnyOf("AF_INET6")
  BY DEF Parts
<1> QED
  BY <1>1, <1>2

\* A size within limits is within them.
LEMMA ClampBounds ==
  ASSUME NEW n \in Nat
  PROVE  Clamp(n) \in Nat /\ Clamp(n) <= MaxBuffer /\ (2 * Clamp(n)) \div 2 = Clamp(n)
BY OptionsAssumption DEF Clamp

\* One byte of an answer is enough to tell its truth.
LEMMA OneByteTells ==
  ASSUME option.data \in OffOrOn, NEW v \in Answers
  PROVE  OneByte(v) \in {<<0>>, <<1>>} /\ (OneByte(v) = <<0>> <=> v = <<0>>)
<1>1. ByteValues \in Nat /\ ByteValues > 8
  BY OptionsAssumption, BytesAssumption DEF Truths
<1>2. option.data[1] % ByteValues = option.data[1] /\ option.data[1] \in {0, 1}
  BY <1>1 DEF OffOrOn
<1>3. v[1] \in {0, 1, 8} /\ v[1] % ByteValues = v[1] /\ (v = <<0>> <=> v[1] = 0)
  BY <1>1 DEF Answers, Truths
<1>4. (option.data[1] - (option.data[1] % ByteValues) + (v[1] % ByteValues)) % ByteValues = v[1]
  BY <1>1, <1>2, <1>3
<1> QED
  BY <1>3, <1>4 DEF OneByte

\* What a call notes of what it was asked.
LEMMA AskedEffect ==
  ASSUME NEW n, NEW v, Asked(n, v)
  PROVE  /\ DOMAIN asked' = DOMAIN asked \cup {n} /\ asked'[n] = v
         /\ \A m \in DOMAIN asked : m # n => asked'[m] = asked[m]
         /\ \A m \in DOMAIN asked' : m # n => m \in DOMAIN asked
BY DEF Asked

-----------------------------------------------------------------------------
(* What most calls leave alone.                                             *)

\* Memberships and the interface stay when neither is asked for.
LEMMA RequestsKept ==
  ASSUME IInv, UNCHANGED <<groups, joined, protocol>>, ec' # "not_multicast",
         kernel'["outbound_interface"] = kernel["outbound_interface"],
         "outbound_interface" \in DOMAIN asked' <=> "outbound_interface" \in DOMAIN asked,
         "outbound_interface" \in DOMAIN asked =>
            asked'["outbound_interface"] = asked["outbound_interface"]
  PROVE  RequestsReachRecordedFamily'
<1>1. \A f \in Families : InterfaceAsked(f)' = InterfaceAsked(f)
  BY DEF InterfaceAsked
<1> QED
  BY <1>1 DEF IInv, RequestsReachRecordedFamily

\* A call that sets is judged by what it told the system.
LEMMA ToldReadsBack ==
  ASSUME Told', call' # "get"
  PROVE  ReadsBackWhatWasSet'
BY DEF Told, ReadsBackWhatWasSet

\* A call that fails changes nothing, except that the linger flag is set.
LEMMA FailureKeeps ==
  ASSUME IInv, UNCHANGED <<platform, family, protocol, uses, kernel, groups, option, asked, joined>>,
         call' \in {"set", "get"},
         ec' \in {"refused", "invalid_argument", "no_protocol_option"},
         state' \in [enable_connection_aborted : BOOLEAN, user_set_linger : BOOLEAN],
         state'.enable_connection_aborted = state.enable_connection_aborted,
         state.user_set_linger => state'.user_set_linger
  PROVE  IInv'
<1>1. TypeOK' /\ KernelKeeps' /\ Fresh'
  BY DEF IInv, TypeOK, KernelKeeps, Fresh, Gettable
<1>2. Told'
  BY DEF IInv, Told
<1>3. ReadsBackWhatWasSet'
  BY <1>2 DEF Told, ReadsBackWhatWasSet
<1>4. RequestsReachRecordedFamily'
  BY RequestsKept
<1> QED
  BY <1>1, <1>2, <1>3, <1>4 DEF IInv

\* Data that says what the option in use was last set to.
SaysWhatWasTold(data) ==
  LET n == option.name
      told == asked[n]
  IN  n \in DOMAIN asked =>
         /\ n \in Booleans => (data = <<0>>) = (told = <<0>>)
         /\ n = "send_buffer_size" => data = <<Clamp(told[1])>>
         /\ n = "linger" => data[1] = told[1] /\ (told[1] = 1 => data = told)

\* A call that reads.
LEMMA ReadingKeeps ==
  ASSUME IInv, UNCHANGED <<platform, family, protocol, uses, state, kernel, groups, asked, joined>>,
         call' = "get", ec' = "success", Gettable,
         option'.name = option.name, option'.data \in Seq(Nat),
         SaysWhatWasTold(option'.data)
  PROVE  IInv'
<1>1. TypeOK' /\ KernelKeeps' /\ Fresh'
  BY DEF IInv, TypeOK, KernelKeeps, Fresh
<1>2. Told'
  BY DEF IInv, Told
<1>3. ReadsBackWhatWasSet'
  BY <1>2 DEF Told, ReadsBackWhatWasSet, SaysWhatWasTold
<1>4. RequestsReachRecordedFamily'
  BY RequestsKept
<1> QED
  BY <1>1, <1>2, <1>3, <1>4 DEF IInv

-----------------------------------------------------------------------------
(* The calls.                                                               *)

\* A program makes an option.
LEMMA MakeKeeps ==
  ASSUME IInv, Make
  PROVE  IInv'
<1>1. /\ option' \in Objects /\ call' = "none" /\ ec' = "success"
      /\ UNCHANGED <<platform, family, protocol, uses, state, kernel, groups, asked, joined>>
  BY DEF Make, socket
<1>2. /\ option'.name \in Names
      /\ option'.name \notin Requests \cup {"outbound_interface"} => option'.data \in Seq(Nat)
  <2>1. ASSUME NEW o \in Objects, o.name \notin Requests \cup {"outbound_interface"}
        PROVE  o.data \in Seq(Nat)
    <3>1. TypeOK /\ o.name \in Names
      BY <2>1, ObjectShape DEF IInv
    <3>2. CASE o.name \in Booleans
      <4>1. o.data \in {<<0>>, <<1>>}
        BY <3>1, <3>2, ObjectShape
      <4>2. <<0>> \in Seq(Nat) /\ <<1>> \in Seq(Nat)
        OBVIOUS
      <4> QED
        BY <4>1, <4>2
    <3>3. CASE o.name = "always_fail"
      <4>1. o.data = <<1>> /\ <<1>> \in Seq(Nat)
        BY <3>1, <3>3, ObjectShape
      <4> QED
        BY <4>1
    <3>4. CASE o.name = "send_buffer_size"
      <4>1. PICK n \in Nat : o.data = <<n>>
        BY <3>1, <3>4, ObjectShape
      <4>2. <<n>> \in Seq(Nat)
        OBVIOUS
      <4> QED
        BY <4>1, <4>2
    <3>5. CASE o.name = "linger"
      <4>1. PICK on \in {0, 1}, t \in Nat : o.data = <<on, t>>
        BY <2>1, <3>1, <3>5, ObjectShape
      <4>2. <<on, t>> \in Seq(Nat)
        OBVIOUS
      <4> QED
        BY <4>1, <4>2
    <3> QED
      BY <2>1, <3>1, <3>2, <3>3, <3>4, <3>5 DEF Names
  <2>2. TypeOK
    BY DEF IInv
  <2> QED
    BY <1>1, <2>1, <2>2, ObjectShape
<1>3. TypeOK' /\ KernelKeeps' /\ Fresh'
  <2>1. Objects' = Objects
    BY <1>1 DEF Objects, Timeout
  <2> QED
    BY <1>1, <1>2, <2>1 DEF IInv, TypeOK, KernelKeeps, Fresh, Gettable
<1>4. Told'
  BY <1>1 DEF IInv, Told
<1>5. ReadsBackWhatWasSet'
  BY <1>1, <1>4, ToldReadsBack
<1>6. RequestsReachRecordedFamily'
  BY <1>1, RequestsKept
<1> QED
  BY <1>3, <1>4, <1>5, <1>6 DEF IInv

\* always_fail, and what the system refuses.
LEMMA RefusedKeeps ==
  ASSUME IInv, SetAlwaysFail \/ SetRefused \/ GetAlwaysFail \/ GetRefused
  PROVE  IInv'
<1>1. /\ state \in [enable_connection_aborted : BOOLEAN, user_set_linger : BOOLEAN]
      /\ ec \in {"success", "refused", "invalid_argument", "not_multicast", "no_protocol_option"}
  BY DEF IInv, TypeOK
<1>2. CASE SetAlwaysFail
  BY <1>1, <1>2, FailureKeeps DEF SetAlwaysFail, SetCall, Fails, socket
<1>3. CASE SetRefused
  <2>1. /\ state' \in [enable_connection_aborted : BOOLEAN, user_set_linger : BOOLEAN]
        /\ state'.enable_connection_aborted = state.enable_connection_aborted
        /\ state.user_set_linger => state'.user_set_linger
    BY <1>1, <1>3 DEF SetRefused, NoteLinger
  <2> QED
    BY <1>3, <2>1, FailureKeeps DEF SetRefused, SetCall, Fails, socket
<1>4. CASE GetAlwaysFail
  BY <1>1, <1>4, FailureKeeps DEF GetAlwaysFail, GetCall, socket
<1>5. CASE GetRefused
  <2>1. ec' \in {"refused", "no_protocol_option"} /\ UNCHANGED option
    BY <1>5 DEF GetRefused, Translated
  <2> QED
    BY <1>1, <1>5, <2>1, FailureKeeps DEF GetRefused, GetCall, socket
<1> QED
  BY <1>2, <1>3, <1>4, <1>5

\* enable_connection_aborted, which the library keeps itself.
LEMMA AbortedKeeps ==
  ASSUME IInv, SetAborted \/ GetAborted
  PROVE  IInv'
<1>1. option \in Objects /\ option.name = "enable_connection_aborted"
  BY DEF SetAborted, GetAborted, SetCall, GetCall, IInv, Fresh
<1>2. option.data \in {<<0>>, <<1>>}
  BY <1>1, ObjectShape DEF IInv, Booleans
<1>3. state \in [enable_connection_aborted : BOOLEAN, user_set_linger : BOOLEAN]
  BY DEF IInv, TypeOK
<1>4. CASE SetAborted
  <2>1. /\ state' = [state EXCEPT !.enable_connection_aborted = option.data # <<0>>]
        /\ Asked("enable_connection_aborted", option.data) /\ ec' = "success" /\ call' = "set"
        /\ UNCHANGED <<platform, family, protocol, uses, kernel, groups, option, joined>>
    BY <1>1, <1>4 DEF SetAborted, SetCall, socket
  <2>2. /\ state' \in [enable_connection_aborted : BOOLEAN, user_set_linger : BOOLEAN]
        /\ state'.user_set_linger = state.user_set_linger
        /\ state'.enable_connection_aborted = (option.data = <<1>>)
    <3>1. (option.data # <<0>>) \in BOOLEAN /\ (option.data # <<0>>) = (option.data = <<1>>)
      <4>1. <<0>> # <<1>>
        OBVIOUS
      <4> QED
        BY <1>2, <4>1, Zenon
    <3> DEFINE flag == option.data # <<0>>
    <3>2. flag \in BOOLEAN /\ flag = (option.data = <<1>>)
      BY <3>1
    <3>3. state' = [state EXCEPT !.enable_connection_aborted = flag]
      BY <2>1
    <3> HIDE DEF flag
    <3>4. state'.enable_connection_aborted = flag
      BY <1>3, <3>3
    <3>5. /\ state' \in [enable_connection_aborted : BOOLEAN, user_set_linger : BOOLEAN]
          /\ state'.user_set_linger = state.user_set_linger
      BY <1>3, <3>2, <3>3
    <3> QED
      BY <3>2, <3>4, <3>5, Zenon
  <2>3. TypeOK' /\ KernelKeeps' /\ Fresh'
    BY <2>1, <2>2 DEF IInv, TypeOK, KernelKeeps, Fresh, Gettable
  <2>4. /\ asked'["enable_connection_aborted"] = option.data
        /\ \A n \in KernelNames : n \in DOMAIN asked' <=> n \in DOMAIN asked
        /\ \A n \in KernelNames : n \in DOMAIN asked => asked'[n] = asked[n]
    BY <2>1, AskedEffect DEF KernelNames
  <2>5. Told'
    BY <1>2, <2>1, <2>2, <2>4 DEF IInv, Told, KernelNames
  <2>6. ReadsBackWhatWasSet'
    BY <2>1, <2>5, ToldReadsBack
  <2>7. RequestsReachRecordedFamily'
    BY <2>1, <2>4, RequestsKept DEF KernelNames
  <2> QED
    BY <2>3, <2>5, <2>6, <2>7 DEF IInv
<1>5. CASE GetAborted
  <2>1. /\ option' = [option EXCEPT !.data = IF state.enable_connection_aborted THEN <<1>> ELSE <<0>>]
        /\ ec' = "success" /\ call' = "get"
        /\ UNCHANGED <<platform, family, protocol, uses, state, kernel, groups, asked, joined>>
    BY <1>5 DEF GetAborted, GetCall, socket
  <2>2. option \in [name : Names, data : {option.data}]
    BY <1>1 DEF Objects, Names, Booleans, Requests
  <2>3. /\ option'.name = option.name
        /\ option'.data = IF state.enable_connection_aborted THEN <<1>> ELSE <<0>>
    BY <2>1, <2>2
  <2>4. Gettable /\ option'.data \in Seq(Nat)
    BY <1>1, <2>3 DEF Gettable, Requests
  <2>5. "enable_connection_aborted" \in DOMAIN asked =>
           (option'.data = <<0>>) = (asked["enable_connection_aborted"] = <<0>>)
    BY <1>3, <2>3 DEF IInv, Told
  <2> QED
    BY <1>1, <2>1, <2>3, <2>4, <2>5, ReadingKeeps DEF Booleans, SaysWhatWasTold
<1> QED
  BY <1>4, <1>5

\* What the system keeps for an option of its own that is set.
LEMMA KeptIs ==
  ASSUME IInv, option \in Objects, NEW v \in Kept(option.name, option.data)
  PROVE  /\ option.name \in {"keep_alive", "v6_only"} =>
              v \in Answers /\ (v = <<0>> <=> option.data = <<0>>)
         /\ option.name = "send_buffer_size" =>
              \E n \in Nat : /\ option.data = <<n>>
                             /\ v = <<IF platform = "linux" THEN 2 * Clamp(n) ELSE Clamp(n)>>
         /\ option.name = "linger" =>
              \E on \in {0, 1}, t \in Nat :
                 /\ v = <<on, t>> /\ (platform = "linux" \/ t < Words16)
                 /\ on = option.data[1]
                 /\ option.data[1] = 1 => v = option.data
<1>1. CASE option.name \in {"keep_alive", "v6_only"}
  <2>1. option.data \in {<<0>>, <<1>>}
    BY <1>1, ObjectShape DEF IInv, Booleans
  <2>2. v \in IF option.data = <<0>> THEN {option.data} ELSE {<<t>> : t \in Truths}
    BY <1>1 DEF Kept
  <2>3. <<0>> # <<1>> /\ \A t \in Truths : <<t>> # <<0>>
    BY DEF Truths
  <2> QED
    BY <1>1, <2>1, <2>2, <2>3 DEF Answers
<1>2. CASE option.name = "send_buffer_size"
  <2>1. PICK n \in Nat : option.data = <<n>>
    BY <1>2, ObjectShape DEF IInv
  <2>2. v = <<IF platform = "linux" THEN 2 * Clamp(option.data[1]) ELSE Clamp(option.data[1])>>
    BY <1>2 DEF Kept
  <2> QED
    BY <1>2, <2>1, <2>2
<1>3. CASE option.name = "linger"
  <2>1. PICK on \in {0, 1}, t \in Nat :
           option.data = <<on, t>> /\ (platform = "linux" \/ t < Words16)
    BY <1>3, ObjectShape DEF IInv
  <2>2. PICK was \in {0, 1}, u \in Nat :
           kernel["linger"] = <<was, u>> /\ (platform = "linux" \/ u < Words16)
    BY DEF IInv, KernelKeeps
  <2>3. v \in {option.data} \cup IF option.data[1] = 0 THEN {<<0, kernel["linger"][2]>>} ELSE {}
    BY <1>3 DEF Kept
  <2>4. CASE v = option.data
    BY <1>3, <2>1, <2>4
  <2>5. CASE v # option.data
    <3>1. option.data[1] = 0 /\ v = <<0, u>>
      BY <2>2, <2>3, <2>5
    <3> QED
      BY <1>3, <2>2, <3>1
  <2> QED
    BY <2>4, <2>5
<1> QED
  BY <1>1, <1>2, <1>3

\* An option that the system keeps is set.
LEMMA ValueKeeps ==
  ASSUME IInv, SetValue
  PROVE  IInv'
<1>1. /\ option \in Objects
      /\ option.name \in {"keep_alive", "v6_only", "send_buffer_size", "linger"}
      /\ Asked(option.name, option.data) /\ ec' = "success" /\ call' = "set"
      /\ UNCHANGED <<platform, family, protocol, uses, groups, option, joined>>
  BY DEF SetValue, SetCall, socket, IInv, Fresh
<1>2. PICK v \in Kept(option.name, option.data) : kernel' = [kernel EXCEPT ![option.name] = v]
  BY DEF SetValue
<1>3. /\ DOMAIN kernel' = KernelNames /\ kernel'[option.name] = v
      /\ \A n \in KernelNames \ {option.name} : kernel'[n] = kernel[n]
  BY <1>1, <1>2 DEF IInv, KernelKeeps, KernelNames
<1>4. /\ asked'[option.name] = option.data /\ DOMAIN asked \subseteq DOMAIN asked'
      /\ \A n \in DOMAIN asked' \ {option.name} : n \in DOMAIN asked /\ asked'[n] = asked[n]
  BY <1>1, AskedEffect
<1>5. /\ state' \in [enable_connection_aborted : BOOLEAN, user_set_linger : BOOLEAN]
      /\ state'.enable_connection_aborted = state.enable_connection_aborted
      /\ state.user_set_linger \/ option.name = "linger" => state'.user_set_linger
  <2>1. state \in [enable_connection_aborted : BOOLEAN, user_set_linger : BOOLEAN]
    BY DEF IInv, TypeOK
  <2> QED
    BY <2>1 DEF SetValue, NoteLinger
<1>6. KernelKeeps'
  <2>1. kernel'["keep_alive"] \in Answers /\ kernel'["v6_only"] \in Answers
    BY <1>1, <1>3, KeptIs DEF IInv, KernelKeeps, KernelNames
  <2>2. \E n \in Nat : kernel'["send_buffer_size"] = <<n>> /\ n <= 2 * MaxBuffer
    <3>1. CASE option.name = "send_buffer_size"
      <4>1. PICK n \in Nat :
              v = <<IF platform = "linux" THEN 2 * Clamp(n) ELSE Clamp(n)>>
        BY <1>1, <3>1, KeptIs
      <4>2. PICK m \in Nat : v = <<m>> /\ m <= 2 * MaxBuffer
        BY <4>1, ClampBounds, OptionsAssumption
      <4> QED
        BY <1>3, <3>1, <4>2
    <3>2. CASE option.name # "send_buffer_size"
      BY <1>3, <3>2 DEF IInv, KernelKeeps, KernelNames
    <3> QED
      BY <3>1, <3>2
  <2>3. \E on \in {0, 1}, t \in Nat :
           kernel'["linger"] = <<on, t>> /\ (platform = "linux" \/ t < Words16)
    BY <1>1, <1>3, KeptIs DEF IInv, KernelKeeps, KernelNames
  <2>4. kernel'["outbound_interface"] = kernel["outbound_interface"]
    BY <1>1, <1>3 DEF IInv, KernelKeeps, KernelNames
  <2> QED
    BY <1>1, <1>3, <2>1, <2>2, <2>3, <2>4 DEF KernelKeeps, IInv
<1>7. Told'
  <2>1. \A n \in {"keep_alive", "v6_only"} \cap DOMAIN asked' :
           kernel'[n] = <<0>> <=> asked'[n] = <<0>>
    BY <1>1, <1>3, <1>4, KeptIs DEF IInv, Told, KernelNames
  <2>2. "send_buffer_size" \in DOMAIN asked' =>
          \E n \in Nat : /\ asked'["send_buffer_size"] = <<n>>
                         /\ kernel'["send_buffer_size"] =
                              <<IF platform = "linux" THEN 2 * Clamp(n) ELSE Clamp(n)>>
    BY <1>1, <1>3, <1>4, KeptIs DEF IInv, Told, KernelNames
  <2>3. "linger" \in DOMAIN asked' =>
          /\ kernel'["linger"][1] = asked'["linger"][1]
          /\ asked'["linger"][1] = 1 => kernel'["linger"] = asked'["linger"]
          /\ state'.user_set_linger
    <3>1. CASE option.name = "linger"
      <4>1. PICK on \in {0, 1}, t \in Nat :
              v = <<on, t>> /\ on = option.data[1] /\ (option.data[1] = 1 => v = option.data)
        BY <1>1, <3>1, KeptIs
      <4> QED
        BY <1>3, <1>4, <1>5, <3>1, <4>1
    <3>2. CASE option.name # "linger"
      BY <1>3, <1>4, <1>5, <3>2 DEF IInv, Told, KernelNames
    <3> QED
      BY <3>1, <3>2
  <2>4. "enable_connection_aborted" \in DOMAIN asked' =>
          /\ asked'["enable_connection_aborted"] \in {<<0>>, <<1>>}
          /\ state'.enable_connection_aborted = (asked'["enable_connection_aborted"] = <<1>>)
    BY <1>1, <1>4, <1>5 DEF IInv, Told
  <2> QED
    BY <1>1, <2>1, <2>2, <2>3, <2>4 DEF Told
<1>8. TypeOK' /\ Fresh'
  <2>1. \A n \in KernelNames \ {"outbound_interface"} : kernel'[n] \in Seq(Nat)
    <3>1. \A a \in Answers : a \in Seq(Nat)
      <4>1. <<0>> \in Seq(Nat) /\ \A t \in Truths : <<t>> \in Seq(Nat)
        BY DEF Truths
      <4> QED
        BY <4>1 DEF Answers
    <3>2. PICK n \in Nat : kernel'["send_buffer_size"] = <<n>>
      BY <1>6 DEF KernelKeeps
    <3>3. PICK on \in {0, 1}, t \in Nat : kernel'["linger"] = <<on, t>>
      BY <1>6 DEF KernelKeeps
    <3>4. <<n>> \in Seq(Nat) /\ <<on, t>> \in Seq(Nat)
      OBVIOUS
    <3> QED
      BY <1>6, <3>1, <3>2, <3>3, <3>4 DEF KernelKeeps, KernelNames
  <2>2. kernel'["send_buffer_size"][1] <= 2 * MaxBuffer
    BY <1>6 DEF KernelKeeps
  <2>3. kernel'["linger"][2] < Words16 \/ platform' = "linux"
    BY <1>6 DEF KernelKeeps
  <2> QED
    BY <1>1, <1>3, <1>5, <1>6, <2>1, <2>2, <2>3
       DEF IInv, TypeOK, Fresh, Gettable, KernelKeeps
<1>9. ReadsBackWhatWasSet'
  BY <1>1, <1>7, ToldReadsBack
<1>10. RequestsReachRecordedFamily'
  BY <1>1, <1>3, <1>4, RequestsKept DEF KernelNames
<1> QED
  BY <1>6, <1>7, <1>8, <1>9, <1>10 DEF IInv

-----------------------------------------------------------------------------
(* What get_option() returns.                                               *)

\* What is read of an option that the system keeps.
LEMMA ReadValueKeeps ==
  ASSUME IInv, GetValue
  PROVE  IInv'
<1> DEFINE shown == Shown(kernel[option.name])
           read  == IF platform = "vista" /\ option.name \in Booleans
                    THEN OneByte(shown) ELSE shown
<1>1. /\ option \in Objects /\ ToKernel /\ Gettable
      /\ option' = [option EXCEPT !.data = read]
      /\ ec' = "success" /\ call' = "get"
      /\ UNCHANGED <<platform, family, protocol, uses, state, kernel, groups, asked, joined>>
  BY DEF GetValue, GetCall, socket, IInv, Fresh
<1>2. option.name \in {"keep_alive", "v6_only", "send_buffer_size", "linger"}
  BY <1>1, ObjectShape DEF IInv, ToKernel, Gettable, Names, Booleans, Requests
<1>3. option'.name = option.name /\ option'.data = read
  <2>1. option \in [name : Names, data : {option.data}]
    BY <1>1 DEF Objects, Names
  <2> HIDE DEF read
  <2> QED
    BY <1>1, <2>1
<1>4. CASE option.name \in {"keep_alive", "v6_only"}
  <2>1. option.data \in {<<0>>, <<1>>} /\ option.name \in Booleans
    BY <1>1, <1>4, ObjectShape DEF IInv, Booleans
  <2>2. shown = kernel[option.name] /\ kernel[option.name] \in Answers
    BY <1>4 DEF Shown, IInv, KernelKeeps
  <2>3. read \in Answers \cup {<<0>>, <<1>>} /\ (read = <<0>> <=> kernel[option.name] = <<0>>)
    <3> HIDE DEF shown
    <3> QED
      BY <2>1, <2>2, OneByteTells DEF OffOrOn
  <2>4. read \in Seq(Nat)
    <3>1. <<0>> \in Seq(Nat) /\ \A t \in Truths : <<t>> \in Seq(Nat)
      BY DEF Truths
    <3>2. <<1>> \in Seq(Nat)
      OBVIOUS
    <3> HIDE DEF read
    <3> QED
      BY <2>3, <3>1, <3>2 DEF Answers
  <2>5. option.name \in DOMAIN asked => (read = <<0>>) = (asked[option.name] = <<0>>)
    <3> HIDE DEF read
    <3> QED
      BY <1>4, <2>3 DEF IInv, Told
  <2> QED
    BY <1>1, <1>3, <1>4, <2>4, <2>5, ReadingKeeps DEF SaysWhatWasTold
<1>5. CASE option.name = "send_buffer_size"
  <2>1. PICK n \in Nat : kernel["send_buffer_size"] = <<n>>
    BY DEF IInv, KernelKeeps
  <2>2. read = IF platform = "linux" THEN <<n \div 2>> ELSE <<n>>
    BY <1>5, <2>1 DEF Shown, Booleans
  <2>3. read \in Seq(Nat)
    <3>1. n \div 2 \in Nat
      OBVIOUS
    <3>2. <<n \div 2>> \in Seq(Nat) /\ <<n>> \in Seq(Nat)
      BY <3>1
    <3> HIDE DEF read
    <3> QED
      BY <2>2, <3>2
  <2>4. "send_buffer_size" \in DOMAIN asked => read = <<Clamp(asked["send_buffer_size"][1])>>
    <3>1. SUFFICES ASSUME "send_buffer_size" \in DOMAIN asked
                   PROVE  read = <<Clamp(asked["send_buffer_size"][1])>>
      OBVIOUS
    <3>2. PICK m \in Nat :
            /\ asked["send_buffer_size"] = <<m>>
            /\ kernel["send_buffer_size"] =
                 <<IF platform = "linux" THEN 2 * Clamp(m) ELSE Clamp(m)>>
      BY <3>1 DEF IInv, Told
    <3>3. n = IF platform = "linux" THEN 2 * Clamp(m) ELSE Clamp(m)
      BY <2>1, <3>2
    <3>4. (2 * Clamp(m)) \div 2 = Clamp(m)
      BY ClampBounds
    <3> HIDE DEF read
    <3> QED
      BY <2>2, <3>2, <3>3, <3>4
  <2> HIDE DEF read
  <2> QED
    BY <1>1, <1>3, <1>5, <2>3, <2>4, ReadingKeeps DEF Booleans, SaysWhatWasTold
<1>6. CASE option.name = "linger"
  <2>1. PICK on \in {0, 1}, t \in Nat : kernel["linger"] = <<on, t>>
    BY DEF IInv, KernelKeeps
  <2>2. read = kernel["linger"]
    BY <1>6 DEF Shown, Booleans
  <2>3. read \in Seq(Nat)
    <3>1. <<on, t>> \in Seq(Nat)
      OBVIOUS
    <3> QED
      BY <2>1, <2>2, <3>1
  <2>4. "linger" \in DOMAIN asked =>
          /\ read[1] = asked["linger"][1]
          /\ asked["linger"][1] = 1 => read = asked["linger"]
    BY <2>2 DEF IInv, Told
  <2> HIDE DEF read
  <2> QED
    BY <1>1, <1>3, <1>6, <2>3, <2>4, ReadingKeeps DEF Booleans, SaysWhatWasTold
<1> QED
  BY <1>2, <1>4, <1>5, <1>6

-----------------------------------------------------------------------------
(* The multicast options.                                                   *)

\* The outbound interface is set: the system takes the part for the recorded
\* family.
LEMMA InterfaceKeeps ==
  ASSUME IInv, SetInterface
  PROVE  IInv'
<1> DEFINE was == kernel["outbound_interface"]
           is  == kernel'["outbound_interface"]
<1>1. /\ option \in Objects /\ option.name = "outbound_interface"
      /\ kernel' = [kernel EXCEPT !["outbound_interface"] =
                       [kernel["outbound_interface"] EXCEPT ![protocol] = Part(option)]]
      /\ Asked("outbound_interface", option.data) /\ ec' = "success" /\ call' = "set"
      /\ UNCHANGED <<platform, family, protocol, uses, state, groups, option, joined>>
  BY DEF SetInterface, SetCall, socket, IInv, Fresh
<1>2. PICK g \in Groups : option.data = Parts(g)
  BY <1>1, ObjectShape DEF IInv
<1>3. /\ DOMAIN kernel' = KernelNames
      /\ is = [was EXCEPT ![protocol] = Part(option)]
      /\ \A n \in KernelNames \ {"outbound_interface"} : kernel'[n] = kernel[n]
  BY <1>1 DEF IInv, KernelKeeps, KernelNames
<1>4. /\ "outbound_interface" \in DOMAIN asked' /\ asked'["outbound_interface"] = option.data
      /\ \A n \in DOMAIN asked' \ {"outbound_interface"} :
            n \in DOMAIN asked /\ asked'[n] = asked[n]
  BY <1>1, AskedEffect
<1>5. Part(option) = IF g.family = protocol THEN g ELSE AnyOf(protocol)
  BY <1>2, PartOfObject DEF IInv
<1>6. protocol \in Families /\ DOMAIN was = Families
  BY DEF IInv, TypeOK, KernelKeeps
<1>7. /\ DOMAIN is = Families /\ is[protocol] = Part(option)
      /\ \A f \in Families \ {protocol} : is[f] = was[f]
  BY <1>3, <1>6
<1>8. \A f \in Families : is[f] \in Groups \cup {AnyOf(f)}
  BY <1>5, <1>6, <1>7 DEF IInv, KernelKeeps
<1>9. TypeOK' /\ KernelKeeps' /\ Fresh'
  <2>1. KernelKeeps'
    BY <1>1, <1>3, <1>7, <1>8 DEF IInv, KernelKeeps, KernelNames
  <2>2. \A n \in DOMAIN kernel' \ {"outbound_interface"} : kernel'[n] \in Seq(Nat)
    BY <1>3 DEF IInv, TypeOK, KernelKeeps
  <2> QED
    BY <1>1, <1>3, <1>8, <2>1, <2>2 DEF IInv, TypeOK, Fresh, Gettable, KernelNames
<1>10. Told'
  BY <1>1, <1>3, <1>4 DEF IInv, Told, KernelNames
<1>11. ReadsBackWhatWasSet'
  BY <1>1, <1>10, ToldReadsBack
<1>12. RequestsReachRecordedFamily'
  <2> DEFINE own(f) == InterfaceAsked(f)'
  <2>0. \A f, h : h \in own(f) <=> /\ h \in Groups /\ h.family = f /\ f = protocol
                                  /\ option.data = Parts(h)
    BY <1>1, <1>4 DEF InterfaceAsked
  <2> HIDE DEF own
  <2>1. ASSUME NEW f \in Families
        PROVE  is[f] \in IF own(f) = {} THEN {AnyOf(f)} ELSE own(f)
    <3>1. CASE f = protocol /\ g.family = protocol
      <4>1. g \in own(f) /\ is[f] = g
        BY <1>2, <1>5, <1>7, <2>0, <3>1
      <4> QED
        BY <4>1
    <3>2. CASE f = protocol /\ g.family # protocol
      <4>1. own(f) = {}
        <5>1. SUFFICES ASSUME NEW h \in own(f) PROVE FALSE
          OBVIOUS
        <5>2. h \in Groups /\ h.family = protocol /\ option.data = Parts(h)
          BY <2>0, <3>2, <5>1
        <5>3. Part(option) = h /\ h.no # 0
          BY <5>2, PartOfObject DEF IInv
        <5>4. AnyOf(protocol).no = 0
          BY DEF AnyOf
        <5> QED
          BY <1>5, <3>2, <5>3, <5>4
      <4> QED
        BY <1>5, <1>7, <3>2, <4>1
    <3>3. CASE f # protocol
      <4>1. own(f) = {} /\ is[f] = was[f]
        BY <1>7, <2>0, <3>3
      <4>2. was[f] = AnyOf(f)
        <5>1. InterfaceAsked(f) = {}
          BY <3>3 DEF InterfaceAsked
        <5> QED
          BY <5>1 DEF IInv, RequestsReachRecordedFamily
      <4> QED
        BY <4>1, <4>2
    <3> QED
      BY <3>1, <3>2, <3>3
  <2>2. joined' = {Parts(k) : k \in groups'} /\ (\A k \in groups' : k.family = protocol')
        /\ ec' # "not_multicast"
    BY <1>1 DEF IInv, RequestsReachRecordedFamily
  <2> QED
    BY <2>1, <2>2 DEF RequestsReachRecordedFamily, own
<1> QED
  BY <1>9, <1>10, <1>11, <1>12 DEF IInv

\* A group is joined or left: what the socket is a member of and what it was
\* asked to be a member of change together.
LEMMA MembershipKeeps ==
  ASSUME IInv, SetMembership
  PROVE  IInv'
<1> DEFINE g == Part(option)
<1>1. /\ option \in Objects /\ option.name \in Requests /\ call' = "set"
      /\ UNCHANGED <<platform, family, protocol, uses, state, kernel, option, asked>>
  BY DEF SetMembership, SetCall, Fails, socket, IInv, Fresh
<1>2. PICK h \in Groups : option.data = Parts(h)
  BY <1>1, ObjectShape DEF IInv
<1>3. /\ h.family = protocol => g = h /\ g.no # 0
      /\ h.family # protocol => g.no = 0
  BY <1>2, PartOfObject DEF IInv
<1>4. ASSUME groups' \subseteq Groups, ec' \in {"success", "not_multicast"}
      PROVE  TypeOK' /\ KernelKeeps' /\ Fresh' /\ Told' /\ ReadsBackWhatWasSet'
  <2>1. TypeOK' /\ KernelKeeps' /\ Fresh'
    BY <1>1, <1>4 DEF IInv, TypeOK, KernelKeeps, Fresh, Gettable
  <2>2. Told'
    BY <1>1 DEF IInv, Told
  <2> QED
    BY <1>1, <2>1, <2>2, ToldReadsBack
<1>5. \A f \in Families :
        kernel'["outbound_interface"][f] \in
          IF InterfaceAsked(f)' = {} THEN {AnyOf(f)} ELSE InterfaceAsked(f)'
  <2>1. \A f \in Families : InterfaceAsked(f)' = InterfaceAsked(f)
    BY <1>1 DEF InterfaceAsked
  <2> QED
    BY <1>1, <2>1 DEF IInv, RequestsReachRecordedFamily
<1>6. CASE g.no = 0
  <2>1. ec' = "not_multicast" /\ UNCHANGED <<groups, joined>>
    BY <1>6 DEF SetMembership, Fails
  <2>2. \A k \in Groups : option.data = Parts(k) => k.family # protocol
    BY <1>6, PartOfObject DEF IInv
  <2>3. RequestsReachRecordedFamily'
    BY <1>1, <1>5, <2>1, <2>2 DEF IInv, RequestsReachRecordedFamily
  <2> QED
    BY <1>4, <2>1, <2>3 DEF IInv, TypeOK
<1>7. CASE g.no # 0 /\ ((option.name = "join_group") = (g \in groups))
  BY <1>1, <1>7, FailureKeeps DEF SetMembership, Fails, IInv, TypeOK
<1>8. CASE g.no # 0 /\ ~((option.name = "join_group") = (g \in groups))
  <2>1. /\ groups' = IF option.name = "join_group" THEN groups \cup {g} ELSE groups \ {g}
        /\ joined' = IF option.name = "join_group"
                     THEN joined \cup {option.data} ELSE joined \ {option.data}
        /\ ec' = "success"
    BY <1>8 DEF SetMembership
  <2>2. g = h /\ h.family = protocol /\ option.data = Parts(g)
    BY <1>2, <1>3, <1>8
  <2>3. groups \subseteq Groups /\ joined = {Parts(k) : k \in groups}
    BY DEF IInv, TypeOK, RequestsReachRecordedFamily
  <2>4. \A k \in groups : k.family = protocol
    BY DEF IInv, RequestsReachRecordedFamily
  <2>5. groups' \subseteq Groups /\ \A k \in groups' : k.family = protocol
    BY <1>2, <2>1, <2>2, <2>3, <2>4
  <2>6. joined' = {Parts(k) : k \in groups'}
    <3>1. CASE option.name = "join_group"
      BY <2>1, <2>2, <2>3, <3>1
    <3>2. CASE option.name # "join_group"
      <4>1. \A k \in groups : Parts(k) = option.data => k = g
        BY <2>2, <2>3, <2>4, PartsTellApart
      <4>2. groups' = groups \ {g} /\ joined' = joined \ {option.data}
        BY <2>1, <3>2
      <4> HIDE DEF g
      <4> QED
        BY <2>2, <2>3, <4>1, <4>2
    <3> QED
      BY <3>1, <3>2
  <2>7. RequestsReachRecordedFamily'
    BY <1>1, <1>5, <2>1, <2>5, <2>6 DEF RequestsReachRecordedFamily
  <2> QED
    BY <1>4, <2>1, <2>5, <2>7 DEF IInv
<1> QED
  BY <1>6, <1>7, <1>8

-----------------------------------------------------------------------------
(* The invariant and what it gives.                                         *)

\* A new socket.
New ==
  /\ platform \in {"linux", "windows", "vista", "xp"} /\ uses \in Programs
  /\ family \in Families /\ protocol \in Families
  /\ state = NewState /\ kernel = NewKernel /\ groups = {} /\ joined = {}
  /\ asked = [n \in {} |-> << >>] /\ call \in {"open", "assign"} /\ ec = "success"
  /\ option.name \in Names
  /\ Gettable => option.data \in Seq(Nat)

\* It has every option off.
LEMMA NewIsSound == New => IInv
<1> SUFFICES ASSUME New PROVE IInv
  OBVIOUS
<1> USE DEF New
<1>1. MinBuffer \in Nat /\ MinBuffer <= 2 * MaxBuffer /\ Words16 \in Nat /\ 0 < Words16
  BY OptionsAssumption
<1>2. /\ DOMAIN kernel = KernelNames
      /\ kernel["keep_alive"] = <<0>> /\ kernel["v6_only"] = <<0>>
      /\ kernel["send_buffer_size"] = <<MinBuffer>> /\ kernel["linger"] = <<0, 0>>
      /\ kernel["outbound_interface"] = [f \in Families |-> AnyOf(f)]
  BY DEF NewKernel, KernelNames
<1>3. KernelKeeps
  <2>1. \E n \in Nat : kernel["send_buffer_size"] = <<n>> /\ n <= 2 * MaxBuffer
    BY <1>1, <1>2
  <2>2. \E on \in {0, 1}, t \in Nat :
           kernel["linger"] = <<on, t>> /\ (platform = "linux" \/ t < Words16)
    BY <1>1, <1>2
  <2> QED
    BY <1>2, <2>1, <2>2 DEF KernelKeeps, Answers
<1>4. TypeOK
  <2>1. \A n \in DOMAIN kernel \ {"outbound_interface"} : kernel[n] \in Seq(Nat)
    <3>1. <<0>> \in Seq(Nat) /\ <<0, 0>> \in Seq(Nat) /\ <<MinBuffer>> \in Seq(Nat)
      BY <1>1
    <3> QED
      BY <1>2, <3>1 DEF KernelNames
  <2>2. kernel["send_buffer_size"][1] = MinBuffer /\ kernel["linger"][2] = 0
    BY <1>2
  <2>3. state \in [enable_connection_aborted : BOOLEAN, user_set_linger : BOOLEAN]
    BY DEF NewState
  <2> QED
    BY <1>1, <1>2, <2>1, <2>2, <2>3 DEF TypeOK
<1>5. Told /\ ReadsBackWhatWasSet
  BY DEF Told, ReadsBackWhatWasSet
<1>6. RequestsReachRecordedFamily
  <2>1. \A f \in Families : InterfaceAsked(f) = {}
    BY DEF InterfaceAsked
  <2> QED
    BY <1>2, <2>1 DEF RequestsReachRecordedFamily
<1> QED
  BY <1>3, <1>4, <1>5, <1>6 DEF IInv, Fresh

LEMMA InvariantInit == Init => IInv
<1> SUFFICES ASSUME Init PROVE IInv
  OBVIOUS
<1>1. option.name \in Names /\ option.data \in Seq(Nat)
  BY DEF Init, Names, Booleans
<1>2. family \in Families /\ protocol \in Families
  BY DEF Init, Families
<1> QED
  BY <1>1, <1>2, NewIsSound DEF Init, New

\* So is one that is opened or taken over in an object that was used before.
LEMMA RenewalKeeps ==
  ASSUME IInv, NEW f \in Families, Open(f) \/ Assign(f)
  PROVE  IInv'
<1>1. /\ family' = f /\ protocol' \in Families /\ call' \in {"open", "assign"}
      /\ UNCHANGED <<platform, uses, option>>
      /\ state' = NewState /\ kernel' = NewKernel /\ groups' = {} /\ joined' = {}
      /\ asked' = [n \in {} |-> << >>] /\ ec' = "success"
  BY DEF Open, Assign, Renewed, IInv, TypeOK
<1>2. /\ platform \in {"linux", "windows", "vista", "xp"} /\ uses \in Programs
      /\ option.name \in Names /\ (Gettable => option.data \in Seq(Nat))
  BY DEF IInv, TypeOK
<1>3. Gettable' = Gettable /\ NewState' = NewState /\ NewKernel' = NewKernel
  BY <1>1 DEF Gettable, NewState, NewKernel
<1>4. New'
  BY <1>1, <1>2, <1>3 DEF New
<1>5. (New => IInv)'
  BY NewIsSound, PTL
<1> QED
  BY <1>4, <1>5

\* Every call keeps the invariant.
LEMMA InvariantNext == IInv /\ [Next]_vars => IInv'
<1> SUFFICES ASSUME IInv, [Next]_vars PROVE IInv'
  OBVIOUS
<1>1. CASE UNCHANGED vars
  <2>1. UNCHANGED <<platform, family, protocol, uses, state, kernel, groups, option, call, ec, asked, joined>>
    BY <1>1 DEF vars, socket
  <2>2. TypeOK' /\ KernelKeeps'
    BY <2>1 DEF IInv, TypeOK, Gettable, KernelKeeps
  <2>3. Told' /\ ReadsBackWhatWasSet'
    BY <2>1 DEF IInv, Told, ReadsBackWhatWasSet
  <2>4. RequestsReachRecordedFamily'
    <3>1. \A f : InterfaceAsked(f)' = InterfaceAsked(f)
      BY <2>1 DEF InterfaceAsked
    <3> QED
      BY <2>1, <3>1 DEF IInv, RequestsReachRecordedFamily
  <2>5. Fresh'
    BY <2>1 DEF IInv, Fresh, Objects, Timeout
  <2> QED
    BY <2>2, <2>3, <2>4, <2>5 DEF IInv
<1>2. ASSUME NEW f \in Families, Open(f) \/ Assign(f) PROVE IInv'
  BY <1>2, RenewalKeeps
<1>3. CASE Make
  BY <1>3, MakeKeeps
<1>4. CASE SetOption
  BY <1>4, RefusedKeeps, AbortedKeeps, ValueKeeps, InterfaceKeeps, MembershipKeeps DEF SetOption
<1>5. CASE GetOption
  BY <1>5, RefusedKeeps, AbortedKeeps, ReadValueKeeps DEF GetOption
<1> QED
  BY <1>1, <1>2, <1>3, <1>4, <1>5 DEF Next

\* The socket, the system and the option object stay in their types.
THEOREM TypeCorrect == Spec => []TypeOK
<1>1. IInv => TypeOK
  BY DEF IInv
<1> QED
  BY <1>1, InvariantInit, InvariantNext, PTL DEF Spec

\* On every platform, for all sizes and timeouts, what get_option() returns
\* without an error is what set_option() was last told: the truth of a boolean,
\* the very size within the system's limits, the linger setting in force
\* (socket_option.hpp:99-118, socket_ops.ipp:1210-1395).
THEOREM ReadsBackAlways == Spec => []ReadsBackWhatWasSet
<1>1. IInv => ReadsBackWhatWasSet
  BY DEF IInv
<1> QED
  BY <1>1, InvariantInit, InvariantNext, PTL DEF Spec

\* For any groups and however an object was opened and assigned before, the
\* socket is a member of exactly the groups it joined and did not leave, all of
\* the family _protocol records; the interface for outgoing packets is the
\* requested one or, of the other family, the default (socket_option.hpp:734-748
\* and 807-821, basic_socket.hpp:1721-1723).
THEOREM RequestsReachAlways == Spec => []RequestsReachRecordedFamily
<1>1. IInv => RequestsReachRecordedFamily
  BY DEF IInv
<1> QED
  BY <1>1, InvariantInit, InvariantNext, PTL DEF Spec

=============================================================================
