----------------------------- MODULE EchoClient -----------------------------
(***************************************************************************)
(* The demo client, proj.win32/NetLiteClient/main.cpp: main shows what the *)
(* server sends and sends what stands in msg, while a detached thread      *)
(* reads words from standard input into msg.  Nothing protects msg.        *)
(*                                                                         *)
(* msg is its size and its characters, in place: the words are short       *)
(* enough for the string to stay in its small buffer.  operator>> waits    *)
(* for a character, erases the string and appends one character after the  *)
(* other, as the library of the project's compiler does; an append reads   *)
(* the size and stores the character, the new size and the terminator, in  *)
(* any order.  A call of send copies the characters at once.               *)
(*                                                                         *)
(* Every socket call of main is the one that throws, but for has_state, so *)
(* a broken connection ends the client ("dead").                           *)
(***************************************************************************)
EXTENDS Integers, Sequences

CONSTANTS
  MaxWords,  \* words that are typed
  MaxLen     \* characters of a word

ASSUME ConstantsAssumption == {MaxWords, MaxLen} \subseteq Nat \ {0}

VARIABLES
  pc,      \* where main is
  view,    \* the size make_constbuf took
  clears,  \* the stores of msg.clear() that main has still to make
  step,    \* where the input thread is
  word,    \* the word it reads or has read last
  pos,     \* the character of the word it is at
  old,     \* the size the append has read
  stores,  \* the stores it has still to make
  size,    \* msg: its size,
  cells,   \* ... and its characters
  lengths, \* the lengths of the words
  full,    \* the send queue has no room
  broken,  \* the connection
  clash,   \* the input thread was in msg since main last looked (history)
  raced,   \* words read while main was between its look and its clear (history)
  sends    \* what main has sent (history)

main_vars  == <<pc, view, clears>>
input_vars == <<step, word, pos, old, stores>>
msg        == <<size, cells>>
sockets    == <<full, broken>>
history    == <<clash, raced, sends>>
vars       == <<main_vars, input_vars, msg, lengths, sockets, history>>

Words == 1..MaxWords
NUL   == <<0, 0>>
Chars == (Words \X (1..MaxLen)) \cup {NUL}

WholeWord(w) == [i \in 1..lengths[w] |-> <<w, i>>]

TypeOK ==
  /\ pc \in {"readable", "receive", "writable", "test", "view", "send", "clear", "sleep", "dead"}
  /\ view \in 0..MaxLen
  /\ clears \subseteq {"size", "end"}
  /\ step \in {"wait", "erase", "read", "append"}
  /\ word \in 0..MaxWords
  /\ pos \in 0..MaxLen
  /\ old \in 0..(MaxLen - 1)
  /\ stores \subseteq {"char", "size", "end"}
  /\ size \in 0..MaxLen
  /\ cells \in [1..(MaxLen + 1) -> Chars]
  /\ lengths \in [Words -> 1..MaxLen]
  /\ full \in BOOLEAN
  /\ broken \in BOOLEAN
  /\ clash \in BOOLEAN
  /\ raced \subseteq Words
  /\ sends \in Seq([text : Seq(Chars), word : Words, clash : BOOLEAN])

Init ==
  /\ pc = "readable" /\ view = 0 /\ clears = {}
  /\ step = "wait" /\ word = 0 /\ pos = 0 /\ old = 0 /\ stores = {}
  /\ size = 0 /\ cells = [i \in 1..(MaxLen + 1) |-> NUL]
  /\ lengths \in [Words -> 1..MaxLen]
  /\ full = FALSE /\ broken = FALSE
  /\ clash = FALSE /\ raced = {} /\ sends = << >>

-----------------------------------------------------------------------------
(* A string is brought to size n by stores of its last character c, its     *)
(* size and its terminator.                                                 *)

Store(part, n, c) ==
  \/ part = "char" /\ cells' = [cells EXCEPT ![n] = c] /\ UNCHANGED size
  \/ part = "size" /\ size' = n /\ UNCHANGED cells
  \/ part = "end"  /\ cells' = [cells EXCEPT ![n + 1] = NUL] /\ UNCHANGED size

-----------------------------------------------------------------------------
(* The input thread.                                                        *)

InMsg == step # "wait"

\* The thread is in msg: between the look and the send that spoils the text
\* of the send, between the look and the clear that of the word.
Touches(w) ==
  /\ clash' = (clash \/ pc \in {"view", "send"})
  /\ raced' = IF pc \in {"view", "send", "clear"} THEN raced \cup {w} ELSE raced
  /\ UNCHANGED sends

Input == pc # "dead" /\ UNCHANGED <<main_vars, lengths, sockets>>

\* A word is typed and found by cin >> msg.
Type ==
  /\ step = "wait" /\ word < MaxWords
  /\ word' = word + 1 /\ pos' = 0
  /\ step' = "erase" /\ stores' = {"size", "end"}
  /\ UNCHANGED <<old, msg>> /\ Touches(word + 1) /\ Input

Erase ==
  /\ step = "erase"
  /\ \E part \in stores :
       /\ Store(part, 0, NUL)
       /\ stores' = stores \ {part}
  /\ IF stores' = {} THEN step' = "read" /\ pos' = 1 ELSE UNCHANGED <<step, pos>>
  /\ UNCHANGED <<word, old>> /\ Touches(word) /\ Input

\* Fault: a character is left out.
ReadSizeOff == size + 1

ReadSize == size

AppendRead ==
  /\ step = "read"
  /\ old' = ReadSize
  /\ step' = "append" /\ stores' = {"char", "size", "end"}
  /\ UNCHANGED <<word, pos, msg>> /\ Touches(word) /\ Input

AppendStore ==
  /\ step = "append"
  /\ \E part \in stores :
       /\ Store(part, old + 1, <<word, pos>>)
       /\ stores' = stores \ {part}
  /\ IF stores' # {} THEN UNCHANGED <<step, pos>>
     ELSE IF pos < lengths[word] THEN step' = "read" /\ pos' = pos + 1
     ELSE step' = "wait" /\ pos' = 0
  /\ old' = IF stores' = {} THEN 0 ELSE old
  /\ UNCHANGED word /\ Touches(word) /\ Input

InputThread == Type \/ Erase \/ AppendRead \/ AppendStore

-----------------------------------------------------------------------------
(* main.                                                                    *)

Main == UNCHANGED <<input_vars, lengths, broken>>

GoTo(p) == pc' = p /\ UNCHANGED <<view, clears>>

\* Fault: a pass with nothing to receive is over.
NothingToReceiveEnds == "sleep"

NothingToReceive == "writable"

\* Whether the server has written is its own affair; the end of the stream and
\* an error are readable too.
LookReadable ==
  /\ pc = "readable"
  /\ \/ GoTo("receive")
     \/ ~broken /\ GoTo(NothingToReceive)
  /\ UNCHANGED <<msg, full, history>> /\ Main

\* receive() throws on an error; what it returns, zero at the end of the
\* stream, is not looked at.
Receive ==
  /\ pc = "receive"
  /\ GoTo(IF broken THEN "dead" ELSE "writable")
  /\ UNCHANGED <<msg, full, history>> /\ Main

LookWritable ==
  /\ pc = "writable"
  /\ GoTo(IF ~full \/ broken THEN "test" ELSE "sleep")
  /\ UNCHANGED <<msg, full, history>> /\ Main

\* msg.empty()
Test ==
  /\ pc = "test"
  /\ GoTo(IF size = 0 THEN "sleep" ELSE "view")
  /\ clash' = InMsg
  /\ raced' = IF InMsg /\ size # 0 THEN raced \cup {word} ELSE raced
  /\ UNCHANGED <<msg, full, sends>> /\ Main

\* make_constbuf(msg)
View ==
  /\ pc = "view"
  /\ pc' = "send" /\ view' = size
  /\ UNCHANGED <<clears, msg, full, history>> /\ Main

\* send() throws on a broken connection, even when it is handed nothing; it copies
\* what there is room for, and its result is not looked at.
Send ==
  /\ pc = "send"
  /\ IF broken
     THEN GoTo("dead") /\ UNCHANGED <<full, sends>>
     ELSE /\ pc' = "clear" /\ clears' = {"size", "end"} /\ view' = 0
          /\ full' \in IF view = 0 THEN {full} ELSE BOOLEAN
          /\ sends' = Append(sends, [text |-> SubSeq(cells, 1, view), word |-> word, clash |-> clash])
  /\ UNCHANGED <<msg, clash, raced>> /\ Main

\* Fault: the text is not taken out.
ClearEndOnly(part) == Store("end", 0, NUL)

ClearStore(part) == Store(part, 0, NUL)

\* msg.clear()
Clear ==
  /\ pc = "clear"
  /\ \E part \in clears :
       /\ ClearStore(part)
       /\ clears' = clears \ {part}
  /\ IF clears' = {} THEN pc' = "sleep" ELSE UNCHANGED pc
  /\ UNCHANGED <<view, full, history>> /\ Main

Sleep ==
  /\ pc = "sleep"
  /\ GoTo("readable")
  /\ UNCHANGED <<msg, full, history>> /\ Main

MainThread ==
  \/ LookReadable \/ Receive \/ LookWritable \/ Test \/ View \/ Send \/ Clear \/ Sleep

-----------------------------------------------------------------------------
(* The server and the network.                                              *)

Elsewhere == pc # "dead" /\ UNCHANGED <<main_vars, input_vars, msg, lengths, history>>

ServerReads ==
  /\ full /\ ~broken
  /\ full' = FALSE
  /\ UNCHANGED broken /\ Elsewhere

Breaks ==
  /\ ~broken
  /\ broken' = TRUE
  /\ UNCHANGED full /\ Elsewhere

Next == InputThread \/ MainThread \/ ServerReads \/ Breaks

\* main runs, and a server that keeps the connection reads from it.
Fairness == WF_vars(MainThread) /\ WF_vars(ServerReads)

Spec == Init /\ [][Next]_vars /\ Fairness

-----------------------------------------------------------------------------
\* A send that no race can have spoiled.
Clean(s) == ~s.clash /\ s.word \notin raced

Complete(w) == w \in Words /\ ~InMsg

\* Without a lock main sends whole words, each once and in the order in which
\* they were typed, as long as the input thread does not come into msg between
\* main's look at it and its clear; and such a word is lost only to the next
\* one, typed before main has taken it (NetLiteClient/main.cpp:20 and 37-41).
\* What a race spoils, parts of words, a word twice or nothing at all, it
\* spoils for the words of the race alone: the text after them is whole again.
WholeWordsUnlessRaced ==
  /\ \A i \in DOMAIN sends : Clean(sends[i]) =>
       /\ sends[i].text = WholeWord(sends[i].word)
       /\ \A j \in 1..(i - 1) : Clean(sends[j]) => sends[j].word < sends[i].word
  /\ Complete(word) /\ word \notin raced =>
       \/ SubSeq(cells, 1, size) = WholeWord(word)
       \/ \E i \in DOMAIN sends : sends[i].word = word

Waiting == size > 0 /\ ~InMsg /\ pc \notin {"send", "clear"}

\* A text that stands in msg is looked at and taken, unless another word comes
\* first or the connection breaks: main comes back to it however often
\* it finds nothing to receive, or no room to send
\* (NetLiteClient/main.cpp:25-46).
WaitingTextIsTaken ==
  Waiting ~> (pc = "send" \/ InMsg \/ broken)

=============================================================================
