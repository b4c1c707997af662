------------------------------ MODULE Buffers ------------------------------
(***************************************************************************)
(* mutablebuf, a length and a std::shared_ptr to a block of memory it owns *)
(* or borrows; constbuf, a view of one; and buffer_sequence_adapter, which *)
(* hands a sequence of them to one call of the operating system.           *)
(*                                                                         *)
(* A control block of a shared_ptr is what it is to do with its block and  *)
(* a number of its own: two made from one pointer know nothing of each     *)
(* other.  It is gone, with the block if it owns that, with the last       *)
(* mutablebuf that holds it.                                               *)
(***************************************************************************)
EXTENDS Integers, Sequences, FiniteSets

CONSTANTS
  Bufs,        \* mutablebuf objects
  Blocks,      \* blocks of memory
  BlockSize,   \* bytes of a block
  MaxBuffers,  \* buffers of one call (at most 64)
  MaxAssigns,  \* blocks handed to mutablebufs
  MaxSequence  \* buffers of a sequence

ASSUME BuffersAssumption ==
  /\ IsFiniteSet(Bufs) /\ IsFiniteSet(Blocks)
  /\ {BlockSize, MaxBuffers, MaxAssigns, MaxSequence} \subseteq Nat \ {0}

VARIABLES
  alive,    \* the objects that exist
  holder,   \* memory_holder: the control block
  length,   \* memory_length
  assigns,  \* control blocks made
  freed,    \* how often each block was freed
  given,    \* how often it was handed over with need_del (history)
  handed    \* what the adapter last handed to a call

buffers_vars == <<alive, holder, length, assigns, freed, given, handed>>

\* What the adapter hands over: the native buffers, how many they are, the sum
\* of their sizes, and the buffers it left out (history).
Nothing == [buffers |-> << >>, count |-> 0, total_size |-> 0, rest |-> << >>]

Controls == [block : Blocks, owns : BOOLEAN, no : 1..MaxAssigns]
NoControl == [no |-> 0]

BuffersTypeOK ==
  /\ alive \subseteq Bufs
  /\ holder \in [Bufs -> Controls \cup {NoControl}]
  /\ length \in [Bufs -> 0..BlockSize]
  /\ assigns \in 0..MaxAssigns
  /\ freed \in [Blocks -> 0..MaxAssigns]
  /\ given \in [Blocks -> 0..MaxAssigns]
  /\ handed.count \in 0..MaxBuffers
  /\ \A x \in Bufs \ alive : holder[x] = NoControl /\ length[x] = 0

BuffersInit ==
  /\ alive = {}
  /\ holder = [x \in Bufs |-> NoControl] /\ length = [x \in Bufs |-> 0]
  /\ assigns = 0
  /\ freed = [b \in Blocks |-> 0] /\ given = [b \in Blocks |-> 0]
  /\ handed = Nothing

-----------------------------------------------------------------------------
(* The holders.                                                             *)

Held(h) == {h[x] : x \in Bufs} \ {NoControl}

\* Fault: the last holder of a block does not free it.
KeepAll(h) == holder' = h /\ UNCHANGED freed

\* The holders become h; a control block that has lost its last holder goes.
Hold(h) ==
  /\ holder' = h
  /\ freed' = [b \in Blocks |->
       freed[b] + Cardinality({c \in Held(holder) \ Held(h) : c.owns /\ c.block = b})]

NothingHanded == handed' = Nothing

Construct(x) ==
  /\ x \notin alive /\ alive' = alive \cup {x}
  /\ NothingHanded /\ UNCHANGED <<holder, length, assigns, freed, given>>

CopyConstruct(x, y) ==
  /\ x \notin alive /\ y \in alive /\ alive' = alive \cup {x}
  /\ length' = [length EXCEPT ![x] = length[y]]
  /\ Hold([holder EXCEPT ![x] = holder[y]])
  /\ NothingHanded /\ UNCHANGED <<assigns, given>>

MoveConstruct(x, y) ==
  /\ x \notin alive /\ y \in alive /\ alive' = alive \cup {x}
  /\ length' = [length EXCEPT ![x] = length[y], ![y] = 0]
  /\ Hold([holder EXCEPT ![x] = holder[y], ![y] = NoControl])
  /\ NothingHanded /\ UNCHANGED <<assigns, given>>

\* The assignments do not look whether the object is assigned to itself.
CopyAssign(x, y) ==
  /\ {x, y} \subseteq alive
  /\ length' = [length EXCEPT ![x] = length[y]]
  /\ Hold([holder EXCEPT ![x] = holder[y]])
  /\ NothingHanded /\ UNCHANGED <<alive, assigns, given>>

\* A shared_ptr moved to itself keeps its block.
MovedTo(x, y) ==
  IF x = y THEN holder ELSE [holder EXCEPT ![x] = holder[y], ![y] = NoControl]

MoveAssign(x, y) ==
  /\ {x, y} \subseteq alive
  /\ length' = [[length EXCEPT ![x] = length[y]] EXCEPT ![y] = 0]
  /\ Hold(MovedTo(x, y))
  /\ NothingHanded /\ UNCHANGED <<alive, assigns, given>>

\* assign(inData, length, need_del), which the constructors from memory call.
Assign(x, b, n, need_del) ==
  /\ assigns < MaxAssigns /\ freed[b] = 0
  /\ alive' = alive \cup {x}
  /\ assigns' = assigns + 1
  /\ length' = [length EXCEPT ![x] = n]
  /\ Hold([holder EXCEPT ![x] = [block |-> b, owns |-> need_del, no |-> assigns + 1]])
  /\ given' = IF need_del THEN [given EXCEPT ![b] = @ + 1] ELSE given
  /\ NothingHanded

Destroy(x) ==
  /\ x \in alive /\ alive' = alive \ {x}
  /\ length' = [length EXCEPT ![x] = 0]
  /\ Hold([holder EXCEPT ![x] = NoControl])
  /\ NothingHanded /\ UNCHANGED <<assigns, given>>

\* The program frees a block it has not given away, once it is done with it.
ProgramFrees(b) ==
  /\ given[b] = 0 /\ freed[b] = 0
  /\ \A x \in Bufs : holder[x] # NoControl => holder[x].block # b
  /\ freed' = [freed EXCEPT ![b] = 1]
  /\ NothingHanded /\ UNCHANGED <<alive, holder, length, assigns, given>>

-----------------------------------------------------------------------------
(* The adapter.                                                             *)

\* make_constbuf(mutablebuf), and the native buffer made of it.
ConstBuf(x) == [holder |-> holder[x], size |-> length[x]]

\* Fault: one buffer too many.
FirstOf(s) == SubSeq(s, 1, IF Len(s) > MaxBuffers + 1 THEN MaxBuffers + 1 ELSE Len(s))

\* init(): the first buffers, as many as one call takes; the rest is left out.
FirstBuffers(s) == SubSeq(s, 1, IF Len(s) > MaxBuffers THEN MaxBuffers ELSE Len(s))

\* The sum of their sizes, written so that it can be reasoned about.
Total(s) ==
  LET upTo[i \in 0..Len(s)] == IF i = 0 THEN 0 ELSE upTo[i - 1] + length[s[i]]
  IN  upTo[Len(s)]

Adapt(s) ==
  LET first == FirstBuffers(s)
  IN  /\ handed' = [buffers |-> [i \in DOMAIN first |-> ConstBuf(first[i])],
                    count |-> Len(first),
                    total_size |-> Total(first),
                    rest |-> SubSeq(s, Len(first) + 1, Len(s))]
      /\ UNCHANGED <<alive, holder, length, assigns, freed, given>>

BuffersNext ==
  \/ \E x \in Bufs :
       \/ Construct(x) \/ Destroy(x)
       \/ \E y \in Bufs :
            \/ CopyConstruct(x, y) \/ MoveConstruct(x, y)
            \/ CopyAssign(x, y) \/ MoveAssign(x, y)
       \/ \E b \in Blocks, n \in {0, BlockSize}, need_del \in BOOLEAN : Assign(x, b, n, need_del)
  \/ \E b \in Blocks : ProgramFrees(b)
  \/ \E n \in 1..MaxSequence : \E s \in [1..n -> alive] : Adapt(s)

BuffersSpec == BuffersInit /\ [][BuffersNext]_buffers_vars

-----------------------------------------------------------------------------
(* What the buffers promise.                                                *)

Owners(b) == {x \in Bufs : holder[x] # NoControl /\ holder[x].block = b /\ holder[x].owns}

\* A block that was given away once is freed once, when its last owner lets
\* go of it, through any copies, moves and assignments of an object to itself
\* (mutablebuf.hpp:52-98 and 127-138); until then every buffer that says it
\* has bytes has them, and so has every native buffer the adapter makes; it
\* leaves a buffer out only of a call that has as many as it takes, and then
\* says nothing (buffer_sequence_adapter.hpp:92-101).  A block given away
\* twice may be freed twice, and one lent as well as given may be freed under
\* the borrower: a second control block knows nothing of the first.
BytesAreThere ==
  /\ \A b \in Blocks : given[b] = 1 => freed[b] = IF Owners(b) = {} THEN 1 ELSE 0
  /\ \A x \in alive : length[x] > 0 =>
       /\ holder[x] # NoControl
       /\ given[holder[x].block] = 0 \/ (given[holder[x].block] = 1 /\ holder[x].owns)
            => freed[holder[x].block] = 0
  /\ \A i \in 1..handed.count : handed.buffers[i].size > 0 => handed.buffers[i].holder # NoControl
  /\ handed.total_size = 0 <=> \A i \in 1..handed.count : handed.buffers[i].size = 0
  /\ handed.rest # << >> => handed.count = MaxBuffers

=============================================================================
