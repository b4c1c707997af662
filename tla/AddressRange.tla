---------------------------- MODULE AddressRange ----------------------------
(***************************************************************************)
(* basic_address_range and basic_address_iterator, for address_v4 and for  *)
(* address_v6, and the loop they are for:                                  *)
(*                                                                         *)
(*   for (auto it = range.begin(); it != range.end(); ++it)                *)
(*                                                                         *)
(* which may also take a step back.  A range is whatever pair of addresses *)
(* of one type it is constructed with: the ends may be swapped, and may    *)
(* have different scopes.                                                  *)
(***************************************************************************)
EXTENDS Addresses, FiniteSets

CONSTANTS
  Ranges,    \* the ranges a program may loop over
  MaxSteps,  \* steps of a loop that are followed
  MaxBack    \* steps back

ASSUME RangesAssumption ==
  /\ Ranges \subseteq [begin : V4Address, end : V4Address]
                      \cup [begin : V6Address, end : V6Address]
  /\ {MaxSteps, MaxBack} \subseteq Nat

VARIABLES
  range,    \* the range
  at,       \* the address the iterator is at
  from,     \* where the loop started (history)
  visited,  \* the addresses the body of the loop has seen (history)
  steps,    \* steps ahead since then, less the steps back
  back      \* steps back

loop       == <<at, from, visited, steps, back>>
range_vars == <<range, loop>>

-----------------------------------------------------------------------------
(* The iterators.                                                           *)

Biggest(S) == CHOOSE m \in S : \A n \in S : n <= m

\* Fault: a byte that overflows does not carry.
IncrementLastByte(a) ==
  IF IsV4(a)
  THEN FromNumber((Number(a.bytes) + 1) % Words)
  ELSE [a EXCEPT !.bytes = [@ EXCEPT ![V6Len] = (@ + 1) % Base]]

\* operator++: the last byte that is not full is incremented, those after it
\* become zero; past the last address comes the first.
Increment(a) ==
  IF IsV4(a)
  THEN FromNumber((Number(a.bytes) + 1) % Words)
  ELSE LET last == Biggest({0} \cup {i \in 1..V6Len : a.bytes[i] < Base - 1})
       IN  [a EXCEPT !.bytes =
              [i \in 1..V6Len |-> IF i < last THEN @[i] ELSE IF i = last THEN @[i] + 1 ELSE 0]]

\* operator--
Decrement(a) ==
  IF IsV4(a)
  THEN FromNumber((Number(a.bytes) - 1) % Words)
  ELSE LET last == Biggest({0} \cup {i \in 1..V6Len : a.bytes[i] > 0})
       IN  [a EXCEPT !.bytes =
              [i \in 1..V6Len |->
                 IF i < last THEN @[i] ELSE IF i = last THEN @[i] - 1 ELSE Base - 1]]

-----------------------------------------------------------------------------
(* The ranges.                                                              *)

\* size() of an IPv4 range: unsigned words are subtracted.
Size(r) == (Number(r.end.bytes) - Number(r.begin.bytes)) % Words

IsEmpty(r) == IF IsV4(r.begin) THEN Size(r) = 0 ELSE r.begin = r.end

\* Fault: the first address is not taken for one of the range.
FindAfterBegin(r, a) == IF Less(r.begin, a) /\ Less(a, r.end) THEN a ELSE r.end

\* find(): the address itself, or the end.
Find(r, a) == IF ~Less(a, r.begin) /\ Less(a, r.end) THEN a ELSE r.end

-----------------------------------------------------------------------------
\* A loop starts at a, with nothing seen.
StartAt(a) ==
  /\ at' = a /\ from' = a
  /\ visited' = {} /\ steps' = 0 /\ back' = 0

RangeInit ==
  /\ range \in Ranges
  /\ at = range.begin /\ from = range.begin
  /\ visited = {} /\ steps = 0 /\ back = 0

\* The body of the loop, and ++it.
Visit ==
  /\ at # range.end
  /\ steps < MaxSteps
  /\ visited' = visited \cup {at}
  /\ at' = Increment(at)
  /\ steps' = steps + 1
  /\ UNCHANGED <<range, from, back>>

\* --it, after at least one step ahead.
Retreat ==
  /\ steps > 0
  /\ back < MaxBack
  /\ at' = Decrement(at)
  /\ steps' = steps - 1
  /\ back' = back + 1
  /\ UNCHANGED <<range, from, visited>>

RangeNext == Visit \/ Retreat

-----------------------------------------------------------------------------
(* What the ranges promise.                                                 *)

RangeTypeOK ==
  /\ range \in Ranges
  /\ {at, from} \subseteq V4Address \cup V6Address
  /\ visited \subseteq V4Address \cup V6Address
  /\ steps \in 0..MaxSteps
  /\ back \in 0..MaxBack

\* The ends are in order and a loop between them ends.
Ordered(r) == ~Less(r.end, r.begin) /\ r.begin.scope = r.end.scope

\* How far ahead of a the address b is.
Distance(a, b) == (Number(b.bytes) - Number(a.bytes)) % Power(Base, Len(a.bytes))

\* What a loop sees, what find() finds and what size() counts are the same
\* addresses, although they go through unrelated code: ++ carries from byte to
\* byte, find() compares words or memory, size() subtracts words
\* (address_v4_range.hpp:76-103, address_v6_range.hpp:70-91).  On a range whose
\* ends are in order the loop sees only what find() finds, and once it has run
\* from begin() to end() it has seen every address of the range's scope that
\* find() finds.  The steps are the distance between the numbers the bytes
\* stand for, and the size announced is the steps made and those to come, also
\* when the ends are swapped and the loop goes on through the highest address
\* to the lowest.  An empty range is one whose loop has no step.
IterationAgrees ==
  /\ Ordered(range) /\ from = range.begin =>
       /\ \A a \in visited : Find(range, a) = a /\ a # range.end
       /\ at = range.end =>
            \A r \in Ranges : \A a \in {r.begin, r.end} :
              /\ a.type = at.type /\ a.scope = at.scope
              /\ Find(range, a) # range.end
              => a \in visited
  /\ Distance(from, at) = steps % Power(Base, Len(at.bytes))
  /\ IsV4(at) => Size([range EXCEPT !.begin = from])
                   = (steps + Size([range EXCEPT !.begin = at])) % Words
  /\ steps = 0 /\ from = range.begin => IsEmpty(range) <=> at = range.end

=============================================================================
