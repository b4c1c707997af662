---------------------------- MODULE ValueProofs ----------------------------
(***************************************************************************)
(* Proofs about the values a program hands to the operations: addresses,   *)
(* endpoints and ranges (PeerFilter and the modules it composes), for      *)
(* bytes of any width, IPv6 prefixes of any length and any ranges, ports   *)
(* and peers; and buffers (Buffers), for any number of buffers and blocks. *)
(*                                                                         *)
(* The models compute byte by byte and buffer by buffer, with recursive    *)
(* functions; what they compute is proved by induction over a set: the     *)
(* least element that a set of numbers has (LeastOf) is the first place at *)
(* which a fact would fail.  An address is then a number: the order in     *)
(* memory is that of the numbers, a step of an iterator adds or subtracts  *)
(* one, around, and a loop is as far from its start as the steps it made.  *)
(***************************************************************************)
EXTENDS PeerFilter, Buffers, WellFoundedInduction, SequenceTheorems, FiniteSetTheorems, TLAPS

-----------------------------------------------------------------------------
(* Induction.                                                               *)

\* A set of natural numbers has a least one.
LEMMA LeastOf ==
  ASSUME NEW S \in SUBSET Nat, S # {}
  PROVE  \E n \in S : \A m \in S : n <= m
<1>1. PICK n \in S : \A m \in S : <<m, n>> \notin OpToRel(<, Nat)
  BY NatLessThanWellFounded, WFMin
<1>2. \A m \in S : m < n => <<m, n>> \in OpToRel(<, Nat)
  BY DEF OpToRel
<1>3. \A m \in S : ~ (m < n)
  BY <1>1, <1>2, Zenon
<1> QED
  BY <1>3

\* A set that has 0, and with a number the next, up to n, has them all.
LEMMA UpTo ==
  ASSUME NEW n \in Nat, NEW S,
         0 \in S,
         \A i \in 1..n : i - 1 \in S => i \in S
  PROVE  0..n \subseteq S
<1> DEFINE Missing == (0..n) \ S
<1> SUFFICES ASSUME Missing # {} PROVE FALSE
  OBVIOUS
<1>1. Missing \in SUBSET Nat
  OBVIOUS
<1>2. PICK i \in Missing : \A m \in Missing : i <= m
  <2> HIDE DEF Missing
  <2> QED
    BY <1>1, LeastOf
<1>3. i \in 1..n /\ i - 1 \in 0..n
  OBVIOUS
<1>4. i - 1 \in S
  BY <1>2, <1>3
<1> QED
  BY <1>3, <1>4

\* f computes n steps from the value start.
Follows(f, n, V, start, step) ==
  /\ f \in [0..n -> V]
  /\ f[0] = start
  /\ \A i \in 1..n : f[i] = step[<<f[i - 1], i>>]

\* What is defined from the value before it exists: the functions of the model
\* that are computed byte by byte.
LEMMA Recursion ==
  ASSUME NEW n \in Nat, NEW V, NEW start \in V, NEW step \in [V \X (1..n) -> V]
  PROVE  \E f : Follows(f, n, V, start, step)
<1> DEFINE Computes(f, k) == /\ f \in [0..n -> V]
                             /\ f[0] = start
                             /\ \A i \in 1..k : f[i] = step[<<f[i - 1], i>>]
<1> DEFINE S == {k \in 0..n : \E f : Computes(f, k)}
<1>1. 0 \in S
  <2>1. Computes([i \in 0..n |-> start], 0)
    OBVIOUS
  <2> HIDE DEF Computes
  <2>2. \E f : Computes(f, 0)
    BY <2>1
  <2> QED
    BY <2>2
<1>2. \A k \in 1..n : k - 1 \in S => k \in S
  <2> SUFFICES ASSUME NEW k \in 1..n, k - 1 \in S PROVE k \in S
    OBVIOUS
  <2> PICK f : Computes(f, k - 1)
    <3> HIDE DEF Computes
    <3> QED
      OBVIOUS
  <2> DEFINE g == [f EXCEPT ![k] = step[<<f[k - 1], k>>]]
  <2>1. k \in 0..n /\ k - 1 \in 0..n /\ k - 1 # k /\ 0 # k
    OBVIOUS
  <2>2. step[<<f[k - 1], k>>] \in V
    BY <2>1
  <2>3. g \in [0..n -> V] /\ g[0] = start
    BY <2>1, <2>2
  <2>4. g[k] = step[<<g[k - 1], k>>]
    BY <2>1
  <2>5. \A i \in 1..(k - 1) : g[i] = step[<<g[i - 1], i>>]
    <3> SUFFICES ASSUME NEW i \in 1..(k - 1) PROVE g[i] = step[<<g[i - 1], i>>]
      OBVIOUS
    <3>1. i # k /\ i - 1 # k /\ i \in 0..n /\ i - 1 \in 0..n
      OBVIOUS
    <3> QED
      BY <3>1
  <2>6. \A i \in 1..k : i = k \/ i \in 1..(k - 1)
    OBVIOUS
  <2>7. Computes(g, k)
    <3> HIDE DEF g
    <3> QED
      BY <2>3, <2>4, <2>5, <2>6
  <2>8. \E h : Computes(h, k)
    <3> HIDE DEF Computes, g
    <3> QED
      BY <2>7
  <2> HIDE DEF Computes
  <2> QED
    BY <2>8
<1>3. 0..n \subseteq S
  <2> HIDE DEF S
  <2> QED
    BY <1>1, <1>2, UpTo
<1>4. n \in S
  <2> HIDE DEF S
  <2> QED
    BY <1>3
<1> QED
  BY <1>4 DEF Follows

-----------------------------------------------------------------------------
(* Powers and numbers.                                                      *)

\* f is the function that Power computes.
IsPower(f, b, n) ==
  f = [i \in 0..n |-> IF i = 0 THEN 1 ELSE f[i - 1] * b]

\* Power is the last value of a function that multiplies step by step.
LEMMA PowerIs ==
  ASSUME NEW b \in Nat, NEW n \in Nat
  PROVE  \E f \in [0..n -> Nat] :
           /\ f[0] = 1 /\ \A i \in 1..n : f[i] = f[i - 1] * b
           /\ Power(b, n) = f[n]
<1> DEFINE step == [t \in Nat \X (1..n) |-> t[1] * b]
<1>1. step \in [Nat \X (1..n) -> Nat]
  OBVIOUS
<1>2. PICK f \in [0..n -> Nat] : f[0] = 1 /\ \A i \in 1..n : f[i] = step[<<f[i - 1], i>>]
  <2> HIDE DEF step
  <2>1. \E f : Follows(f, n, Nat, 1, step)
    BY <1>1, Recursion
  <2> QED
    BY <2>1 DEF Follows
<1>3. \A i \in 1..n : f[i] = f[i - 1] * b
  <2> SUFFICES ASSUME NEW i \in 1..n PROVE f[i] = f[i - 1] * b
    OBVIOUS
  <2>1. <<f[i - 1], i>> \in Nat \X (1..n)
    OBVIOUS
  <2> QED
    BY <1>2, <2>1
<1>4. IsPower(f, b, n)
  <2>1. \A i \in 0..n : f[i] = IF i = 0 THEN 1 ELSE f[i - 1] * b
    BY <1>2, <1>3
  <2> QED
    BY <2>1 DEF IsPower
<1> DEFINE p == CHOOSE p : IsPower(p, b, n)
<1>5. IsPower(p, b, n)
  BY <1>4, Zenon
<1>6. Power(b, n) = p[n]
  BY Zenon DEF Power, IsPower
<1> HIDE DEF p
<1>7. p[0] = 1 /\ \A i \in 1..n : p[i] = p[i - 1] * b
  BY <1>5 DEF IsPower
<1>8. p \in [0..n -> Nat]
  <2> DEFINE S == {i \in 0..n : p[i] \in Nat}
  <2>1. 0 \in S /\ \A i \in 1..n : i - 1 \in S => i \in S
    BY <1>7
  <2>2. 0..n \subseteq S
    <3> HIDE DEF S
    <3> QED
      BY <2>1, UpTo
  <2>3. DOMAIN p = 0..n /\ p = [i \in DOMAIN p |-> p[i]]
    BY <1>5 DEF IsPower
  <2> QED
    BY <2>2, <2>3
<1> QED
  BY <1>6, <1>7, <1>8

\* A power of what is not zero is not zero.
LEMMA PowerType ==
  ASSUME NEW b \in Nat \ {0}, NEW n \in Nat
  PROVE  Power(b, n) \in Nat \ {0}
<1>1. PICK f \in [0..n -> Nat] : /\ f[0] = 1 /\ \A i \in 1..n : f[i] = f[i - 1] * b
                                 /\ Power(b, n) = f[n]
  BY PowerIs
<1> DEFINE S == {i \in 0..n : f[i] # 0}
<1>2. 0 \in S /\ \A i \in 1..n : i - 1 \in S => i \in S
  BY <1>1
<1>3. 0..n \subseteq S
  <2> HIDE DEF S
  <2> QED
    BY <1>2, UpTo
<1> QED
  BY <1>1, <1>3

\* One factor more.
LEMMA PowerNext ==
  ASSUME NEW b \in Nat, NEW n \in Nat
  PROVE  Power(b, n + 1) = Power(b, n) * b /\ Power(b, 0) = 1
<1>1. PICK f \in [0..n -> Nat] : /\ f[0] = 1 /\ \A i \in 1..n : f[i] = f[i - 1] * b
                                 /\ Power(b, n) = f[n]
  BY PowerIs
<1>2. PICK g \in [0..(n + 1) -> Nat] : /\ g[0] = 1 /\ \A i \in 1..(n + 1) : g[i] = g[i - 1] * b
                                       /\ Power(b, n + 1) = g[n + 1]
  <2>1. n + 1 \in Nat
    OBVIOUS
  <2> QED
    BY <2>1, PowerIs, Zenon
<1> DEFINE S == {i \in 0..n : f[i] = g[i]}
<1>3. 0 \in S /\ \A i \in 1..n : i - 1 \in S => i \in S
  BY <1>1, <1>2
<1>4. 0..n \subseteq S
  <2> HIDE DEF S
  <2> QED
    BY <1>3, UpTo
<1>5. g[n + 1] = g[n] * b
  <2>1. n + 1 \in 1..(n + 1) /\ n + 1 - 1 = n
    OBVIOUS
  <2> QED
    BY <1>2, <2>1
<1>6. Power(b, 0) = 1
  BY PowerIs
<1> QED
  BY <1>1, <1>2, <1>4, <1>5, <1>6

\* A byte has a multiple of sixteen values.
LEMMA BaseIs ==
  \E m \in Nat \ {0} : Base = 16 * m
<1> DEFINE w == Width - 4
<1>1. w \in Nat /\ w + 1 \in Nat /\ w + 2 \in Nat /\ w + 3 \in Nat /\ 2 \in Nat
      /\ (w + 1) + 1 = w + 2 /\ (w + 2) + 1 = w + 3 /\ (w + 3) + 1 = Width
  BY BytesAssumption
<1> HIDE DEF w
<1>2. Power(2, w) \in Nat \ {0}
  BY <1>1, PowerType
<1>3. /\ Power(2, w + 1) = Power(2, w) * 2 /\ Power(2, w + 2) = Power(2, w + 1) * 2
      /\ Power(2, w + 3) = Power(2, w + 2) * 2 /\ Power(2, Width) = Power(2, w + 3) * 2
  <2>1. \A n \in Nat : Power(2, n + 1) = Power(2, n) * 2
    BY PowerNext
  <2> QED
    BY <1>1, <2>1, Zenon
<1>4. Base = 16 * Power(2, w)
  <2>1. /\ Power(2, w + 1) \in Int /\ Power(2, w + 2) \in Int /\ Power(2, w + 3) \in Int
        /\ Power(2, Width) \in Int /\ Power(2, w) \in Int
    <3>1. \A n \in Nat : Power(2, n) \in Int
      BY PowerType
    <3> QED
      BY <1>1, <3>1, BytesAssumption
  <2>2. Power(2, Width) = 16 * Power(2, w)
    BY <1>3, <2>1
  <2> QED
    BY <2>2, Zenon DEF Base
<1> QED
  BY <1>2, <1>4

\* A byte has at least sixteen values.
LEMMA BaseType == Base \in Nat /\ Base \in Nat \ {0} /\ Base >= 16
BY BaseIs

\* The function from 1..n is a sequence of n elements.
LEMMA LenIs ==
  ASSUME NEW n \in Nat, NEW S, NEW s \in [1..n -> S]
  PROVE  Len(s) = n /\ s \in Seq(S) /\ DOMAIN s = 1..n
OBVIOUS

\* Another digit makes another number.
LEMMA DigitType == \A x, b, d \in Nat : x * b + d \in Nat
OBVIOUS

\* f is the function that Number computes.
IsNumber(f, s) ==
  f = [i \in 0..Len(s) |-> IF i = 0 THEN 0 ELSE f[i - 1] * Base + s[i]]

\* The values of the first bytes, of one more each.
Values(f, n, s) ==
  /\ f \in [0..n -> Nat]
  /\ f[0] = 0
  /\ \A i \in 1..n : f[i] = f[i - 1] * Base + s[i]

\* Number is the value of all the bytes.
LEMMA NumberIs ==
  ASSUME NEW n \in Nat, NEW s \in [1..n -> Byte]
  PROVE  \E f : Values(f, n, s) /\ Number(s) = f[n]
<1>0. \A i \in 1..n : s[i] \in Nat
  BY BaseType DEF Byte
<1> DEFINE step == [t \in Nat \X (1..n) |-> t[1] * Base + s[t[2]]]
<1>1. step \in [Nat \X (1..n) -> Nat]
  <2>1. \A t \in Nat \X (1..n) : t[1] \in Nat /\ s[t[2]] \in Nat
    BY <1>0
  <2>2. \A t \in Nat \X (1..n) : t[1] * Base + s[t[2]] \in Nat
    BY <2>1, DigitType, BaseType, Zenon
  <2> QED
    BY <2>2
<1>2. PICK f \in [0..n -> Nat] : f[0] = 0 /\ \A i \in 1..n : f[i] = step[<<f[i - 1], i>>]
  <2> HIDE DEF step
  <2>1. \E f : Follows(f, n, Nat, 0, step)
    BY <1>1, Recursion
  <2> QED
    BY <2>1 DEF Follows
<1>3. \A i \in 1..n : f[i] = f[i - 1] * Base + s[i]
  <2> SUFFICES ASSUME NEW i \in 1..n PROVE f[i] = f[i - 1] * Base + s[i]
    OBVIOUS
  <2>1. <<f[i - 1], i>> \in Nat \X (1..n)
    OBVIOUS
  <2> QED
    BY <1>2, <2>1
<1>4. IsNumber(f, s)
  <2>1. \A i \in 0..n : f[i] = IF i = 0 THEN 0 ELSE f[i - 1] * Base + s[i]
    <3>1. \A i \in 0..n : i = 0 \/ i \in 1..n
      OBVIOUS
    <3> QED
      BY <1>2, <1>3, <3>1, Zenon
  <2>2. Len(s) = n
    BY LenIs
  <2> QED
    BY <2>1, <2>2 DEF IsNumber
<1> DEFINE p == CHOOSE p : IsNumber(p, s)
<1>5. IsNumber(p, s)
  BY <1>4, Zenon
<1>6. Number(s) = p[Len(s)]
  BY Zenon DEF Number, IsNumber
<1> HIDE DEF p
<1>7. /\ p = [i \in 0..n |-> IF i = 0 THEN 0 ELSE p[i - 1] * Base + s[i]]
      /\ Number(s) = p[n]
  BY <1>5, <1>6, LenIs DEF IsNumber
<1>8. p[0] = 0 /\ \A i \in 1..n : p[i] = p[i - 1] * Base + s[i]
  <2>1. \A i \in 1..n : i \in 0..n /\ i # 0
    OBVIOUS
  <2>2. 0 \in 0..n
    OBVIOUS
  <2> QED
    BY <1>7, <2>1, <2>2, Zenon
<1>9. p \in [0..n -> Nat]
  <2> DEFINE S == {i \in 0..n : p[i] \in Nat}
  <2>1. 0 \in S
    BY <1>8
  <2>4. ASSUME NEW i \in 1..n, i - 1 \in S PROVE i \in S
    <3>1. p[i] = p[i - 1] * Base + s[i]
      BY <1>8, Zenon
    <3>2. s[i] \in Nat /\ p[i - 1] \in Nat
      BY <1>0, <2>4, Zenon
    <3>3. p[i] \in Nat
      BY <3>1, <3>2, DigitType, BaseType, Zenon
    <3> QED
      BY <3>3
  <2>2. 0..n \subseteq S
    <3> HIDE DEF S
    <3> QED
      BY <2>1, <2>4, UpTo
  <2>3. DOMAIN p = 0..n /\ p = [i \in DOMAIN p |-> p[i]]
    BY <1>7
  <2> QED
    BY <2>2, <2>3
<1> QED
  BY <1>7, <1>8, <1>9 DEF Values

\* n bytes stand for a number below the n-th power of Base.
LEMMA NumberBound ==
  ASSUME NEW n \in Nat, NEW s \in [1..n -> Byte]
  PROVE  /\ Number(s) \in Nat
         /\ Number(s) < Power(Base, n)
         /\ Power(Base, n) \in Nat \ {0}
<1>0. \A i \in 1..n : s[i] \in Nat /\ s[i] < Base
  BY BaseType DEF Byte
<1>1. PICK f : Values(f, n, s) /\ Number(s) = f[n]
  BY NumberIs
<1>2. PICK p \in [0..n -> Nat] : /\ p[0] = 1 /\ \A i \in 1..n : p[i] = p[i - 1] * Base
                                 /\ Power(Base, n) = p[n]
  BY PowerIs, BaseType
<1> DEFINE S == {i \in 0..n : f[i] + 1 <= p[i]}
<1>3. 0 \in S
  BY <1>1, <1>2 DEF Values
<1>4. ASSUME NEW i \in 1..n, i - 1 \in S PROVE i \in S
  <2>1. /\ f[i] = f[i - 1] * Base + s[i] /\ p[i] = p[i - 1] * Base
        /\ f[i - 1] \in Nat /\ p[i - 1] \in Nat /\ f[i] \in Nat /\ p[i] \in Nat
    BY <1>1, <1>2 DEF Values
  <2>2. \A x, y, d, b \in Nat : x + 1 <= y /\ d < b => x * b + d + 1 <= y * b
    <3> SUFFICES ASSUME NEW x \in Nat, NEW y \in Nat, NEW d \in Nat, NEW b \in Nat,
                        x + 1 <= y, d < b
                 PROVE  x * b + d + 1 <= y * b
      OBVIOUS
    <3>1. (x + 1) * b <= y * b
      <4>1. \A u, v, w \in Nat : u <= v => u * w <= v * w
        OBVIOUS
      <4> QED
        BY <4>1
    <3>2. (x + 1) * b = x * b + b
      OBVIOUS
    <3> QED
      BY <3>1, <3>2
  <2>3. f[i - 1] + 1 <= p[i - 1] /\ s[i] \in Nat /\ s[i] < Base
    BY <1>0, <1>4
  <2>4. f[i - 1] * Base + s[i] + 1 <= p[i - 1] * Base
    BY <2>1, <2>2, <2>3, BaseType
  <2> QED
    BY <2>1, <2>4
<1>5. 0..n \subseteq S
  <2> HIDE DEF S
  <2> QED
    BY <1>3, <1>4, UpTo
<1> QED
  BY <1>1, <1>2, <1>5, PowerType, BaseType DEF Values

\* A lower value stays lower when each gets a digit more.
LEMMA LowerStaysLower ==
  ASSUME NEW x \in Nat, NEW y \in Nat, NEW d \in Nat, NEW e \in Nat, NEW b \in Nat,
         x < y, d < b
  PROVE  x * b + d < y * b + e
<1>1. \A u, v, w \in Nat : u <= v => u * w <= v * w
  OBVIOUS
<1>2. (x + 1) * b <= y * b
  BY <1>1
<1>3. (x + 1) * b = x * b + b
  OBVIOUS
<1> QED
  BY <1>2, <1>3

\* Bytes that come first in memory order stand for the lower number.
LEMMA BytesLessIsLower ==
  ASSUME NEW n \in Nat, NEW s \in [1..n -> Byte], NEW t \in [1..n -> Byte], BytesLess(s, t)
  PROVE  Number(s) < Number(t)
<1>0. /\ \A i \in 1..n : s[i] \in Nat /\ s[i] < Base /\ t[i] \in Nat
      /\ Base \in Nat
  BY BaseType DEF Byte
<1>1. PICK f : Values(f, n, s) /\ Number(s) = f[n]
  BY NumberIs
<1>2. PICK g : Values(g, n, t) /\ Number(t) = g[n]
  BY NumberIs
<1>3. PICK k \in 1..n : s[k] < t[k] /\ \A j \in 1..(k - 1) : s[j] = t[j]
  BY LenIs DEF BytesLess
<1> DEFINE S == {i \in 0..n : IF i < k THEN f[i] = g[i] ELSE f[i] < g[i]}
<1>4. 0 \in S
  BY <1>1, <1>2 DEF Values
<1>5. ASSUME NEW i \in 1..n, i - 1 \in S PROVE i \in S
  <2>1. f[i] = f[i - 1] * Base + s[i] /\ g[i] = g[i - 1] * Base + t[i]
    BY <1>1, <1>2, Zenon DEF Values
  <2>2. i - 1 \in 0..n
    OBVIOUS
  <2>3. f[i - 1] \in Nat /\ g[i - 1] \in Nat
    BY <1>1, <1>2, <2>2 DEF Values
  <2>4. CASE i < k
    <3>1. s[i] = t[i] /\ f[i - 1] = g[i - 1]
      BY <1>3, <1>5, <2>4
    <3>2. f[i] = g[i]
      BY <2>1, <3>1, Zenon
    <3> QED
      BY <2>4, <3>2
  <2>5. CASE i = k
    <3>1. f[i - 1] = g[i - 1] /\ s[i] < t[i]
      BY <1>3, <1>5, <2>5
    <3>2. \A x, d, e \in Nat : d < e => x * Base + d < x * Base + e
      BY <1>0
    <3>3. f[i - 1] * Base + s[i] < f[i - 1] * Base + t[i]
      BY <1>0, <2>3, <3>1, <3>2
    <3>4. f[i] < g[i]
      BY <2>1, <3>1, <3>3, Zenon
    <3> QED
      BY <2>5, <3>4
  <2>6. CASE i > k
    <3>1. f[i - 1] < g[i - 1]
      BY <1>5, <2>6
    <3>2. f[i - 1] * Base + s[i] < g[i - 1] * Base + t[i]
      BY <1>0, <2>3, <3>1, LowerStaysLower
    <3>3. f[i] < g[i]
      BY <2>1, <3>2, Zenon
    <3> QED
      BY <2>6, <3>3
  <2> QED
    BY <2>4, <2>5, <2>6
<1>6. 0..n \subseteq S
  <2> HIDE DEF S
  <2> QED
    BY <1>4, <1>5, UpTo
<1>7. f[n] < g[n]
  BY <1>6
<1> QED
  BY <1>1, <1>2, <1>7

\* Of different bytes one come first.
LEMMA BytesDiffer ==
  ASSUME NEW n \in Nat, NEW s \in [1..n -> Byte], NEW t \in [1..n -> Byte], s # t
  PROVE  BytesLess(s, t) \/ BytesLess(t, s)
<1> DEFINE Differ == {i \in 1..n : s[i] # t[i]}
<1>1. Differ \in SUBSET Nat /\ Differ # {}
  OBVIOUS
<1>2. PICK k \in Differ : \A m \in Differ : k <= m
  <2> HIDE DEF Differ
  <2> QED
    BY <1>1, LeastOf
<1>3. k \in 1..n /\ s[k] # t[k] /\ \A j \in 1..(k - 1) : s[j] = t[j]
  BY <1>2
<1>4. s[k] < t[k] \/ t[k] < s[k]
  BY <1>3, BaseType DEF Byte
<1> QED
  BY <1>3, <1>4, LenIs DEF BytesLess

\* The order of the bytes in memory is that of the numbers, and the numbers
\* tell the bytes apart.
LEMMA NumberOrder ==
  ASSUME NEW n \in Nat, NEW s \in [1..n -> Byte], NEW t \in [1..n -> Byte]
  PROVE  /\ BytesLess(s, t) <=> Number(s) < Number(t)
         /\ s = t <=> Number(s) = Number(t)
<1>1. Number(s) \in Nat /\ Number(t) \in Nat
  BY NumberBound
<1>2. BytesLess(s, t) => Number(s) < Number(t)
  BY BytesLessIsLower
<1>3. BytesLess(t, s) => Number(t) < Number(s)
  BY BytesLessIsLower
<1>4. s # t => BytesLess(s, t) \/ BytesLess(t, s)
  BY BytesDiffer
<1> HIDE DEF BytesLess
<1> QED
  BY <1>1, <1>2, <1>3, <1>4

-----------------------------------------------------------------------------
(* Division.                                                                *)

\* Quotient and remainder are found by giving them.
LEMMA DivisionOf ==
  ASSUME NEW b \in Nat \ {0}, NEW q \in Int, NEW r \in 0..(b - 1)
  PROVE  (q * b + r) % b = r /\ (q * b + r) \div b = q
OBVIOUS

\* Every number is made of its quotient and its remainder.
LEMMA Division ==
  ASSUME NEW b \in Nat \ {0}, NEW n \in Int
  PROVE  /\ n \div b \in Int /\ n % b \in 0..(b - 1)
         /\ n = (n \div b) * b + (n % b)
OBVIOUS

\* A remainder may be taken early.
LEMMA RemainderOfSum ==
  ASSUME NEW b \in Nat \ {0}, NEW n \in Int, NEW m \in Int
  PROVE  ((n % b) + m) % b = (n + m) % b
<1>1. /\ n \div b \in Int /\ n % b \in Int
      /\ n = (n \div b) * b + (n % b)
  BY Division
<1>2. (n % b) + m \in Int
  BY <1>1
<1>3. /\ ((n % b) + m) \div b \in Int /\ ((n % b) + m) % b \in 0..(b - 1)
      /\ (n % b) + m = (((n % b) + m) \div b) * b + (((n % b) + m) % b)
  BY <1>2, Division
<1>4. \A x, q, r, y, p, s \in Int :
        x = q * b + r /\ r + y = p * b + s => x + y = (q + p) * b + s
  <2> SUFFICES ASSUME NEW x \in Int, NEW q \in Int, NEW r \in Int,
                      NEW y \in Int, NEW p \in Int, NEW s \in Int,
                      x = q * b + r, r + y = p * b + s
               PROVE  x + y = (q + p) * b + s
    OBVIOUS
  <2>1. (q + p) * b = q * b + p * b
    OBVIOUS
  <2> QED
    BY <2>1
<1> DEFINE q == n \div b
           r == n % b
           p == ((n % b) + m) \div b
           s == ((n % b) + m) % b
<1>5. n + m = (q + p) * b + s
  BY <1>1, <1>3, <1>4
<1>6. q + p \in Int /\ s \in 0..(b - 1)
  BY <1>1, <1>3
<1>7. (n + m) % b = s
  <2> HIDE DEF q, p, s
  <2> QED
    BY <1>5, <1>6, DivisionOf
<1> QED
  BY <1>7

\* Dividing twice.
LEMMA DivisionTwice ==
  ASSUME NEW n \in Nat, NEW c \in Nat \ {0}, NEW b \in Nat \ {0}
  PROVE  n \div (c * b) = (n \div c) \div b
OBVIOUS

\* The digits of a number that n bytes can hold, as FromNumber has them.
Digits(m, n) == [i \in 1..n |-> (m \div Power(Base, n - i)) % Base]

\* They stand for the number.
LEMMA NumberOfDigits ==
  ASSUME NEW n \in Nat, NEW m \in Nat, m < Power(Base, n)
  PROVE  Digits(m, n) \in [1..n -> Byte] /\ Number(Digits(m, n)) = m
<1> DEFINE s == Digits(m, n)
<1>1. \A i \in 1..n : n - i \in Nat /\ Power(Base, n - i) \in Nat \ {0}
  BY PowerType, BaseType
<1>2. \A i \in 1..n : m \div Power(Base, n - i) \in Nat
  BY <1>1
<1>3. s \in [1..n -> Byte]
  BY <1>2, BaseType DEF Byte, Digits
<1>4. PICK f : Values(f, n, s) /\ Number(s) = f[n]
  BY <1>3, NumberIs
<1> DEFINE S == {i \in 0..n : f[i] = m \div Power(Base, n - i)}
<1>5. 0 \in S
  <2>1. m \div Power(Base, n) = 0
    <3>1. \A c \in Nat \ {0} : m < c => m \div c = 0
      OBVIOUS
    <3>2. Power(Base, n) \in Nat \ {0}
      BY PowerType, BaseType
    <3> QED
      BY <3>1, <3>2, Zenon
  <2>2. f[0] = 0 /\ n - 0 = n
    BY <1>4 DEF Values
  <2> QED
    BY <2>1, <2>2
<1>6. ASSUME NEW i \in 1..n, i - 1 \in S PROVE i \in S
  <2> DEFINE c == Power(Base, n - i)
             x == m \div c
  <2>1. c \in Nat \ {0} /\ x \in Nat
    BY <1>1, <1>2
  <2>2. f[i] = f[i - 1] * Base + s[i] /\ s[i] = x % Base
    BY <1>4 DEF Values, Digits
  <2>3. f[i - 1] = m \div (c * Base)
    <3>1. n - (i - 1) = (n - i) + 1 /\ n - i \in Nat
      OBVIOUS
    <3>2. Power(Base, (n - i) + 1) = c * Base
      BY <3>1, PowerNext, BaseType
    <3>3. f[i - 1] = m \div Power(Base, n - (i - 1))
      BY <1>6
    <3> QED
      BY <3>1, <3>2, <3>3, Zenon
  <2>4. f[i - 1] = x \div Base
    <3> HIDE DEF c
    <3> QED
      BY <2>1, <2>3, DivisionTwice, BaseType
  <2>5. f[i] = x
    <3>1. f[i] = (x \div Base) * Base + (x % Base)
      BY <2>2, <2>4, Zenon
    <3> HIDE DEF x
    <3> QED
      BY <2>1, <3>1, Division, BaseType
  <2> QED
    BY <2>5
<1>7. 0..n \subseteq S
  <2> HIDE DEF S
  <2> QED
    BY <1>5, <1>6, UpTo
<1>8. f[n] = m
  <2>1. f[n] = m \div Power(Base, n - n)
    BY <1>7
  <2>2. n - n = 0 /\ Power(Base, 0) = 1
    BY PowerNext, BaseType
  <2> QED
    BY <2>1, <2>2
<1> QED
  BY <1>3, <1>4, <1>8

\* t is s with the byte at k one higher, and those after it run over; k is 0
\* when there is none.
Carries(s, t, n, k) ==
  /\ \A i \in 1..n : i < k => t[i] = s[i]
  /\ k > 0 => t[k] = s[k] + 1
  /\ \A i \in 1..n : i > k => s[i] = Base - 1 /\ t[i] = 0

\* Bytes that carry like this stand for the next number, or go round to 0.
LEMMA CarryAdds ==
  ASSUME NEW n \in Nat, NEW s \in [1..n -> Byte], NEW t \in [1..n -> Byte],
         NEW k \in 0..n, Carries(s, t, n, k)
  PROVE  IF k = 0 THEN Number(s) + 1 = Power(Base, n) /\ Number(t) = 0
                  ELSE Number(t) = Number(s) + 1
<1>1. PICK f : Values(f, n, s) /\ Number(s) = f[n]
  BY NumberIs
<1>2. PICK g : Values(g, n, t) /\ Number(t) = g[n]
  BY NumberIs
<1>3. PICK p \in [0..n -> Nat] : /\ p[0] = 1 /\ \A i \in 1..n : p[i] = p[i - 1] * Base
                                 /\ Power(Base, n) = p[n]
  BY PowerIs, BaseType
<1>4. Base \in Nat
  BY BaseType
<1>5. \A i \in 1..n : /\ s[i] \in Nat /\ t[i] \in Nat
                      /\ f[i] = f[i - 1] * Base + s[i] /\ g[i] = g[i - 1] * Base + t[i]
                      /\ f[i - 1] \in Nat /\ g[i - 1] \in Nat /\ p[i - 1] \in Nat
  <2>1. \A i \in 1..n : i - 1 \in 0..n
    OBVIOUS
  <2>2. \A i \in 1..n : s[i] \in Nat /\ t[i] \in Nat
    BY BaseType DEF Byte
  <2> QED
    BY <1>1, <1>2, <1>3, <2>1, <2>2, Zenon DEF Values
<1>6. \A x, y \in Nat : x + 1 = y => x * Base + (Base - 1) + 1 = y * Base
  <2> SUFFICES ASSUME NEW x \in Nat PROVE x * Base + (Base - 1) + 1 = (x + 1) * Base
    OBVIOUS
  <2> QED
    BY <1>4
<1>7. CASE k = 0
  <2> DEFINE S == {i \in 0..n : f[i] + 1 = p[i] /\ g[i] = 0}
  <2>1. 0 \in S
    BY <1>1, <1>2, <1>3 DEF Values
  <2>2. ASSUME NEW i \in 1..n, i - 1 \in S PROVE i \in S
    <3>1. s[i] = Base - 1 /\ t[i] = 0
      BY <1>7 DEF Carries
    <3>2. f[i - 1] + 1 = p[i - 1] /\ g[i - 1] = 0
      BY <2>2
    <3>3. f[i] = f[i - 1] * Base + (Base - 1) /\ g[i] = 0 * Base + 0
      BY <1>5, <3>1, <3>2, Zenon
    <3>4. f[i - 1] * Base + (Base - 1) + 1 = p[i - 1] * Base
      BY <1>5, <1>6, <3>2, Zenon
    <3>5. f[i] + 1 = p[i]
      BY <1>3, <3>3, <3>4, Zenon
    <3>6. g[i] = 0
      BY <1>4, <3>3
    <3> QED
      BY <3>5, <3>6
  <2>3. 0..n \subseteq S
    <3> HIDE DEF S
    <3> QED
      BY <2>1, <2>2, UpTo
  <2> QED
    BY <1>1, <1>2, <1>3, <1>7, <2>3
<1>8. CASE k # 0
  <2> DEFINE S == {i \in 0..n : IF i < k THEN g[i] = f[i] ELSE g[i] = f[i] + 1}
  <2>1. 0 \in S
    BY <1>1, <1>2, <1>8 DEF Values
  <2>2. ASSUME NEW i \in 1..n, i - 1 \in S PROVE i \in S
    <3>1. CASE i < k
      <4>1. t[i] = s[i] /\ g[i - 1] = f[i - 1]
        BY <2>2, <3>1 DEF Carries
      <4>2. g[i] = f[i]
        BY <1>5, <4>1, Zenon
      <4> QED
        BY <3>1, <4>2
    <3>2. CASE i = k
      <4>1. t[i] = s[i] + 1 /\ g[i - 1] = f[i - 1]
        BY <1>8, <2>2, <3>2 DEF Carries
      <4>2. g[i] = f[i - 1] * Base + (s[i] + 1) /\ f[i] = f[i - 1] * Base + s[i]
        BY <1>5, <4>1, Zenon
      <4>3. \A x, d \in Nat : x * Base + (d + 1) = x * Base + d + 1
        BY <1>4
      <4>4. f[i - 1] * Base + (s[i] + 1) = f[i - 1] * Base + s[i] + 1
        BY <1>5, <4>3, Zenon
      <4>5. g[i] = f[i] + 1
        BY <4>2, <4>4, Zenon
      <4> QED
        BY <3>2, <4>5
    <3>3. CASE i > k
      <4>1. s[i] = Base - 1 /\ t[i] = 0 /\ g[i - 1] = f[i - 1] + 1
        BY <2>2, <3>3 DEF Carries
      <4>2. f[i - 1] * Base + (Base - 1) + 1 = g[i - 1] * Base
        <5>1. f[i - 1] \in Nat /\ g[i - 1] \in Nat /\ f[i - 1] + 1 = g[i - 1]
          BY <1>5, <4>1, Zenon
        <5> QED
          BY <1>6, <5>1, Zenon
      <4>3. f[i] = f[i - 1] * Base + (Base - 1) /\ g[i] = g[i - 1] * Base + 0
        BY <1>5, <4>1, Zenon
      <4>4. g[i - 1] * Base + 0 = g[i - 1] * Base
        <5>1. \A x \in Nat : x * Base + 0 = x * Base
          BY <1>4
        <5> QED
          BY <1>5, <5>1, Zenon
      <4>5. g[i] = f[i] + 1
        BY <4>2, <4>3, <4>4, Zenon
      <4> QED
        BY <3>3, <4>5
    <3> QED
      BY <3>1, <3>2, <3>3
  <2>3. 0..n \subseteq S
    <3> HIDE DEF S
    <3> QED
      BY <2>1, <2>2, UpTo
  <2> QED
    BY <1>1, <1>2, <1>8, <2>3
<1> QED
  BY <1>7, <1>8

-----------------------------------------------------------------------------
(* The addresses.                                                           *)

\* What an ip::address can hold.
AnyAddress == V4Address \cup V6Address

\* How many addresses there are of a's type and scope.
Span(a) == Power(Base, Len(a.bytes))

\* How many bytes an address has.
LengthOf(a) == IF IsV4(a) THEN V4Len ELSE V6Len

\* The two lengths tell the types apart.
LEMMA LengthType == V4Len \in Nat /\ V6Len \in Nat /\ V4Len > 0 /\ V6Len > 0 /\ V4Len # V6Len
BY BytesAssumption DEF V4Len, V6Len

\* The parts of an IPv4 address.
LEMMA V4Is ==
  ASSUME NEW a \in V4Address
  PROVE  /\ IsV4(a) /\ a.type = "ipv4" /\ a.scope = 0
         /\ a.bytes \in [1..V4Len -> Byte] /\ Len(a.bytes) = V4Len
         /\ a = V4(a.bytes)
<1>1. a.type = "ipv4" /\ a.scope = 0 /\ a.bytes \in [1..V4Len -> Byte] /\ a = V4(a.bytes)
  BY DEF V4Address, V4
<1> QED
  BY <1>1, LenIs, LengthType DEF IsV4

\* The parts of an IPv6 address.
LEMMA V6Is ==
  ASSUME NEW a \in V6Address
  PROVE  /\ ~IsV4(a) /\ a.type = "ipv6" /\ a.scope \in Nat
         /\ a.bytes \in [1..V6Len -> Byte] /\ Len(a.bytes) = V6Len
         /\ a = V6(a.bytes, a.scope)
<1>1. a.type = "ipv6" /\ a.scope \in Nat /\ a.bytes \in [1..V6Len -> Byte] /\ a = V6(a.bytes, a.scope)
  BY DEF V6Address, V6
<1> QED
  BY <1>1, LenIs, LengthType DEF IsV4

\* Four bytes make an IPv4 address.
LEMMA V4Type ==
  ASSUME NEW s \in [1..V4Len -> Byte]
  PROVE  V4(s) \in V4Address /\ V4(s).bytes = s
BY DEF V4, V4Address

\* Bytes and a scope make an IPv6 address.
LEMMA V6Type ==
  ASSUME NEW s \in [1..V6Len -> Byte], NEW scope \in Nat
  PROVE  V6(s, scope) \in V6Address /\ V6(s, scope).bytes = s /\ V6(s, scope).scope = scope
BY DEF V6, V6Address

\* What is known of any address.
LEMMA AddressIs ==
  ASSUME NEW a \in AnyAddress
  PROVE  /\ a.scope \in Nat /\ LengthOf(a) \in Nat
         /\ a.bytes \in [1..LengthOf(a) -> Byte] /\ Len(a.bytes) = LengthOf(a)
         /\ IsV4(a) <=> a \in V4Address
         /\ ~IsV4(a) <=> a \in V6Address
         /\ Number(a.bytes) \in Nat /\ Number(a.bytes) < Span(a)
         /\ Span(a) = Power(Base, LengthOf(a)) /\ Span(a) \in Nat \ {0}
<1>1. /\ a.scope \in Nat /\ LengthOf(a) \in Nat
      /\ a.bytes \in [1..LengthOf(a) -> Byte] /\ Len(a.bytes) = LengthOf(a)
      /\ IsV4(a) <=> a \in V4Address
      /\ ~IsV4(a) <=> a \in V6Address
  <2>1. CASE a \in V4Address
    BY <2>1, V4Is, V6Is, LengthType DEF LengthOf
  <2>2. CASE a \in V6Address
    BY <2>2, V4Is, V6Is, LengthType DEF LengthOf
  <2> QED
    BY <2>1, <2>2 DEF AnyAddress
<1> QED
  BY <1>1, NumberBound, Zenon DEF Span

\* An address is its type, its number and its scope.
LEMMA SameAddress ==
  ASSUME NEW a \in AnyAddress, NEW b \in AnyAddress,
         a.type = b.type, a.scope = b.scope, Number(a.bytes) = Number(b.bytes)
  PROVE  a = b
<1>1. IsV4(a) <=> IsV4(b)
  BY DEF IsV4
<1>2. LengthOf(a) = LengthOf(b)
  BY <1>1 DEF LengthOf
<1>3. a.bytes = b.bytes
  BY <1>2, AddressIs, NumberOrder
<1>4. CASE IsV4(a)
  BY <1>1, <1>3, <1>4, AddressIs, V4Is
<1>5. CASE ~IsV4(a)
  BY <1>1, <1>3, <1>5, AddressIs, V6Is
<1> QED
  BY <1>4, <1>5

\* The least and the greatest of a set of places.
LEMMA BiggestIs ==
  ASSUME NEW n \in Nat, NEW S \in SUBSET (0..n), S # {}
  PROVE  Biggest(S) \in S /\ \A i \in S : i <= Biggest(S)
<1> DEFINE T == {n - i : i \in S}
<1>1. T \in SUBSET Nat /\ T # {}
  <2>1. \A i \in S : n - i \in Nat
    OBVIOUS
  <2> QED
    BY <2>1, Zenon
<1>2. PICK m \in T : \A k \in T : m <= k
  <2> HIDE DEF T
  <2> QED
    BY <1>1, LeastOf
<1>3. PICK i \in S : m = n - i
  BY <1>2
<1>4. \A j \in S : j <= i
  <2> SUFFICES ASSUME NEW j \in S PROVE j <= i
    OBVIOUS
  <2>1. m <= n - j
    BY <1>2
  <2> QED
    BY <1>3, <2>1
<1> QED
  BY <1>4 DEF Biggest

\* address_v4(uint_type) makes the address that has the number.
LEMMA FromNumberIs ==
  ASSUME NEW m \in Nat, m < Words
  PROVE  FromNumber(m) \in V4Address /\ Number(FromNumber(m).bytes) = m
<1>1. FromNumber(m) = V4(Digits(m, V4Len))
  BY DEF FromNumber, Digits
<1>2. Digits(m, V4Len) \in [1..V4Len -> Byte] /\ Number(Digits(m, V4Len)) = m
  BY NumberOfDigits, LengthType DEF Words
<1> QED
  BY <1>1, <1>2, V4Type

\* There is at least one word.
LEMMA WordsType == Words \in Nat \ {0}
BY PowerType, BaseType, LengthType DEF Words

\* One number up and one down, around.
LEMMA Around ==
  ASSUME NEW p \in Nat \ {0}, NEW x \in Nat, x < p
  PROVE  /\ (x + 1) % p = IF x + 1 = p THEN 0 ELSE x + 1
         /\ (x - 1) % p = IF x = 0 THEN p - 1 ELSE x - 1
<1>1. x + 1 = p => (x + 1) % p = 0
  OBVIOUS
<1>2. x + 1 # p => (x + 1) % p = x + 1
  OBVIOUS
<1>3. x # 0 => (x - 1) % p = x - 1
  OBVIOUS
<1>4. x = 0 => (x - 1) % p = p - 1
  <2>1. p - 1 \in 0..(p - 1) /\ (-1) * p + (p - 1) = -1
    OBVIOUS
  <2>2. ((-1) * p + (p - 1)) % p = p - 1
    BY <2>1, DivisionOf
  <2>3. x = 0 => x - 1 = -1
    OBVIOUS
  <2> QED
    BY <2>1, <2>2, <2>3, Zenon
<1> QED
  BY <1>1, <1>2, <1>3, <1>4

\* b has the type and the scope of a and the number n.
Numbered(b, a, n) ==
  /\ b \in AnyAddress /\ b.type = a.type /\ b.scope = a.scope
  /\ Number(b.bytes) = n

\* A byte is a number below Base.
LEMMA BytesAre ==
  ASSUME NEW n \in Nat, NEW s \in [1..n -> Byte]
  PROVE  \A i \in 1..n : s[i] \in Nat /\ s[i] < Base
BY BaseType DEF Byte

\* The bytes of the two iterators' steps in the carries of one another.
LEMMA CarrySteps ==
  ASSUME NEW a \in V6Address
  PROVE  /\ Increment(a) \in V6Address /\ Increment(a).scope = a.scope
         /\ \E k \in 0..V6Len : Carries(a.bytes, Increment(a).bytes, V6Len, k)
         /\ Decrement(a) \in V6Address /\ Decrement(a).scope = a.scope
         /\ \E k \in 0..V6Len : Carries(Decrement(a).bytes, a.bytes, V6Len, k)
<1>1. /\ a.bytes \in [1..V6Len -> Byte] /\ a.scope \in Nat /\ ~IsV4(a)
      /\ a = V6(a.bytes, a.scope)
  BY V6Is
<1>2. \A i \in 1..V6Len : a.bytes[i] \in Nat /\ a.bytes[i] < Base
  BY <1>1, BytesAre, LengthType, Zenon
<1>3. V6Len \in Nat
  BY LengthType
<1>4. /\ Increment(a) \in V6Address /\ Increment(a).scope = a.scope
      /\ \E k \in 0..V6Len : Carries(a.bytes, Increment(a).bytes, V6Len, k)
  <2> DEFINE S == {0} \cup {i \in 1..V6Len : a.bytes[i] < Base - 1}
             k == Biggest(S)
             t == [i \in 1..V6Len |->
                     IF i < k THEN a.bytes[i] ELSE IF i = k THEN a.bytes[i] + 1 ELSE 0]
  <2>1. S \in SUBSET (0..V6Len) /\ S # {}
    BY <1>3
  <2>2. k \in S /\ \A i \in S : i <= k
    <3> HIDE DEF S
    <3> QED
      BY <1>3, <2>1, BiggestIs
  <2>3. Increment(a) = V6(t, a.scope)
    <3>1. Increment(a) = [a EXCEPT !.bytes = t]
      BY <1>1, Zenon DEF Increment
    <3> HIDE DEF t
    <3>2. [a EXCEPT !.bytes = t] = V6(t, a.scope)
      BY DEF V6, V6Address
    <3> QED
      BY <3>1, <3>2
  <2>4. k \in 0..V6Len /\ \A i \in 1..V6Len : a.bytes[i] < Base - 1 => i <= k
    BY <2>1, <2>2
  <2>5. k > 0 => a.bytes[k] < Base - 1
    <3> HIDE DEF k
    <3> QED
      BY <2>2
  <2> HIDE DEF S, k
  <2>6. t \in [1..V6Len -> Byte]
    <3>1. \A i \in 1..V6Len : t[i] \in Byte
      BY <1>2, <2>4, <2>5, BaseType DEF Byte
    <3> QED
      BY <3>1
  <2>7. Carries(a.bytes, t, V6Len, k)
    BY <1>2, <2>4, <2>5, BaseType DEF Carries
  <2> HIDE DEF t
  <2> QED
    BY <1>1, <2>3, <2>4, <2>6, <2>7, V6Type
<1>5. /\ Decrement(a) \in V6Address /\ Decrement(a).scope = a.scope
      /\ \E k \in 0..V6Len : Carries(Decrement(a).bytes, a.bytes, V6Len, k)
  <2> DEFINE S == {0} \cup {i \in 1..V6Len : a.bytes[i] > 0}
             k == Biggest(S)
             t == [i \in 1..V6Len |->
                     IF i < k THEN a.bytes[i] ELSE IF i = k THEN a.bytes[i] - 1 ELSE Base - 1]
  <2>1. S \in SUBSET (0..V6Len) /\ S # {}
    BY <1>3
  <2>2. k \in S /\ \A i \in S : i <= k
    <3> HIDE DEF S
    <3> QED
      BY <1>3, <2>1, BiggestIs
  <2>3. Decrement(a) = V6(t, a.scope)
    <3>1. Decrement(a) = [a EXCEPT !.bytes = t]
      BY <1>1, Zenon DEF Decrement
    <3> HIDE DEF t
    <3>2. [a EXCEPT !.bytes = t] = V6(t, a.scope)
      BY DEF V6, V6Address
    <3> QED
      BY <3>1, <3>2
  <2>4. k \in 0..V6Len /\ \A i \in 1..V6Len : a.bytes[i] > 0 => i <= k
    BY <2>1, <2>2
  <2>5. k > 0 => a.bytes[k] > 0
    BY <2>2
  <2> HIDE DEF S, k
  <2>6. t \in [1..V6Len -> Byte]
    <3>1. \A i \in 1..V6Len : t[i] \in Byte
      BY <1>2, <2>4, <2>5, BaseType DEF Byte
    <3> QED
      BY <3>1
  <2>7. Carries(t, a.bytes, V6Len, k)
    BY <1>2, <2>4, <2>5, BaseType DEF Carries
  <2> HIDE DEF t
  <2> QED
    BY <1>1, <2>3, <2>4, <2>6, <2>7, V6Type
<1> QED
  BY <1>4, <1>5

\* operator++ and operator-- go to the next number and to the one before.
LEMMA StepIs ==
  ASSUME NEW a \in AnyAddress
  PROVE  /\ Numbered(Increment(a), a, (Number(a.bytes) + 1) % Span(a))
         /\ Numbered(Decrement(a), a, (Number(a.bytes) - 1) % Span(a))
<1> DEFINE x == Number(a.bytes)
           p == Span(a)
<1>0. x \in Nat /\ x < p /\ p \in Nat \ {0}
  BY AddressIs
<1>1. CASE IsV4(a)
  <2>1. a \in V4Address /\ a.type = "ipv4" /\ a.scope = 0 /\ p = Words
    BY <1>1, AddressIs, V4Is DEF Span, Words
  <2>2. (x + 1) % p \in Nat /\ (x + 1) % p < p /\ (x - 1) % p \in Nat /\ (x - 1) % p < p
    <3> HIDE DEF x, p
    <3> QED
      BY <1>0
  <2>3. Increment(a) = FromNumber((x + 1) % p) /\ Decrement(a) = FromNumber((x - 1) % p)
    BY <1>1, <2>1 DEF Increment, Decrement
  <2> HIDE DEF x, p
  <2>4. ASSUME NEW m \in Nat, m < p PROVE Numbered(FromNumber(m), a, m)
    <3>1. FromNumber(m) \in V4Address /\ Number(FromNumber(m).bytes) = m
      BY <2>1, <2>4, FromNumberIs
    <3> QED
      BY <2>1, <3>1, V4Is DEF Numbered, AnyAddress
  <2> QED
    BY <2>2, <2>3, <2>4 DEF x, p
<1>2. CASE ~IsV4(a)
  <2>1. a \in V6Address /\ a.bytes \in [1..V6Len -> Byte] /\ p = Power(Base, V6Len)
    BY <1>2, AddressIs, V6Is DEF Span
  <2>2. Numbered(Increment(a), a, (x + 1) % p)
    <3> DEFINE b == Increment(a)
    <3>1. /\ b \in V6Address /\ b.scope = a.scope /\ b.type = a.type
          /\ b.bytes \in [1..V6Len -> Byte]
      BY <2>1, CarrySteps, V6Is
    <3>2. PICK k \in 0..V6Len : Carries(a.bytes, b.bytes, V6Len, k)
      BY <2>1, CarrySteps
    <3>3. Number(b.bytes) < p /\ Number(b.bytes) \in Nat
      BY <2>1, <3>1, NumberBound, LengthType
    <3> HIDE DEF b
    <3>4. IF k = 0 THEN x + 1 = p /\ Number(b.bytes) = 0 ELSE Number(b.bytes) = x + 1
      BY <2>1, <3>1, <3>2, CarryAdds, LengthType
    <3> HIDE DEF x, p
    <3>5. Number(b.bytes) = (x + 1) % p
      BY <1>0, <3>3, <3>4, Around
    <3> QED
      BY <3>1, <3>5 DEF Numbered, AnyAddress, b
  <2>3. Numbered(Decrement(a), a, (x - 1) % p)
    <3> DEFINE b == Decrement(a)
    <3>1. /\ b \in V6Address /\ b.scope = a.scope /\ b.type = a.type
          /\ b.bytes \in [1..V6Len -> Byte]
      BY <2>1, CarrySteps, V6Is
    <3>2. PICK k \in 0..V6Len : Carries(b.bytes, a.bytes, V6Len, k)
      BY <2>1, CarrySteps
    <3>3. Number(b.bytes) < p /\ Number(b.bytes) \in Nat
      BY <2>1, <3>1, NumberBound, LengthType
    <3> HIDE DEF b
    <3>4. IF k = 0 THEN Number(b.bytes) + 1 = p /\ x = 0 ELSE x = Number(b.bytes) + 1
      BY <2>1, <3>1, <3>2, CarryAdds, LengthType
    <3> HIDE DEF x, p
    <3>5. Number(b.bytes) = (x - 1) % p
      BY <1>0, <3>3, <3>4, Around
    <3> QED
      BY <3>1, <3>5 DEF Numbered, AnyAddress, b
  <2> QED
    BY <2>2, <2>3
<1> QED
  BY <1>1, <1>2

-----------------------------------------------------------------------------
(* The ranges.                                                              *)

\* The order of addresses of one type is that of their numbers, then scopes.
LEMMA LessIs ==
  ASSUME NEW a \in AnyAddress, NEW b \in AnyAddress, a.type = b.type
  PROVE  /\ Less(a, b) <=> \/ Number(a.bytes) < Number(b.bytes)
                           \/ Number(a.bytes) = Number(b.bytes) /\ a.scope < b.scope
         /\ Span(a) = Span(b)
<1>1. (IsV4(a) <=> IsV4(b)) /\ LengthOf(a) = LengthOf(b)
  BY DEF IsV4, LengthOf
<1>2. Span(a) = Span(b)
  BY <1>1, AddressIs
<1>3. CASE IsV4(a)
  <2>1. a.scope = 0 /\ b.scope = 0
    BY <1>1, <1>3, AddressIs, V4Is
  <2> QED
    BY <1>1, <1>2, <1>3, <2>1 DEF Less
<1>4. CASE ~IsV4(a)
  <2>1. /\ BytesLess(a.bytes, b.bytes) <=> Number(a.bytes) < Number(b.bytes)
        /\ a.bytes = b.bytes <=> Number(a.bytes) = Number(b.bytes)
    <3>1. /\ LengthOf(a) \in Nat
          /\ a.bytes \in [1..LengthOf(a) -> Byte] /\ b.bytes \in [1..LengthOf(a) -> Byte]
      BY <1>1, AddressIs
    <3> QED
      BY <3>1, NumberOrder, Zenon
  <2> QED
    BY <1>1, <1>2, <1>4, <2>1, Zenon DEF Less
<1> QED
  BY <1>3, <1>4

\* Both ends of a range are addresses of one type.
LEMMA RangeIs ==
  ASSUME NEW r \in Ranges
  PROVE  /\ r.begin \in AnyAddress /\ r.end \in AnyAddress /\ r.begin.type = r.end.type
         /\ IsV4(r.begin) => r.begin \in V4Address /\ r.end \in V4Address
<1>1. CASE r \in [begin : V4Address, end : V4Address]
  BY <1>1, V4Is DEF AnyAddress
<1>2. CASE r \in [begin : V6Address, end : V6Address]
  BY <1>2, V6Is DEF AnyAddress
<1> QED
  BY <1>1, <1>2, RangesAssumption

\* A loop stays among the addresses of one type and scope, and steps counts how
\* far it is, around.
Placed ==
  /\ at.type = range.begin.type /\ from.type = range.begin.type /\ at.scope = from.scope
  /\ \A a \in visited : a.type = from.type /\ a.scope = from.scope
  /\ Number(at.bytes) = (Number(from.bytes) + steps) % Span(from)

\* From the begin of a range whose ends are in order it does not go around: it
\* has seen all from there to where it is, and nothing from the end on.
Swept ==
  Ordered(range) /\ from = range.begin =>
    /\ Number(at.bytes) = Number(from.bytes) + steps
    /\ Number(at.bytes) <= Number(range.end.bytes)
    /\ \A a \in AnyAddress :
         /\ a.type = from.type /\ a.scope = from.scope
         /\ Number(from.bytes) <= Number(a.bytes) /\ Number(a.bytes) < Number(at.bytes)
         => a \in visited
    /\ \A a \in visited : /\ Number(from.bytes) <= Number(a.bytes)
                          /\ Number(a.bytes) < Number(range.end.bytes)

\* What holds of range, at, from, visited, steps and back in every state.
RangeInv == RangeTypeOK /\ Placed /\ Swept

\* The numbers of a range whose ends are in order.
LEMMA OrderedIs ==
  ASSUME NEW r \in Ranges, Ordered(r)
  PROVE  Number(r.begin.bytes) <= Number(r.end.bytes) /\ r.begin.scope = r.end.scope
<1>1. ~Less(r.end, r.begin) /\ r.begin.scope = r.end.scope
  BY DEF Ordered
<1> QED
  BY <1>1, RangeIs, LessIs, AddressIs

\* A loop that has just started.
Started ==
  /\ range \in Ranges
  /\ at \in AnyAddress /\ at.type = range.begin.type /\ from = at
  /\ visited = {} /\ steps = 0 /\ back = 0

\* A loop that has just started is where it should be.
LEMMA StartIs == Started => RangeInv
<1> SUFFICES ASSUME Started PROVE RangeInv
  OBVIOUS
<1>1. RangeTypeOK
  BY RangesAssumption DEF RangeTypeOK, AnyAddress, Started
<1>2. /\ Number(at.bytes) \in Nat /\ Number(at.bytes) < Span(at) /\ Span(at) \in Nat \ {0}
      /\ at = from /\ visited = {} /\ steps = 0
  BY AddressIs DEF Started
<1>3. Number(at.bytes) = (Number(from.bytes) + steps) % Span(from)
  <2>1. \A x \in Nat, p \in Nat \ {0} : x < p => (x + 0) % p = x
    OBVIOUS
  <2> QED
    BY <1>2, <2>1
<1>4. Placed
  BY <1>2, <1>3 DEF Placed, Started
<1>5. Swept
  <2>1. Ordered(range) => Number(range.begin.bytes) <= Number(range.end.bytes)
    BY OrderedIs DEF Started
  <2>2. \A a \in AnyAddress : Number(a.bytes) \in Nat
    BY AddressIs
  <2> QED
    BY <1>2, <2>1, <2>2 DEF Swept
<1> QED
  BY <1>1, <1>4, <1>5 DEF RangeInv

\* So is the one the program starts with,
LEMMA RangeInitially == RangeInit => RangeInv
BY StartIs, RangeIs DEF RangeInit, Started

\* and the one that a step starts.
LEMMA RangeStarts == Started' => RangeInv'
BY StartIs, PTL

\* Where the loop is, as numbers.
LEMMA WhereAt ==
  ASSUME RangeInv
  PROVE  /\ at \in AnyAddress /\ from \in AnyAddress /\ range \in Ranges
         /\ steps \in Nat /\ visited \in SUBSET AnyAddress
         /\ Number(at.bytes) \in Nat /\ Number(from.bytes) \in Nat
         /\ Number(at.bytes) < Span(from) /\ Span(at) = Span(from) /\ Span(from) \in Nat \ {0}
         /\ at.type = from.type /\ at.scope = from.scope
<1>1. /\ at \in AnyAddress /\ from \in AnyAddress /\ range \in Ranges
      /\ steps \in Nat /\ visited \in SUBSET AnyAddress
      /\ at.type = from.type /\ at.scope = from.scope
  BY RangesAssumption DEF RangeInv, RangeTypeOK, AnyAddress, Placed
<1> QED
  BY <1>1, LessIs, AddressIs

\* ++ and -- keep the count of steps right.
LEMMA StepPlaced ==
  ASSUME NEW p \in Nat \ {0}, NEW f \in Nat, NEW s \in Nat
  PROVE  /\ (((f + s) % p) + 1) % p = (f + (s + 1)) % p
         /\ (((f + s) % p) - 1) % p = (f + (s - 1)) % p
<1>0. f + s \in Int /\ 1 \in Int /\ -1 \in Int
  OBVIOUS
<1>1. (((f + s) % p) + 1) % p = ((f + s) + 1) % p
  BY <1>0, RemainderOfSum, Zenon
<1>2. (((f + s) % p) + (-1)) % p = ((f + s) + (-1)) % p
  BY <1>0, RemainderOfSum, Zenon
<1>3. /\ (f + s) + 1 = f + (s + 1) /\ (f + s) + (-1) = f + (s - 1)
      /\ ((f + s) % p) + (-1) = ((f + s) % p) - 1
  OBVIOUS
<1> QED
  BY <1>1, <1>2, <1>3, Zenon

\* The increment of a loop, with its carry, keeps the invariant.
LEMMA VisitKeeps == RangeInv /\ Visit => RangeInv'
<1> SUFFICES ASSUME RangeInv, Visit PROVE RangeInv'
  OBVIOUS
<1> DEFINE x == Number(at.bytes)
           f == Number(from.bytes)
           p == Span(from)
<1>1. /\ at \in AnyAddress /\ from \in AnyAddress /\ range \in Ranges
      /\ steps \in Nat /\ visited \in SUBSET AnyAddress
      /\ x \in Nat /\ f \in Nat /\ x < p /\ Span(at) = p /\ p \in Nat \ {0}
      /\ at.type = from.type /\ at.scope = from.scope
  BY WhereAt
<1>2. Numbered(at', at, (x + 1) % p)
  BY <1>1, StepIs DEF Visit
<1>3. RangeTypeOK'
  BY <1>1, <1>2, RangesAssumption DEF RangeInv, RangeTypeOK, Visit, Numbered, AnyAddress
<1>4. Placed'
  <2>1. x = (f + steps) % p
    BY DEF RangeInv, Placed
  <2>2. (x + 1) % p = (f + (steps + 1)) % p
    <3> HIDE DEF x, f, p
    <3> QED
      BY <1>1, <2>1, StepPlaced
  <2>3. Number(at'.bytes) = (f + steps') % p
    BY <1>2, <2>2, Zenon DEF Numbered, Visit
  <2>4. at'.type = at.type /\ at'.scope = at.scope
    BY <1>2 DEF Numbered
  <2>5. \A a \in visited' : a.type = from.type /\ a.scope = from.scope
    BY <1>1 DEF Visit, RangeInv, Placed
  <2> QED
    BY <1>1, <2>3, <2>4, <2>5, Zenon DEF Visit, RangeInv, Placed
<1>5. Swept'
  <2> SUFFICES ASSUME Ordered(range), from = range.begin
               PROVE  /\ Number(at'.bytes) = f + (steps + 1)
                      /\ Number(at'.bytes) <= Number(range.end.bytes)
                      /\ \A a \in AnyAddress :
                           /\ a.type = from.type /\ a.scope = from.scope
                           /\ f <= Number(a.bytes) /\ Number(a.bytes) < Number(at'.bytes)
                           => a \in visited'
                      /\ \A a \in visited' : /\ f <= Number(a.bytes)
                                             /\ Number(a.bytes) < Number(range.end.bytes)
    BY DEF Swept, Visit
  <2> DEFINE e == Number(range.end.bytes)
  <2>1. /\ x = f + steps /\ x <= e
        /\ \A a \in AnyAddress :
             a.type = from.type /\ a.scope = from.scope /\ f <= Number(a.bytes) /\ Number(a.bytes) < x
             => a \in visited
        /\ \A a \in visited : f <= Number(a.bytes) /\ Number(a.bytes) < e
    BY DEF RangeInv, Swept
  <2>2. /\ range.end \in AnyAddress /\ range.end.type = at.type /\ range.end.scope = at.scope
        /\ e \in Nat /\ e < p
    BY <1>1, RangeIs, OrderedIs, AddressIs, LessIs
  <2>3. x < e
    <3>1. x # e
      BY <1>1, <2>2, SameAddress DEF Visit
    <3> HIDE DEF x, e
    <3> QED
      BY <1>1, <2>1, <2>2, <3>1
  <2>4. Number(at'.bytes) = x + 1
    <3>1. (x + 1) % p = x + 1
      <4> HIDE DEF x, e, p
      <4> QED
        BY <1>1, <2>2, <2>3
    <3> QED
      BY <1>2, <3>1 DEF Numbered
  <2>5. ASSUME NEW a \in AnyAddress, a.type = from.type, a.scope = from.scope,
               f <= Number(a.bytes), Number(a.bytes) < x + 1
        PROVE  a \in visited'
    <3>1. Number(a.bytes) \in Nat
      BY AddressIs
    <3>2. CASE Number(a.bytes) < x
      BY <2>1, <2>5, <3>2 DEF Visit
    <3>3. CASE Number(a.bytes) = x
      BY <1>1, <2>5, <3>3, SameAddress DEF Visit
    <3> HIDE DEF x
    <3> QED
      BY <1>1, <2>5, <3>1, <3>2, <3>3
  <2>6. \A a \in visited' : a = at \/ a \in visited
    BY DEF Visit
  <2>7. f <= x
    <3> HIDE DEF x, f
    <3> QED
      BY <1>1, <2>1
  <2> HIDE DEF e
  <2>8. Number(at'.bytes) = f + (steps + 1) /\ Number(at'.bytes) <= e
    <3> HIDE DEF x, f, e
    <3> QED
      BY <1>1, <2>1, <2>2, <2>3, <2>4
  <2>9. \A a \in visited' : f <= Number(a.bytes) /\ Number(a.bytes) < e
    BY <2>1, <2>3, <2>6, <2>7
  <2> QED
    BY <2>4, <2>5, <2>8, <2>9 DEF e
<1> QED
  BY <1>3, <1>4, <1>5 DEF RangeInv

\* The decrement of a loop, with its borrow, keeps the invariant.
LEMMA RetreatKeeps == RangeInv /\ Retreat => RangeInv'
<1> SUFFICES ASSUME RangeInv, Retreat PROVE RangeInv'
  OBVIOUS
<1> DEFINE x == Number(at.bytes)
           f == Number(from.bytes)
           p == Span(from)
<1>1. /\ at \in AnyAddress /\ from \in AnyAddress /\ range \in Ranges
      /\ steps \in Nat /\ steps > 0 /\ visited \in SUBSET AnyAddress
      /\ x \in Nat /\ f \in Nat /\ x < p /\ Span(at) = p /\ p \in Nat \ {0}
      /\ at.type = from.type /\ at.scope = from.scope
  BY WhereAt DEF Retreat
<1>2. Numbered(at', at, (x - 1) % p)
  BY <1>1, StepIs DEF Retreat
<1>3. RangeTypeOK'
  BY <1>1, <1>2, RangesAssumption DEF RangeInv, RangeTypeOK, Retreat, Numbered, AnyAddress
<1>4. Placed'
  <2>1. x = (f + steps) % p
    BY DEF RangeInv, Placed
  <2>2. (x - 1) % p = (f + (steps - 1)) % p
    <3> HIDE DEF x, f, p
    <3> QED
      BY <1>1, <2>1, StepPlaced
  <2>3. Number(at'.bytes) = (f + steps') % p
    BY <1>2, <2>2, Zenon DEF Numbered, Retreat
  <2>4. at'.type = at.type /\ at'.scope = at.scope
    BY <1>2 DEF Numbered
  <2> QED
    BY <1>1, <2>3, <2>4, Zenon DEF Retreat, RangeInv, Placed
<1>5. Swept'
  <2> SUFFICES ASSUME Ordered(range), from = range.begin
               PROVE  /\ Number(at'.bytes) = f + (steps - 1)
                      /\ Number(at'.bytes) <= Number(range.end.bytes)
                      /\ \A a \in AnyAddress :
                           /\ a.type = from.type /\ a.scope = from.scope
                           /\ f <= Number(a.bytes) /\ Number(a.bytes) < Number(at'.bytes)
                           => a \in visited
                      /\ \A a \in visited : /\ f <= Number(a.bytes)
                                            /\ Number(a.bytes) < Number(range.end.bytes)
    BY DEF Swept, Retreat
  <2> DEFINE e == Number(range.end.bytes)
  <2>1. /\ x = f + steps /\ x <= e
        /\ \A a \in AnyAddress :
             a.type = from.type /\ a.scope = from.scope /\ f <= Number(a.bytes) /\ Number(a.bytes) < x
             => a \in visited
        /\ \A a \in visited : f <= Number(a.bytes) /\ Number(a.bytes) < e
    BY DEF RangeInv, Swept
  <2>2. e \in Nat
    BY <1>1, RangeIs, AddressIs
  <2>3. \A a \in AnyAddress : Number(a.bytes) \in Nat
    BY AddressIs
  <2>4. Number(at'.bytes) = x - 1
    <3>1. (x - 1) % p = x - 1
      <4> HIDE DEF x, f, p
      <4>1. x # 0
        BY <1>1, <2>1
      <4> QED
        BY <1>1, <4>1, Around
    <3> QED
      BY <1>2, <3>1 DEF Numbered
  <2>5. \A n \in Nat : n < x - 1 => n < x
    <3> HIDE DEF x
    <3> QED
      BY <1>1
  <2>6. Number(at'.bytes) = f + (steps - 1) /\ Number(at'.bytes) <= e
    <3> HIDE DEF x, f, e
    <3> QED
      BY <1>1, <2>1, <2>2, <2>4
  <2> HIDE DEF x, f, e
  <2>7. \A a \in AnyAddress : Number(a.bytes) < Number(at'.bytes) => Number(a.bytes) < x
    BY <2>3, <2>4, <2>5, Zenon
  <2> QED
    BY <2>1, <2>6, <2>7, Zenon DEF e
<1> QED
  BY <1>3, <1>4, <1>5 DEF RangeInv

\* Sizes add up, around.
LEMMA SizesAdd ==
  ASSUME NEW p \in Nat \ {0}, NEW f \in Nat, NEW s \in Nat, NEW e \in Nat
  PROVE  (e - f) % p = (s + ((e - ((f + s) % p)) % p)) % p
<1> DEFINE x == (f + s) % p
           q == (f + s) \div p
<1>1. q \in Int /\ x \in Int /\ f + s = q * p + x
  BY Division
<1>2. (s + ((e - x) % p)) % p = (s + (e - x)) % p
  <2>1. e - x \in Int /\ (e - x) % p \in Int
    <3> HIDE DEF x
    <3> QED
      BY <1>1
  <2>2. (((e - x) % p) + s) % p = ((e - x) + s) % p
    <3> HIDE DEF x
    <3> QED
      BY <2>1, RemainderOfSum
  <2>3. ((e - x) % p) + s = s + ((e - x) % p) /\ (e - x) + s = s + (e - x)
    <3>1. \A u, v \in Int : u + v = v + u
      OBVIOUS
    <3> HIDE DEF x
    <3> QED
      BY <2>1, <3>1
  <2> QED
    BY <2>2, <2>3, Zenon
<1>3. s + (e - x) = (e - f) + q * p
  <2> HIDE DEF x, q
  <2> QED
    BY <1>1
<1>4. ((e - f) + q * p) % p = (e - f) % p
  <2> DEFINE r == (e - f) % p
             t == (e - f) \div p
  <2>1. r \in 0..(p - 1) /\ t \in Int /\ e - f = t * p + r
    BY Division
  <2> HIDE DEF x, q, r, t
  <2>2. (e - f) + q * p = (t + q) * p + r
    <3>1. (t + q) * p = t * p + q * p
      BY <1>1, <2>1
    <3>2. q * p \in Int /\ t * p \in Int
      BY <1>1, <2>1
    <3> QED
      BY <2>1, <3>1, <3>2
  <2>3. t + q \in Int
    BY <1>1, <2>1
  <2>4. ((t + q) * p + r) % p = r
    BY <2>1, <2>3, DivisionOf
  <2> QED
    BY <2>2, <2>4, Zenon DEF r
<1> QED
  BY <1>2, <1>3, <1>4, Zenon

\* How far a loop has come.
LEMMA DistanceIs ==
  ASSUME RangeInv
  PROVE  Distance(from, at) = steps % Span(at)
<1> DEFINE f == Number(from.bytes)
           p == Span(from)
<1>1. f \in Nat /\ steps \in Nat /\ p \in Nat \ {0} /\ Span(at) = p
  BY WhereAt
<1>2. Number(at.bytes) = (f + steps) % p
  BY DEF RangeInv, Placed
<1>3. Distance(from, at) = (((f + steps) % p) - f) % p
  BY <1>2 DEF Distance, Span
<1> HIDE DEF f, p
<1>4. f + steps \in Int /\ -f \in Int /\ (f + steps) % p \in Int
  BY <1>1
<1>5. (((f + steps) % p) + (-f)) % p = ((f + steps) + (-f)) % p
  BY <1>1, <1>4, RemainderOfSum
<1>6. /\ ((f + steps) % p) + (-f) = ((f + steps) % p) - f
      /\ (f + steps) + (-f) = steps
  <2>1. \A u \in Int : u + (-f) = u - f
    BY <1>1
  <2> QED
    BY <1>1, <1>4, <2>1
<1> QED
  BY <1>1, <1>3, <1>5, <1>6, Zenon

\* find() finds what lies from the begin up to the end.
LEMMA FindIs ==
  ASSUME NEW r \in Ranges, NEW a \in AnyAddress, a.type = r.begin.type
  PROVE  /\ Find(r, a) \in AnyAddress /\ Find(r, a).type = r.begin.type
         /\ Find(r, a) # r.end <=> ~Less(a, r.begin) /\ Less(a, r.end)
         /\ ~Less(a, r.begin) /\ Less(a, r.end) => Find(r, a) = a
<1>1. /\ r.begin \in AnyAddress /\ r.end \in AnyAddress /\ r.begin.type = r.end.type
  BY RangeIs
<1>2. Less(a, r.end) => a # r.end
  <2> SUFFICES ASSUME Less(a, r.end), a = r.end PROVE FALSE
    OBVIOUS
  <2>1. Less(a, a)
    BY Zenon
  <2>2. Number(a.bytes) \in Nat /\ a.scope \in Nat
    BY AddressIs
  <2> QED
    BY <2>1, <2>2, LessIs
<1> HIDE DEF Less
<1> QED
  BY <1>1, <1>2 DEF Find

\* A loop from the begin of an ordered range has seen what find() finds.
LEMMA AgreesSwept ==
  ASSUME RangeInv, Ordered(range), from = range.begin
  PROVE  /\ \A a \in visited : Find(range, a) = a /\ a # range.end
         /\ at = range.end =>
              \A r \in Ranges : \A a \in {r.begin, r.end} :
                /\ a.type = at.type /\ a.scope = at.scope
                /\ Find(range, a) # range.end
                => a \in visited
<1> DEFINE f == Number(from.bytes)
           e == Number(range.end.bytes)
<1>1. /\ at \in AnyAddress /\ from \in AnyAddress /\ range \in Ranges
      /\ visited \in SUBSET AnyAddress
      /\ at.type = from.type /\ at.scope = from.scope
  BY WhereAt
<1>2. /\ range.begin \in AnyAddress /\ range.end \in AnyAddress
      /\ range.end.type = range.begin.type /\ range.end.scope = range.begin.scope
      /\ f \in Nat /\ e \in Nat
  BY <1>1, RangeIs, OrderedIs, AddressIs
<1>3. ASSUME NEW a \in AnyAddress, a.type = from.type, a.scope = from.scope
      PROVE  ~Less(a, range.begin) /\ Less(a, range.end)
               <=> f <= Number(a.bytes) /\ Number(a.bytes) < e
  <2>1. /\ Less(a, range.begin) <=> \/ Number(a.bytes) < f
                                    \/ Number(a.bytes) = f /\ a.scope < range.begin.scope
        /\ Less(a, range.end) <=> \/ Number(a.bytes) < e
                                  \/ Number(a.bytes) = e /\ a.scope < range.end.scope
    BY <1>1, <1>2, <1>3, LessIs
  <2>2. a.scope \in Nat /\ Number(a.bytes) \in Nat
    BY AddressIs
  <2>3. ~(a.scope < range.begin.scope) /\ ~(a.scope < range.end.scope)
    BY <1>2, <1>3, <2>2
  <2> HIDE DEF f, e, Less
  <2> QED
    BY <1>2, <2>1, <2>2, <2>3
<1>4. ASSUME NEW a \in visited PROVE Find(range, a) = a /\ a # range.end
  <2>1. a \in AnyAddress /\ a.type = from.type /\ a.scope = from.scope
    BY <1>1 DEF RangeInv, Placed
  <2>2. f <= Number(a.bytes) /\ Number(a.bytes) < e
    BY DEF RangeInv, Swept
  <2>3. ~Less(a, range.begin) /\ Less(a, range.end)
    BY <1>3, <2>1, <2>2
  <2> QED
    BY <1>1, <2>1, <2>3, FindIs
<1>5. ASSUME at = range.end, NEW r \in Ranges, NEW a \in {r.begin, r.end},
             a.type = at.type, a.scope = at.scope, Find(range, a) # range.end
      PROVE  a \in visited
  <2>1. a \in AnyAddress
    BY RangeIs
  <2>2. ~Less(a, range.begin) /\ Less(a, range.end)
    BY <1>1, <1>5, <2>1, FindIs
  <2>3. f <= Number(a.bytes) /\ Number(a.bytes) < Number(at.bytes)
    BY <1>1, <1>3, <1>5, <2>1, <2>2
  <2> QED
    BY <1>1, <1>5, <2>1, <2>3 DEF RangeInv, Swept
<1> QED
  BY <1>4, <1>5

\* The invariant is enough for IterationAgrees.
LEMMA Agrees == RangeInv => IterationAgrees
<1> SUFFICES ASSUME RangeInv PROVE IterationAgrees
  OBVIOUS
<1>1. /\ at \in AnyAddress /\ from \in AnyAddress /\ range \in Ranges
      /\ steps \in Nat /\ at.type = from.type /\ at.scope = from.scope
      /\ Number(at.bytes) \in Nat /\ Number(from.bytes) \in Nat
      /\ Number(from.bytes) < Span(from) /\ Span(from) \in Nat \ {0}
  BY WhereAt, AddressIs
<1>2. /\ range.begin \in AnyAddress /\ range.end \in AnyAddress
      /\ range.end.type = range.begin.type /\ at.type = range.begin.type
      /\ Number(range.end.bytes) \in Nat
  BY <1>1, RangeIs, AddressIs DEF RangeInv, Placed
<1>3. IsV4(at) => Size([range EXCEPT !.begin = from])
                    = (steps + Size([range EXCEPT !.begin = at])) % Words
  <2> SUFFICES ASSUME IsV4(at)
               PROVE  Size([range EXCEPT !.begin = from])
                        = (steps + Size([range EXCEPT !.begin = at])) % Words
    OBVIOUS
  <2>1. Span(from) = Words
    <3>1. IsV4(from)
      BY <1>1 DEF IsV4
    <3> QED
      BY <1>1, <3>1, AddressIs, V4Is DEF Span, Words
  <2>2. range \in [begin : V4Address, end : V4Address]
                    \cup [begin : V6Address, end : V6Address]
    BY <1>1, RangesAssumption
  <2>3. /\ [range EXCEPT !.begin = from].begin = from /\ [range EXCEPT !.begin = from].end = range.end
        /\ [range EXCEPT !.begin = at].begin = at /\ [range EXCEPT !.begin = at].end = range.end
    BY <2>2
  <2> DEFINE f == Number(from.bytes)
             e == Number(range.end.bytes)
  <2>4. Size([range EXCEPT !.begin = from]) = (e - f) % Words
    BY <2>3 DEF Size
  <2>5. Size([range EXCEPT !.begin = at]) = (e - Number(at.bytes)) % Words
    BY <2>3 DEF Size
  <2>6. Number(at.bytes) = (f + steps) % Words
    BY <2>1 DEF RangeInv, Placed
  <2>7. (e - f) % Words = (steps + ((e - ((f + steps) % Words)) % Words)) % Words
    <3> HIDE DEF f, e
    <3>1. f \in Nat /\ e \in Nat
      BY <1>1, <1>2 DEF f, e
    <3>2. Words \in Nat \ {0} /\ steps \in Nat
      BY <1>1, WordsType
    <3> QED
      BY <3>1, <3>2, SizesAdd, Zenon
  <2> QED
    BY <2>4, <2>5, <2>6, <2>7, Zenon
<1>4. ASSUME steps = 0, from = range.begin PROVE IsEmpty(range) <=> at = range.end
  <2>1. at = from
    <3>1. Number(at.bytes) = (Number(from.bytes) + 0) % Span(from)
      BY <1>4 DEF RangeInv, Placed
    <3>2. \A x \in Nat, p \in Nat \ {0} : x < p => (x + 0) % p = x
      OBVIOUS
    <3>3. Number(at.bytes) = Number(from.bytes)
      BY <1>1, <3>1, <3>2, Zenon
    <3> QED
      BY <1>1, <3>3, SameAddress
  <2>2. CASE IsV4(range.begin)
    <3>1. range.begin \in V4Address /\ range.end \in V4Address
      BY <1>1, <2>2, RangeIs
    <3> DEFINE b == Number(range.begin.bytes)
               e == Number(range.end.bytes)
    <3>2. b \in Nat /\ e \in Nat /\ b < Words /\ e < Words /\ Words \in Nat \ {0}
      BY <3>1, V4Is, NumberBound, LengthType DEF Words
    <3>3. (e - b) % Words = 0 <=> e = b
      <4>1. \A p \in Nat \ {0}, u, v \in Nat :
              u < p /\ v < p => ((u - v) % p = 0 <=> u = v)
        <5> SUFFICES ASSUME NEW p \in Nat \ {0}, NEW u \in Nat, NEW v \in Nat, u < p, v < p
                     PROVE  (u - v) % p = 0 <=> u = v
          OBVIOUS
        <5>1. CASE u >= v
          BY <5>1
        <5>2. CASE u < v
          <6>1. (u - v) + p \in 0..(p - 1) /\ (-1) * p + ((u - v) + p) = u - v
            BY <5>2
          <6>2. ((-1) * p + ((u - v) + p)) % p = (u - v) + p
            BY <6>1, DivisionOf
          <6> QED
            BY <5>2, <6>1, <6>2
        <5> QED
          BY <5>1, <5>2
      <4> HIDE DEF b, e
      <4> QED
        BY <3>2, <4>1
    <3>4. e = b <=> range.begin = range.end
      BY <3>1, <1>2, SameAddress, V4Is DEF AnyAddress
    <3> QED
      BY <1>4, <2>1, <2>2, <3>3, <3>4 DEF IsEmpty, Size
  <2>3. CASE ~IsV4(range.begin)
    BY <1>4, <2>1, <2>3 DEF IsEmpty
  <2> QED
    BY <2>2, <2>3
<1>5. Distance(from, at) = steps % Power(Base, Len(at.bytes))
  BY DistanceIs DEF Span
<1> QED
  BY <1>3, <1>4, <1>5, AgreesSwept DEF IterationAgrees

-----------------------------------------------------------------------------
(* The endpoints.                                                           *)

\* The values of the union in basic_endpoint.
Unions == [family : {"AF_INET", "AF_INET6"}, port : Ports, w1 : [1..V4Len -> Byte],
           high : [1..Half -> Byte], low : [1..(V6Len - Half) -> Byte],
           scope : 0..(ScopeModulus - 1)]

\* Both parts of an IPv6 address in the union have bytes.
LEMMA HalfType == Half \in Nat /\ Half > 0 /\ Half < V6Len /\ V6Len - Half \in Nat
<1>1. \A n \in Nat : n > 1 => n \div 2 \in Nat /\ n \div 2 > 0 /\ n \div 2 < n
  OBVIOUS
<1>2. V6Len \in Nat /\ V6Len > 1
  BY BytesAssumption DEF V6Len, V4Len
<1>3. Half \in Nat /\ Half > 0 /\ Half < V6Len
  BY <1>1, <1>2 DEF Half
<1> QED
  BY <1>2, <1>3

\* The same byte over and over is bytes.
LEMMA SameType ==
  ASSUME NEW n \in Nat, NEW b \in Byte
  PROVE  Same(n, b) \in [1..n -> Byte]
BY DEF Same

\* The extremes of a byte.
LEMMA ZeroByte == 0 \in Byte /\ Base - 1 \in Byte
BY BaseType DEF Byte

\* Some of n bytes.
LEMMA PieceIs ==
  ASSUME NEW n \in Nat, NEW s \in [1..n -> Byte], NEW i \in 1..(n + 1), NEW j \in (i - 1)..n
  PROVE  /\ SubSeq(s, i, j) \in [1..(j - i + 1) -> Byte]
         /\ \A m \in 1..(j - i + 1) : SubSeq(s, i, j)[m] = s[i + m - 1]
<1> DEFINE t == SubSeq(s, i, j)
<1>1. \A m \in i..j : s[m] \in Byte
  OBVIOUS
<1>2. i \in Int /\ j \in Int
  OBVIOUS
<1>3. /\ t \in Seq(Byte) /\ Len(t) = (IF i <= j THEN j - i + 1 ELSE 0)
      /\ \A m \in 1..(j - i + 1) : t[m] = s[i + m - 1]
  BY <1>1, <1>2, SubSeqProperties
<1>4. t \in [1..Len(t) -> Byte]
  BY <1>3, LenProperties
<1>5. Len(t) = j - i + 1
  BY <1>3
<1> HIDE DEF t
<1> QED
  BY <1>3, <1>4, <1>5 DEF t

\* The two parts of n bytes.
LEMMA PartsType ==
  ASSUME NEW n \in Nat, NEW k \in 0..n, NEW s \in [1..n -> Byte]
  PROVE  /\ SubSeq(s, 1, k) \in [1..k -> Byte]
         /\ SubSeq(s, k + 1, n) \in [1..(n - k) -> Byte]
         /\ SubSeq(s, 1, k) \o SubSeq(s, k + 1, n) = s
<1>1. s \in Seq(Byte) /\ Len(s) = n
  BY LenIs
<1>2. SubSeq(s, 1, k) \in [1..k -> Byte]
  <2>1. 1 \in 1..(n + 1) /\ k \in (1 - 1)..n /\ k - 1 + 1 = k
    OBVIOUS
  <2>2. SubSeq(s, 1, k) \in [1..(k - 1 + 1) -> Byte]
    BY <2>1, PieceIs
  <2> QED
    BY <2>1, <2>2
<1>3. SubSeq(s, k + 1, n) \in [1..(n - k) -> Byte]
  <2>1. k + 1 \in 1..(n + 1) /\ n \in (k + 1 - 1)..n /\ n - (k + 1) + 1 = n - k
    OBVIOUS
  <2>2. SubSeq(s, k + 1, n) \in [1..(n - (k + 1) + 1) -> Byte]
    BY <2>1, PieceIs
  <2> QED
    BY <2>1, <2>2
<1>4. 1 \in 1..(n + 1) /\ k \in (1 - 1)..n /\ n \in k..n
  OBVIOUS
<1>5. SubSeq(s, 1, k) \o SubSeq(s, k + 1, n) = SubSeq(s, 1, n)
  BY <1>1, <1>4, ConcatAdjacentSubSeq
<1>6. SubSeq(s, 1, n) = s
  BY <1>1, SubSeqFull
<1> QED
  BY <1>2, <1>3, <1>5, <1>6

\* Two parts put together.
LEMMA JoinType ==
  ASSUME NEW n \in Nat, NEW k \in Nat, NEW s \in [1..n -> Byte], NEW t \in [1..k -> Byte]
  PROVE  /\ s \o t \in [1..(n + k) -> Byte]
         /\ SubSeq(s \o t, 1, n) = s /\ SubSeq(s \o t, n + 1, n + k) = t
<1>1. s \in Seq(Byte) /\ Len(s) = n /\ t \in Seq(Byte) /\ Len(t) = k
  BY LenIs
<1>2. s \o t \in Seq(Byte) /\ Len(s \o t) = n + k
  BY <1>1, ConcatProperties
<1>3. s \o t \in [1..(n + k) -> Byte]
  BY <1>2, LenProperties
<1>4. \A i \in 1..(n + k) : (s \o t)[i] = IF i <= n THEN s[i] ELSE t[i - n]
  BY <1>1, ConcatProperties
<1> DEFINE u == s \o t
<1> HIDE DEF u
<1>5. u \in [1..(n + k) -> Byte] /\ \A i \in 1..(n + k) : u[i] = IF i <= n THEN s[i] ELSE t[i - n]
  BY <1>3, <1>4 DEF u
<1>6. SubSeq(u, 1, n) = s
  <2>1. n + k \in Nat /\ 1 \in 1..(n + k + 1) /\ n \in (1 - 1)..(n + k) /\ n - 1 + 1 = n
    OBVIOUS
  <2>2. /\ SubSeq(u, 1, n) \in [1..(n - 1 + 1) -> Byte]
        /\ \A m \in 1..(n - 1 + 1) : SubSeq(u, 1, n)[m] = u[1 + m - 1]
    BY <1>5, <2>1, PieceIs
  <2> DEFINE v == SubSeq(u, 1, n)
  <2> HIDE DEF v
  <2>3. \A m \in 1..n : v[m] = u[m]
    BY <2>1, <2>2 DEF v
  <2>4. \A m \in 1..n : v[m] = s[m]
    BY <1>5, <2>3
  <2>5. v \in [1..n -> Byte]
    BY <2>1, <2>2 DEF v
  <2> QED
    BY <2>4, <2>5 DEF v
<1>7. SubSeq(u, n + 1, n + k) = t
  <2>1. /\ n + k \in Nat /\ n + 1 \in 1..(n + k + 1) /\ n + k \in (n + 1 - 1)..(n + k)
        /\ n + k - (n + 1) + 1 = k
    OBVIOUS
  <2>2. /\ SubSeq(u, n + 1, n + k) \in [1..(n + k - (n + 1) + 1) -> Byte]
        /\ \A m \in 1..(n + k - (n + 1) + 1) : SubSeq(u, n + 1, n + k)[m] = u[n + 1 + m - 1]
    BY <1>5, <2>1, PieceIs
  <2> DEFINE v == SubSeq(u, n + 1, n + k)
  <2> HIDE DEF v
  <2>3. \A m \in 1..k : v[m] = u[n + 1 + m - 1]
    BY <2>1, <2>2 DEF v
  <2>4. \A m \in 1..k : n + 1 + m - 1 \in 1..(n + k) /\ ~(n + 1 + m - 1 <= n) /\ n + 1 + m - 1 - n = m
    OBVIOUS
  <2>5. \A m \in 1..k : v[m] = t[m]
    BY <1>5, <2>3, <2>4
  <2>6. v \in [1..k -> Byte]
    BY <2>1, <2>2 DEF v
  <2> QED
    BY <2>5, <2>6 DEF v
<1> QED
  BY <1>3, <1>6, <1>7 DEF u

\* Every endpoint the program makes, and its address.
LEMMA MadeIs ==
  ASSUME NEW a \in AnyAddress, NEW n \in Ports
  PROVE  /\ AddressEndpoint(a, n) \in Unions
         /\ AddressEndpoint(a, n).port = n
         /\ HoldsV4(AddressEndpoint(a, n)) <=> IsV4(a)
         /\ a.scope < ScopeModulus => AddressOf(AddressEndpoint(a, n)) = a
<1>1. /\ Half \in 0..V6Len /\ V6Len \in Nat /\ V4Len \in Nat
      /\ ScopeModulus \in Nat \ {0}
  BY HalfType, LengthType, EndpointAssumption
<1>2. Any4 \in [1..V4Len -> Byte] /\ Any6 \in [1..V6Len -> Byte]
  BY <1>1, SameType, ZeroByte DEF Any4, Any6
<1>3. ASSUME NEW s \in [1..V6Len -> Byte]
      PROVE  High(s) \in [1..Half -> Byte] /\ Low(s) \in [1..(V6Len - Half) -> Byte] /\ High(s) \o Low(s) = s
  BY <1>1, PartsType DEF High, Low
<1>4. CASE IsV4(a)
  <2>1. a.bytes \in [1..V4Len -> Byte] /\ a = V4(a.bytes)
    BY <1>4, AddressIs, V4Is
  <2>2. AddressEndpoint(a, n) = [family |-> "AF_INET", port |-> n, w1 |-> a.bytes,
                                 high |-> High(Any6), low |-> Low(Any6), scope |-> 0]
    BY <1>4 DEF AddressEndpoint, InetData
  <2>3. High(Any6) \in [1..Half -> Byte] /\ Low(Any6) \in [1..(V6Len - Half) -> Byte]
    BY <1>2, <1>3
  <2>4. 0 \in 0..(ScopeModulus - 1)
    BY <1>1
  <2>5. AddressEndpoint(a, n) \in Unions
    BY <2>1, <2>2, <2>3, <2>4 DEF Unions
  <2>6. AddressEndpoint(a, n).port = n /\ AddressEndpoint(a, n).family = "AF_INET"
        /\ AddressEndpoint(a, n).w1 = a.bytes
    BY <2>2
  <2> QED
    BY <1>4, <2>1, <2>5, <2>6, Zenon DEF HoldsV4, AddressOf
<1>5. CASE ~IsV4(a)
  <2>1. a.bytes \in [1..V6Len -> Byte] /\ a = V6(a.bytes, a.scope) /\ a.scope \in Nat
    BY <1>5, AddressIs, V6Is
  <2>2. AddressEndpoint(a, n) = [family |-> "AF_INET6", port |-> n, w1 |-> Any4,
                                 high |-> High(a.bytes), low |-> Low(a.bytes),
                                 scope |-> a.scope % ScopeModulus]
    BY <1>5 DEF AddressEndpoint, Inet6Data
  <2>3. High(a.bytes) \in [1..Half -> Byte] /\ Low(a.bytes) \in [1..(V6Len - Half) -> Byte]
        /\ High(a.bytes) \o Low(a.bytes) = a.bytes
    BY <1>3, <2>1
  <2>4. /\ a.scope % ScopeModulus \in 0..(ScopeModulus - 1)
        /\ a.scope < ScopeModulus => a.scope % ScopeModulus = a.scope
    BY <1>1, <2>1
  <2>5. AddressEndpoint(a, n) \in Unions
    BY <1>2, <2>2, <2>3, <2>4 DEF Unions
  <2>6. /\ AddressEndpoint(a, n).port = n /\ AddressEndpoint(a, n).family = "AF_INET6"
        /\ AddressEndpoint(a, n).high = High(a.bytes) /\ AddressEndpoint(a, n).low = Low(a.bytes)
        /\ AddressEndpoint(a, n).scope = a.scope % ScopeModulus
    BY <2>2
  <2>7. ~HoldsV4(AddressEndpoint(a, n))
    BY <2>6 DEF HoldsV4
  <2> QED
    BY <1>5, <2>1, <2>3, <2>4, <2>5, <2>6, <2>7, Zenon DEF AddressOf
<1> QED
  BY <1>4, <1>5

\* A union holds an address.
LEMMA AddressOfType ==
  ASSUME NEW e \in Unions
  PROVE  AddressOf(e) \in AnyAddress
<1>1. CASE HoldsV4(e)
  <2>1. e.w1 \in [1..V4Len -> Byte]
    BY DEF Unions
  <2> QED
    BY <1>1, <2>1, V4Type DEF AddressOf, AnyAddress
<1>2. CASE ~HoldsV4(e)
  <2>1. e.high \in [1..Half -> Byte] /\ e.low \in [1..(V6Len - Half) -> Byte] /\ e.scope \in Nat
    BY EndpointAssumption DEF Unions
  <2>2. e.high \o e.low \in [1..(Half + (V6Len - Half)) -> Byte]
    BY <2>1, HalfType, JoinType
  <2>3. Half + (V6Len - Half) = V6Len
    BY HalfType, LengthType
  <2> QED
    BY <1>2, <2>1, <2>2, <2>3, V6Type DEF AddressOf, AnyAddress
<1> QED
  BY <1>1, <1>2

\* What the system wrote over the union, field by field.
LEMMA FilledFields ==
  ASSUME NEW e \in Unions, NEW s \in Unions, NEW bytes \in Nat
  PROVE  LET took(f) == End[f] <= Fewer(bytes, SizeOf(s))
         IN  Filled(e, s, bytes) =
               [family |-> IF took("family") THEN s.family ELSE e.family,
                port   |-> IF took("port") THEN s.port ELSE e.port,
                w1     |-> IF took("w1") THEN s.w1 ELSE e.w1,
                high   |-> IF took("high") THEN s.high ELSE e.high,
                low    |-> IF took("low") THEN s.low ELSE e.low,
                scope  |-> IF took("scope") THEN s.scope ELSE e.scope]
BY DEF Filled, Unions

\* An address that there was room for is read back whole.
LEMMA FilledIs ==
  ASSUME NEW e \in Unions, NEW s \in Unions, NEW bytes \in Nat
  PROVE  /\ Filled(e, s, bytes) \in Unions
         /\ SizeOf(s) <= bytes =>
              /\ Filled(e, s, bytes).port = s.port
              /\ AddressOf(Filled(e, s, bytes)) = AddressOf(s)
<1>1. Filled(e, s, bytes) \in Unions
  <2> DEFINE took(f) == End[f] <= Fewer(bytes, SizeOf(s))
  <2>1. Filled(e, s, bytes) =
               [family |-> IF took("family") THEN s.family ELSE e.family,
                port   |-> IF took("port") THEN s.port ELSE e.port,
                w1     |-> IF took("w1") THEN s.w1 ELSE e.w1,
                high   |-> IF took("high") THEN s.high ELSE e.high,
                low    |-> IF took("low") THEN s.low ELSE e.low,
                scope  |-> IF took("scope") THEN s.scope ELSE e.scope]
    BY FilledFields
  <2> HIDE DEF took
  <2> QED
    BY <2>1 DEF Unions
<1>2. ASSUME SizeOf(s) <= bytes
      PROVE  /\ Filled(e, s, bytes).port = s.port
             /\ AddressOf(Filled(e, s, bytes)) = AddressOf(s)
  <2> DEFINE m == Fewer(bytes, SizeOf(s))
             u == Filled(e, s, bytes)
  <2>1. m = SizeOf(s)
    BY <1>2 DEF Fewer, SizeOf, V4Size, V6Size
  <2>2. /\ u.family = IF End["family"] <= m THEN s.family ELSE e.family
        /\ u.port = IF End["port"] <= m THEN s.port ELSE e.port
        /\ u.w1 = IF End["w1"] <= m THEN s.w1 ELSE e.w1
        /\ u.high = IF End["high"] <= m THEN s.high ELSE e.high
        /\ u.low = IF End["low"] <= m THEN s.low ELSE e.low
        /\ u.scope = IF End["scope"] <= m THEN s.scope ELSE e.scope
    BY FilledFields
  <2>3. /\ End["family"] = 2 /\ End["port"] = 4 /\ End["w1"] = 8
        /\ End["high"] = 16 /\ End["low"] = 24 /\ End["scope"] = 28
    BY DEF End
  <2> HIDE DEF m, u
  <2>4. CASE HoldsV4(s)
    <3>1. m = 16
      BY <2>1, <2>4 DEF SizeOf, V4Size
    <3>2. u.family = s.family /\ u.port = s.port /\ u.w1 = s.w1
      BY <2>2, <2>3, <3>1
    <3> QED
      BY <2>4, <3>2, Zenon DEF HoldsV4, AddressOf, u
  <2>5. CASE ~HoldsV4(s)
    <3>1. m = 28
      BY <2>1, <2>5 DEF SizeOf, V6Size
    <3>2. /\ u.family = s.family /\ u.port = s.port
          /\ u.high = s.high /\ u.low = s.low /\ u.scope = s.scope
      BY <2>2, <2>3, <3>1
    <3> QED
      BY <2>5, <3>2, Zenon DEF HoldsV4, AddressOf, u
  <2> QED
    BY <2>4, <2>5
<1> QED
  BY <1>1, <1>2

\* An endpoint is never longer than its storage.
LEMMA SizeType ==
  ASSUME NEW e \in Unions
  PROVE  SizeOf(e) \in Nat /\ SizeOf(e) <= Capacity /\ Capacity \in Nat
BY DEF SizeOf, Capacity, V4Size, V6Size

\* A peer's own endpoint.
LEMMA NativeIs ==
  ASSUME NEW p \in Peers
  PROVE  /\ p.address \in AnyAddress /\ p.port \in Ports
         /\ Native(p) \in Unions /\ Native(p).port = p.port /\ AddressOf(Native(p)) = p.address
         /\ p # NoPeer
<1>1. p.address \in AnyAddress /\ p.port \in Ports /\ p.address.scope < ScopeModulus
  BY EndpointAssumption DEF AnyAddress
<1>2. p # NoPeer
  <2>1. p \in [address : Addrs, port : Ports]
    BY EndpointAssumption
  <2>2. "address" \in DOMAIN p /\ "address" \notin DOMAIN NoPeer
    BY <2>1 DEF NoPeer
  <2> QED
    BY <2>2
<1> QED
  BY <1>1, <1>2, MadeIs DEF Native

\* What the union holds is the peer that was written last.
PeerWritten == peer # NoPeer => AddressOf(ep) = peer.address /\ PortOf(ep) = peer.port

\* What holds of ep, peer and calls in every state.
EndpointInv == EndpointTypeOK /\ PeerWritten

\* An address is not before itself.
LEMMA NotBeforeItself ==
  ASSUME NEW a \in AnyAddress
  PROVE  ~Less(a, a)
<1>1. Number(a.bytes) \in Nat /\ a.scope \in Nat
  BY AddressIs
<1> QED
  BY <1>1, LessIs

\* The invariant is enough for PeerIsKnown.
LEMMA Known == EndpointInv => PeerIsKnown
<1> SUFFICES ASSUME EndpointInv, peer # NoPeer
             PROVE  LET made == AddressEndpoint(peer.address, peer.port)
                    IN  /\ AddressOf(ep) = peer.address
                        /\ PortOf(ep) = peer.port
                        /\ Equal(ep, made) /\ ~LessEndpoint(ep, made) /\ ~LessEndpoint(made, ep)
  BY DEF PeerIsKnown
<1> DEFINE made == AddressEndpoint(peer.address, peer.port)
<1>1. peer \in Peers /\ AddressOf(ep) = peer.address /\ PortOf(ep) = peer.port
  BY DEF EndpointInv, EndpointTypeOK, PeerWritten
<1>2. /\ peer.address \in AnyAddress /\ peer.port \in Nat
      /\ PortOf(made) = peer.port /\ AddressOf(made) = peer.address
  BY <1>1, NativeIs, EndpointAssumption DEF Native, PortOf
<1>3. ~Less(peer.address, peer.address) /\ ~(peer.port < peer.port)
  BY <1>2, NotBeforeItself
<1> HIDE DEF made
<1> QED
  BY <1>1, <1>2, <1>3, Zenon DEF Equal, LessEndpoint, made

\* The default-constructed endpoint is 0.0.0.0 with port 0.
LEMMA EndpointInitially == EndpointInit => EndpointInv
<1> SUFFICES ASSUME EndpointInit PROVE EndpointInv
  OBVIOUS
<1>1. V4(Any4) \in AnyAddress /\ IsV4(V4(Any4)) /\ V4(Any4).bytes = Any4 /\ 0 \in Ports
  <2>1. Any4 \in [1..V4Len -> Byte]
    BY SameType, ZeroByte, LengthType DEF Any4
  <2> QED
    BY <2>1, V4Type, V4Is, EndpointAssumption DEF AnyAddress
<1>2. DefaultEndpoint = AddressEndpoint(V4(Any4), 0)
  BY <1>1 DEF DefaultEndpoint, AddressEndpoint
<1>3. DefaultEndpoint \in Unions
  BY <1>1, <1>2, MadeIs
<1> QED
  BY <1>3, EndpointAssumption
  DEF EndpointInit, EndpointInv, EndpointTypeOK, PeerWritten, Unions

\* The constructor from a family and a port makes an endpoint.
LEMMA FamilyIs ==
  ASSUME NEW f \in {"AF_INET", "AF_INET6"}, NEW n \in Ports
  PROVE  FamilyEndpoint(f, n) \in Unions
<1>1. Any4 \in [1..V4Len -> Byte] /\ Any6 \in [1..V6Len -> Byte]
  BY SameType, ZeroByte, LengthType DEF Any4, Any6
<1>2. /\ V4(Any4) \in AnyAddress /\ IsV4(V4(Any4)) /\ V4(Any4).bytes = Any4
      /\ V6(Any6, 0) \in AnyAddress /\ ~IsV4(V6(Any6, 0)) /\ V6(Any6, 0).bytes = Any6
      /\ V6(Any6, 0).scope = 0
  BY <1>1, V4Type, V4Is, V6Type, V6Is DEF AnyAddress
<1>3. FamilyEndpoint(f, n) \in {AddressEndpoint(V4(Any4), n), AddressEndpoint(V6(Any6, 0), n)}
  BY <1>2 DEF FamilyEndpoint, AddressEndpoint
<1> QED
  BY <1>2, <1>3, MadeIs

\* Every operation of an endpoint keeps its invariant.
LEMMA EndpointKeeps == EndpointInv /\ EndpointNext => EndpointInv'
<1> SUFFICES ASSUME EndpointInv, EndpointNext PROVE EndpointInv'
  OBVIOUS
<1>1. /\ ep \in Unions /\ PortOf(ep) \in Ports /\ AddressOf(ep) \in AnyAddress
      /\ MaxCalls \in Nat /\ calls \in 0..MaxCalls
  <2>1. ep \in Unions /\ calls \in 0..MaxCalls
    BY DEF EndpointInv, EndpointTypeOK, Unions
  <2>2. PortOf(ep) \in Ports
    BY <2>1 DEF Unions, PortOf
  <2> QED
    BY <2>1, <2>2, AddressOfType, EndpointAssumption
<1>2. ASSUME NEW e \in Unions, Written(e) PROVE EndpointInv'
  BY <1>1, <1>2 DEF Written, EndpointInv, EndpointTypeOK, PeerWritten, Unions
<1>3. ASSUME NEW p \in Peers, NEW e \in Unions, NEW bytes \in Nat,
             Fill(e, p, bytes), peer' \in {p, NoPeer},
             peer' = p => SizeOf(Native(p)) <= bytes
      PROVE  EndpointInv'
  <2>1. Native(p) \in Unions /\ Native(p).port = p.port /\ AddressOf(Native(p)) = p.address
    BY NativeIs
  <2>2. /\ ep' \in Unions /\ calls' \in 0..MaxCalls
        /\ peer' = p => ep'.port = p.port /\ AddressOf(ep') = p.address
    <3> DEFINE new == Filled(e, Native(p), bytes)
    <3>1. ep' = new /\ calls' \in 0..MaxCalls
      BY <1>1, <1>3 DEF Fill
    <3>2. /\ new \in Unions
          /\ SizeOf(Native(p)) <= bytes => new.port = Native(p).port /\ AddressOf(new) = AddressOf(Native(p))
      BY <2>1, FilledIs, Zenon
    <3> HIDE DEF new
    <3> QED
      BY <1>3, <2>1, <3>1, <3>2, Zenon
  <2>3. EndpointTypeOK'
    BY <1>3, <2>2 DEF EndpointTypeOK, Unions
  <2>4. PeerWritten'
    BY <1>3, <2>2 DEF PeerWritten, PortOf
  <2> QED
    BY <2>3, <2>4 DEF EndpointInv
<1>4. DefaultEndpoint \in Unions
  BY EndpointAssumption, FamilyIs DEF DefaultEndpoint, FamilyEndpoint
<1>5. CASE ConstructDefault
  BY <1>2, <1>4, <1>5 DEF ConstructDefault
<1>6. CASE ConstructFamily
  BY <1>2, <1>6, FamilyIs DEF ConstructFamily
<1>7. CASE ConstructAddress \/ SetAddress
  <2>1. \A a \in Addrs : a \in AnyAddress
    BY EndpointAssumption DEF AnyAddress
  <2>2. \A a \in Addrs, n \in Ports : AddressEndpoint(a, n) \in Unions
    BY <2>1, MadeIs
  <2> QED
    BY <1>1, <1>2, <1>7, <2>2 DEF ConstructAddress, SetAddress
<1>8. CASE SetPort
  <2>1. \A n \in Ports : [ep EXCEPT !.port = n] \in Unions
    BY <1>1 DEF Unions
  <2> QED
    BY <1>2, <1>8, <2>1 DEF SetPort
<1>9. CASE Accept \/ AcceptShort
  <2>1. PICK p \in Peers : Fill(ep, p, SizeOf(ep)) /\ ((AcceptFits(p) /\ peer' = p) \/ peer' = NoPeer)
    BY <1>9 DEF Accept, AcceptShort
  <2>2. peer' = p => SizeOf(Native(p)) <= SizeOf(ep)
    BY <2>1, NativeIs DEF AcceptFits
  <2> QED
    BY <1>1, <1>3, <2>1, <2>2, SizeType
<1>10. CASE AcceptRefused
  BY <1>1, <1>2, <1>10 DEF AcceptRefused
<1>11. CASE ReceiveFrom \/ RemoteEndpoint
  <2>1. PICK p \in Peers, e \in Unions : Fill(e, p, Capacity) /\ peer' = p
    BY <1>1, <1>4, <1>11 DEF ReceiveFrom, RemoteEndpoint
  <2>2. Capacity \in Nat /\ SizeOf(Native(p)) <= Capacity
    BY SizeType, NativeIs
  <2> QED
    BY <1>3, <2>1, <2>2
<1> QED
  BY <1>5, <1>6, <1>7, <1>8, <1>9, <1>10, <1>11 DEF EndpointNext

-----------------------------------------------------------------------------
(* Bits.                                                                    *)

\* A power is the product of two.
LEMMA PowerSum ==
  ASSUME NEW b \in Nat \ {0}, NEW n \in Nat, NEW k \in 0..n
  PROVE  Power(b, n) = Power(b, k) * Power(b, n - k)
<1> DEFINE S == {i \in 0..n : Power(b, n) = Power(b, i) * Power(b, n - i)}
<1>1. 0 \in S
  <2>1. Power(b, 0) = 1 /\ Power(b, n) \in Nat /\ n - 0 = n
    BY PowerNext, PowerType
  <2> QED
    BY <2>1
<1>2. ASSUME NEW i \in 1..n, i - 1 \in S PROVE i \in S
  <2>1. /\ i - 1 \in Nat /\ n - i \in Nat /\ (i - 1) + 1 = i /\ (n - i) + 1 = n - (i - 1)
    OBVIOUS
  <2>2. /\ Power(b, (i - 1) + 1) = Power(b, i - 1) * b
        /\ Power(b, (n - i) + 1) = Power(b, n - i) * b
    BY <2>1, PowerNext
  <2>3. Power(b, n) = Power(b, i - 1) * Power(b, n - (i - 1))
    BY <1>2
  <2>4. Power(b, n) = Power(b, i - 1) * (Power(b, n - i) * b)
    BY <2>1, <2>2, <2>3, Zenon
  <2>5. \A x, y \in Nat : x * (y * b) = (x * b) * y
    OBVIOUS
  <2>6. Power(b, i - 1) \in Nat /\ Power(b, n - i) \in Nat
    BY <2>1, PowerType
  <2>7. Power(b, n) = (Power(b, i - 1) * b) * Power(b, n - i)
    BY <2>4, <2>5, <2>6, Zenon
  <2>8. Power(b, n) = Power(b, i) * Power(b, n - i)
    BY <2>1, <2>2, <2>7, Zenon
  <2> QED
    BY <2>8
<1>3. 0..n \subseteq S
  <2> HIDE DEF S
  <2> QED
    BY <1>1, <1>2, UpTo
<1> QED
  BY <1>3

\* The low bits of a number, one more each.
LEMMA LowBits ==
  ASSUME NEW c \in Nat \ {0}, NEW x \in Nat
  PROVE  x % (c * 2) = (x % c) + (IF (x \div c) % 2 = 1 THEN c ELSE 0)
<1> DEFINE q == x \div c
           r == x % c
           t == q \div 2
           s == q % 2
<1>1. q \in Int /\ r \in 0..(c - 1) /\ x = q * c + r
  BY Division
<1>2. t \in Int /\ s \in 0..1 /\ q = t * 2 + s
  <2> HIDE DEF q
  <2> QED
    BY <1>1, Division
<1> HIDE DEF q, r, t, s
<1>3. x = t * (c * 2) + (s * c + r)
  <2>1. q * c = t * (c * 2) + s * c
    BY <1>1, <1>2
  <2>2. t * (c * 2) \in Int /\ s * c \in Int /\ r \in Int
    BY <1>1, <1>2
  <2>3. \A u, v, w \in Int : (u + v) + w = u + (v + w)
    OBVIOUS
  <2>4. (t * (c * 2) + s * c) + r = t * (c * 2) + (s * c + r)
    BY <2>2, <2>3, Zenon
  <2> QED
    BY <1>1, <2>1, <2>4, Zenon
<1>4. s * c = IF s = 1 THEN c ELSE 0
  BY <1>2
<1>5. s * c + r \in 0..(c * 2 - 1)
  BY <1>1, <1>2, <1>4
<1>6. c * 2 \in Nat \ {0}
  OBVIOUS
<1>7. x % (c * 2) = s * c + r
  <2> DEFINE d == c * 2
             y == s * c + r
  <2>1. d \in Nat \ {0} /\ y \in 0..(d - 1) /\ x = t * d + y
    BY <1>3, <1>5, <1>6
  <2>2. (t * d + y) % d = y
    <3> HIDE DEF d, y
    <3> QED
      BY <1>2, <2>1, DivisionOf
  <2>3. x % d = y
    <3> HIDE DEF d, y
    <3> QED
      BY <2>1, <2>2
  <2> QED
    BY <2>3
<1>8. s * c + r = r + (IF s = 1 THEN c ELSE 0)
  BY <1>1, <1>2, <1>4
<1> QED
  BY <1>7, <1>8, Zenon DEF q, r, s

\* f is the function that Or computes.
IsOr(f, x, y) ==
  f = [k \in 0..Width |->
         IF k = 0 THEN 0
         ELSE f[k - 1] + (IF Bit(x, k - 1) = 1 \/ Bit(y, k - 1) = 1 THEN Power(2, k - 1) ELSE 0)]

\* Or is the sum of the bits that either byte has.
LEMMA OrIs ==
  ASSUME NEW x, NEW y
  PROVE  \E f : /\ f[0] = 0
                /\ \A k \in 1..Width :
                     f[k] = f[k - 1]
                              + (IF Bit(x, k - 1) = 1 \/ Bit(y, k - 1) = 1 THEN Power(2, k - 1) ELSE 0)
                /\ Or(x, y) = f[Width]
<1> DEFINE add(k) == IF Bit(x, k - 1) = 1 \/ Bit(y, k - 1) = 1 THEN Power(2, k - 1) ELSE 0
           step == [t \in Nat \X (1..Width) |-> t[1] + add(t[2])]
<1>0. Width \in Nat
  BY BytesAssumption
<1>1. \A k \in 1..Width : add(k) \in Nat
  <2>1. \A k \in 1..Width : Power(2, k - 1) \in Nat
    BY <1>0, PowerType
  <2> QED
    BY <2>1
<1> HIDE DEF add
<1>2. step \in [Nat \X (1..Width) -> Nat]
  BY <1>1
<1>3. PICK f \in [0..Width -> Nat] : f[0] = 0 /\ \A i \in 1..Width : f[i] = step[<<f[i - 1], i>>]
  <2> HIDE DEF step
  <2>1. \E f : Follows(f, Width, Nat, 0, step)
    BY <1>0, <1>2, Recursion
  <2> QED
    BY <2>1 DEF Follows
<1>4. \A i \in 1..Width : f[i] = f[i - 1] + add(i)
  <2> SUFFICES ASSUME NEW i \in 1..Width PROVE f[i] = f[i - 1] + add(i)
    OBVIOUS
  <2>1. <<f[i - 1], i>> \in Nat \X (1..Width)
    BY <1>0
  <2> QED
    BY <1>3, <2>1
<1>5. IsOr(f, x, y)
  <2>1. \A i \in 0..Width : i = 0 \/ i \in 1..Width
    BY <1>0
  <2>2. \A i \in 0..Width : f[i] = IF i = 0 THEN 0 ELSE f[i - 1] + add(i)
    BY <1>3, <1>4, <2>1, Zenon
  <2>3. f = [i \in 0..Width |-> IF i = 0 THEN 0 ELSE f[i - 1] + add(i)]
    BY <2>2
  <2> QED
    BY <2>3, Zenon DEF IsOr, add
<1> DEFINE p == CHOOSE p : IsOr(p, x, y)
<1>6. IsOr(p, x, y)
  BY <1>5, Zenon
<1>7. Or(x, y) = p[Width]
  BY Zenon DEF Or, IsOr
<1> HIDE DEF p
<1>8. p = [i \in 0..Width |-> IF i = 0 THEN 0 ELSE p[i - 1] + add(i)]
  BY <1>6, Zenon DEF IsOr, add
<1>9. p[0] = 0 /\ \A i \in 1..Width : p[i] = p[i - 1] + add(i)
  <2>1. \A i \in 1..Width : i \in 0..Width /\ i # 0
    OBVIOUS
  <2>2. 0 \in 0..Width
    BY <1>0
  <2> QED
    BY <1>8, <2>1, <2>2, Zenon
<1> QED
  BY <1>7, <1>9, Zenon DEF add

\* Nothing is added to a byte, and everything is.
LEMMA OrNothing ==
  ASSUME NEW x \in Byte
  PROVE  Or(x, 0) = x
<1>1. PICK f : /\ f[0] = 0
               /\ \A k \in 1..Width :
                    f[k] = f[k - 1]
                             + (IF Bit(x, k - 1) = 1 \/ Bit(0, k - 1) = 1 THEN Power(2, k - 1) ELSE 0)
               /\ Or(x, 0) = f[Width]
  BY OrIs
<1>2. x \in Nat /\ x < Base /\ Width \in Nat /\ Base = Power(2, Width)
  BY BaseType, BytesAssumption DEF Byte, Base
<1> DEFINE S == {k \in 0..Width : f[k] = x % Power(2, k)}
<1>3. 0 \in S
  <2>1. Power(2, 0) = 1
    BY PowerNext
  <2>2. x % 1 = 0
    BY <1>2
  <2> QED
    BY <1>1, <1>2, <2>1, <2>2
<1>4. ASSUME NEW k \in 1..Width, k - 1 \in S PROVE k \in S
  <2> DEFINE c == Power(2, k - 1)
  <2>1. k - 1 \in Nat /\ (k - 1) + 1 = k
    OBVIOUS
  <2>2. c \in Nat \ {0} /\ Power(2, k) = c * 2
    <3>1. Power(2, (k - 1) + 1) = Power(2, k - 1) * 2
      BY <2>1, PowerNext
    <3> QED
      BY <2>1, <3>1, PowerType
  <2>3. Bit(0, k - 1) = 0 /\ Bit(x, k - 1) = (x \div c) % 2
    <3>1. \A d \in Nat \ {0} : (0 \div d) % 2 = 0
      OBVIOUS
    <3> QED
      BY <2>2, <3>1 DEF Bit
  <2>4. f[k] = f[k - 1] + (IF (x \div c) % 2 = 1 THEN c ELSE 0)
    <3>1. f[k] = f[k - 1] + (IF Bit(x, k - 1) = 1 \/ Bit(0, k - 1) = 1 THEN c ELSE 0)
      BY <1>1
    <3>2. Bit(x, k - 1) = 1 \/ Bit(0, k - 1) = 1 <=> (x \div c) % 2 = 1
      BY <2>3
    <3> HIDE DEF c
    <3> QED
      BY <3>1, <3>2, Zenon
  <2>5. x % (c * 2) = (x % c) + (IF (x \div c) % 2 = 1 THEN c ELSE 0)
    <3> HIDE DEF c
    <3> QED
      BY <1>2, <2>2, LowBits
  <2>6. f[k - 1] = x % c
    BY <1>4
  <2>7. f[k] = x % Power(2, k)
    BY <2>2, <2>4, <2>5, <2>6, Zenon
  <2> QED
    BY <2>7
<1>5. 0..Width \subseteq S
  <2> HIDE DEF S
  <2> QED
    BY <1>2, <1>3, <1>4, UpTo
<1>6. f[Width] = x % Base
  BY <1>2, <1>5
<1>7. x % Base = x
  BY <1>2, BaseType
<1> QED
  BY <1>1, <1>6, <1>7

\* A byte or all ones is all ones.
LEMMA OrAll ==
  ASSUME NEW x \in Byte
  PROVE  Or(x, Base - 1) = Base - 1
<1>1. PICK f : /\ f[0] = 0
               /\ \A k \in 1..Width :
                    f[k] = f[k - 1]
                             + (IF Bit(x, k - 1) = 1 \/ Bit(Base - 1, k - 1) = 1 THEN Power(2, k - 1) ELSE 0)
               /\ Or(x, Base - 1) = f[Width]
  BY OrIs
<1>2. Width \in Nat /\ Base = Power(2, Width) /\ Base \in Nat
  BY BaseType, BytesAssumption DEF Base
<1> DEFINE S == {k \in 0..Width : f[k] = Power(2, k) - 1}
<1>3. 0 \in S
  <2>1. Power(2, 0) = 1
    BY PowerNext
  <2> QED
    BY <1>1, <1>2, <2>1
<1>4. ASSUME NEW k \in 1..Width, k - 1 \in S PROVE k \in S
  <2> DEFINE c == Power(2, k - 1)
             d == Power(2, Width - k)
  <2>1. k - 1 \in Nat /\ (k - 1) + 1 = k /\ Width - k \in Nat /\ k \in 0..Width
    BY <1>2
  <2>2. c \in Nat \ {0} /\ d \in Nat \ {0} /\ Power(2, k) = c * 2
    <3>1. Power(2, (k - 1) + 1) = Power(2, k - 1) * 2
      BY <2>1, PowerNext
    <3> QED
      BY <2>1, <3>1, PowerType
  <2>3. Base = (c * 2) * d
    <3>1. Power(2, Width) = Power(2, k) * Power(2, Width - k)
      BY <1>2, <2>1, PowerSum
    <3> QED
      BY <1>2, <2>2, <3>1, Zenon
  <2>4. Bit(Base - 1, k - 1) = 1
    <3>1. \A u, v \in Nat \ {0} : (((u * 2) * v - 1) \div u) % 2 = 1
      <4> SUFFICES ASSUME NEW u \in Nat \ {0}, NEW v \in Nat \ {0}
                   PROVE  (((u * 2) * v - 1) \div u) % 2 = 1
        OBVIOUS
      <4>1. (u * 2) * v - 1 = (v * 2 - 1) * u + (u - 1)
        OBVIOUS
      <4>2. u - 1 \in 0..(u - 1) /\ v * 2 - 1 \in Int
        OBVIOUS
      <4>3. ((v * 2 - 1) * u + (u - 1)) \div u = v * 2 - 1
        BY <4>2, DivisionOf
      <4>4. (v * 2 - 1) % 2 = 1
        OBVIOUS
      <4> QED
        BY <4>1, <4>3, <4>4, Zenon
    <3>2. (((c * 2) * d - 1) \div c) % 2 = 1
      <4> HIDE DEF c, d
      <4> QED
        BY <2>2, <3>1
    <3> QED
      BY <2>3, <3>2, Zenon DEF Bit
  <2>5. f[k] = f[k - 1] + c
    BY <1>1, <2>4
  <2>6. f[k - 1] = c - 1
    BY <1>4
  <2>7. f[k] = Power(2, k) - 1
    <3> HIDE DEF c
    <3> QED
      BY <2>2, <2>5, <2>6
  <2> QED
    BY <2>7
<1>5. 0..Width \subseteq S
  <2> HIDE DEF S
  <2> QED
    BY <1>2, <1>3, <1>4, UpTo
<1> QED
  BY <1>1, <1>2, <1>5

-----------------------------------------------------------------------------
(* Conversions.                                                             *)

\* How many bytes come before the IPv4 ones.
PrefixLen == Zeros + Ones

\* The two prefixes are bytes that start with 0, and differ.
LEMMA PrefixType ==
  /\ PrefixLen \in Nat /\ PrefixLen > 0 /\ V6Len = PrefixLen + V4Len /\ V4Len = 4
  /\ MappedPrefix \in [1..PrefixLen -> Byte] /\ MappedPrefix[1] = 0
  /\ CompatiblePrefix \in [1..PrefixLen -> Byte] /\ CompatiblePrefix[1] = 0
  /\ MappedPrefix # CompatiblePrefix
<1>1. /\ Zeros \in Nat /\ Ones \in Nat /\ Zeros > 0 /\ Ones > 0
      /\ PrefixLen \in Nat /\ PrefixLen > 0 /\ V6Len = PrefixLen + V4Len /\ V4Len = 4
  BY BytesAssumption DEF PrefixLen, V6Len, V4Len
<1> DEFINE z == Same(Zeros, 0)
           o == Same(Ones, Base - 1)
<1>2. z \in [1..Zeros -> Byte] /\ o \in [1..Ones -> Byte]
  BY <1>1, SameType, ZeroByte
<1>3. z \o o \in [1..(Zeros + Ones) -> Byte]
  BY <1>1, <1>2, JoinType
<1>4. \A i \in 1..(Zeros + Ones) : (z \o o)[i] = IF i <= Zeros THEN z[i] ELSE o[i - Zeros]
  <2>1. z \in Seq(Byte) /\ o \in Seq(Byte) /\ Len(z) = Zeros /\ Len(o) = Ones
    BY <1>1, <1>2, LenIs
  <2> HIDE DEF z, o
  <2> QED
    BY <2>1, ConcatProperties
<1>5. /\ 1 \in 1..(Zeros + Ones) /\ 1 <= Zeros /\ 1 \in 1..Zeros
      /\ Zeros + Ones \in 1..(Zeros + Ones) /\ ~(Zeros + Ones <= Zeros)
      /\ Zeros + Ones - Zeros = Ones /\ Ones \in 1..Ones
  BY <1>1
<1>6. z[1] = 0 /\ o[Ones] = Base - 1
  BY <1>5 DEF Same
<1>7. (z \o o)[1] = 0 /\ (z \o o)[Zeros + Ones] = Base - 1
  <2> DEFINE w == z \o o
  <2>1. w[1] = IF 1 <= Zeros THEN z[1] ELSE o[1 - Zeros]
    BY <1>4, <1>5, Zenon
  <2>2. w[Zeros + Ones] = IF Zeros + Ones <= Zeros THEN z[Zeros + Ones] ELSE o[Zeros + Ones - Zeros]
    <3>1. \A i \in 1..(Zeros + Ones) : w[i] = IF i <= Zeros THEN z[i] ELSE o[i - Zeros]
      BY <1>4
    <3> HIDE DEF z, o, w
    <3> QED
      BY <1>1, <1>5, <3>1
  <2> HIDE DEF z, o, w
  <2>3. w[1] = 0
    BY <1>5, <1>6, <2>1, Zenon
  <2>4. w[Zeros + Ones] = Base - 1
    BY <1>5, <1>6, <2>2, Zenon
  <2> QED
    BY <2>3, <2>4 DEF w
<1>8. /\ CompatiblePrefix \in [1..PrefixLen -> Byte] /\ CompatiblePrefix[1] = 0
      /\ CompatiblePrefix[Zeros + Ones] = 0
  <2>1. CompatiblePrefix \in [1..PrefixLen -> Byte]
    BY <1>1, SameType, ZeroByte DEF CompatiblePrefix, PrefixLen
  <2> QED
    BY <1>5, <2>1 DEF CompatiblePrefix, Same
<1>9. Base - 1 # 0
  BY BaseType
<1> QED
  BY <1>1, <1>3, <1>7, <1>8, <1>9 DEF MappedPrefix, PrefixLen

\* A prefix and four bytes, taken apart again.
LEMMA PrefixedIs ==
  ASSUME NEW p \in [1..PrefixLen -> Byte], NEW s \in [1..V4Len -> Byte]
  PROVE  /\ V6(p \o s, 0) \in V6Address
         /\ Prefix(V6(p \o s, 0)) = p /\ Suffix(V6(p \o s, 0)) = s
<1>1. PrefixLen \in Nat /\ V4Len \in Nat /\ V6Len = PrefixLen + V4Len
  BY PrefixType, LengthType
<1>2. /\ p \o s \in [1..V6Len -> Byte]
      /\ SubSeq(p \o s, 1, PrefixLen) = p /\ SubSeq(p \o s, PrefixLen + 1, V6Len) = s
  <2>1. /\ p \o s \in [1..(PrefixLen + V4Len) -> Byte]
        /\ SubSeq(p \o s, 1, PrefixLen) = p
        /\ SubSeq(p \o s, PrefixLen + 1, PrefixLen + V4Len) = s
    <3> DEFINE n == PrefixLen
    <3>1. n \in Nat /\ p \in [1..n -> Byte]
      BY <1>1
    <3> HIDE DEF n
    <3>2. /\ p \o s \in [1..(n + V4Len) -> Byte]
          /\ SubSeq(p \o s, 1, n) = p /\ SubSeq(p \o s, n + 1, n + V4Len) = s
      BY <1>1, <3>1, JoinType
    <3> QED
      BY <3>2 DEF n
  <2> QED
    BY <1>1, <2>1, Zenon
<1>3. V6(p \o s, 0) \in V6Address /\ V6(p \o s, 0).bytes = p \o s
  BY <1>2, V6Type
<1> QED
  BY <1>2, <1>3, Zenon DEF Prefix, Suffix, PrefixLen

\* 0.0.0.0, 0.0.0.1 and 255.255.255.255.
Zero4 == Same(V4Len, 0)
Full4 == Same(V4Len, Base - 1)

\* The numbers of 0.0.0.0, 0.0.0.1 and 255.255.255.255.
LEMMA ExtremesAre ==
  /\ Zero4 \in [1..V4Len -> Byte] /\ Number(Zero4) = 0
  /\ Full4 \in [1..V4Len -> Byte] /\ Number(Full4) + 1 = Words
  /\ LoopbackSuffix \in [1..V4Len -> Byte] /\ Number(LoopbackSuffix) = 1
<1>1. /\ Zero4 \in [1..V4Len -> Byte] /\ Full4 \in [1..V4Len -> Byte]
      /\ \A i \in 1..V4Len : Zero4[i] = 0 /\ Full4[i] = Base - 1
      /\ V4Len \in Nat /\ V4Len = 4
  <2>1. V4Len \in Nat /\ V4Len = 4
    BY DEF V4Len
  <2>2. Zero4 \in [1..V4Len -> Byte] /\ Full4 \in [1..V4Len -> Byte]
    BY <2>1, SameType, ZeroByte DEF Zero4, Full4
  <2> QED
    BY <2>1, <2>2 DEF Zero4, Full4, Same
<1>2. Number(Full4) + 1 = Words /\ Number(Zero4) = 0
  <2>1. Carries(Full4, Zero4, V4Len, 0) /\ 0 \in 0..V4Len
    BY <1>1 DEF Carries
  <2>2. IF 0 = 0 THEN Number(Full4) + 1 = Power(Base, V4Len) /\ Number(Zero4) = 0
                 ELSE Number(Zero4) = Number(Full4) + 1
    BY <1>1, <2>1, CarryAdds, Zenon
  <2> QED
    BY <2>2 DEF Words
<1>3. LoopbackSuffix \in [1..V4Len -> Byte] /\ \A i \in 1..V4Len : LoopbackSuffix[i] = IF i = 4 THEN 1 ELSE 0
  <2> DEFINE z == Same(3, 0)
  <2>1. LoopbackSuffix = z \o <<1>>
    BY <1>1 DEF LoopbackSuffix
  <2>2. z \in [1..3 -> Byte] /\ z \in Seq(Byte) /\ Len(z) = 3 /\ \A i \in 1..3 : z[i] = 0
    <3>1. z \in [1..3 -> Byte]
      BY SameType, ZeroByte
    <3> QED
      BY <3>1, LenIs DEF Same
  <2>3. 1 \in Byte
    BY BaseType DEF Byte
  <2> DEFINE l == <<1>>
  <2>4. l \in Seq(Byte) /\ Len(l) = 1 /\ l[1] = 1
    BY <2>3
  <2> HIDE DEF z, l
  <2>5. /\ z \o l \in Seq(Byte) /\ Len(z \o l) = 4
        /\ \A i \in 1..4 : (z \o l)[i] = IF i <= 3 THEN z[i] ELSE l[i - 3]
    <3>1. /\ z \o l \in Seq(Byte) /\ Len(z \o l) = Len(z) + Len(l)
          /\ \A i \in 1..(Len(z) + Len(l)) : (z \o l)[i] = IF i <= Len(z) THEN z[i] ELSE l[i - Len(z)]
      BY <2>2, <2>4, ConcatProperties, Zenon
    <3>2. Len(z) + Len(l) = 4
      BY <2>2, <2>4
    <3> QED
      BY <2>2, <3>1, <3>2, Zenon
  <2>6. z \o l \in [1..4 -> Byte]
    BY <2>5, LenProperties
  <2>7. \A i \in 1..4 : (z \o l)[i] = IF i = 4 THEN 1 ELSE 0
    BY <2>2, <2>4, <2>5
  <2>8. LoopbackSuffix = z \o l
    BY <2>1 DEF l
  <2> QED
    BY <1>1, <2>6, <2>7, <2>8
<1>4. Number(LoopbackSuffix) = 1
  <2>1. Carries(Zero4, LoopbackSuffix, V4Len, V4Len) /\ V4Len \in 0..V4Len /\ V4Len # 0
    BY <1>1, <1>3 DEF Carries
  <2>2. Number(LoopbackSuffix) = Number(Zero4) + 1
    BY <1>1, <1>3, <2>1, CarryAdds
  <2> QED
    BY <1>2, <2>2
<1> QED
  BY <1>1, <1>2, <1>3, <1>4

\* The IPv6 forms of an IPv4 address.
LEMMA FormsOfV4 ==
  ASSUME NEW a \in V4Address
  PROVE  /\ IsV4Mapped(V4Mapped(a)) /\ ToV4(V4Mapped(a)) = a
         /\ HasV4(V4Compatible(a)) <=> Number(a.bytes) > 1
         /\ ToV4(V4Compatible(a)) = a
<1> DEFINE s == a.bytes
<1>1. s \in [1..V4Len -> Byte] /\ a = V4(s)
  BY V4Is
<1>2. /\ Prefix(V4Mapped(a)) = MappedPrefix /\ Suffix(V4Mapped(a)) = s
      /\ Prefix(V4Compatible(a)) = CompatiblePrefix /\ Suffix(V4Compatible(a)) = s
  BY <1>1, PrefixType, PrefixedIs DEF V4Mapped, V4Compatible
<1>3. IsV4Mapped(V4Mapped(a)) /\ ToV4(V4Mapped(a)) = a /\ ToV4(V4Compatible(a)) = a
  BY <1>1, <1>2, Zenon DEF IsV4Mapped, ToV4
<1>4. HasV4(V4Compatible(a)) <=> ~IsUnspecifiedV6(V4Compatible(a)) /\ ~IsLoopbackV6(V4Compatible(a))
  BY <1>2, PrefixType DEF HasV4, IsV4Mapped, IsV4Compatible
<1>5. \A t \in [1..V4Len -> Byte] : V4Compatible(a).bytes = CompatiblePrefix \o t <=> s = t
  <2> SUFFICES ASSUME NEW t \in [1..V4Len -> Byte], CompatiblePrefix \o s = CompatiblePrefix \o t
               PROVE  s = t
    BY DEF V4Compatible, V6
  <2>1. /\ Suffix(V6(CompatiblePrefix \o s, 0)) = s
        /\ Suffix(V6(CompatiblePrefix \o t, 0)) = t
    BY <1>1, PrefixType, PrefixedIs
  <2> QED
    BY <2>1, Zenon
<1>6. Same(V6Len, 0) = CompatiblePrefix \o Zero4
  <2> DEFINE u == CompatiblePrefix \o Zero4
  <2>1. /\ CompatiblePrefix \in [1..PrefixLen -> Byte] /\ Zero4 \in [1..V4Len -> Byte]
        /\ V6Len = PrefixLen + V4Len /\ PrefixLen \in Nat /\ V4Len \in Nat
        /\ \A i \in 1..PrefixLen : CompatiblePrefix[i] = 0
        /\ \A i \in 1..V4Len : Zero4[i] = 0
    BY PrefixType, ExtremesAre, LengthType DEF CompatiblePrefix, Zero4, Same, PrefixLen
  <2>2. u \in [1..V6Len -> Byte]
    BY <2>1, JoinType
  <2>3. \A i \in 1..V6Len : u[i] = IF i <= PrefixLen THEN CompatiblePrefix[i] ELSE Zero4[i - PrefixLen]
    <3>1. /\ CompatiblePrefix \in Seq(Byte) /\ Zero4 \in Seq(Byte)
          /\ Len(CompatiblePrefix) = PrefixLen /\ Len(Zero4) = V4Len
      BY <2>1, LenIs
    <3> QED
      BY <2>1, <3>1, ConcatProperties
  <2> HIDE DEF u
  <2>4. \A i \in 1..V6Len : u[i] = 0
    BY <2>1, <2>3
  <2>5. Same(V6Len, 0) = u
    BY <2>2, <2>4 DEF Same
  <2> QED
    BY <2>5 DEF u
<1>7. IsUnspecifiedV6(V4Compatible(a)) <=> Number(s) = 0
  <2>1. IsUnspecifiedV6(V4Compatible(a)) <=> s = Zero4
    BY <1>5, <1>6, ExtremesAre DEF IsUnspecifiedV6
  <2>2. s = Zero4 <=> Number(s) = 0
    <3>1. s = Zero4 <=> Number(s) = Number(Zero4)
      BY <1>1, ExtremesAre, NumberOrder, LengthType
    <3> QED
      BY <3>1, ExtremesAre
  <2> QED
    BY <2>1, <2>2
<1>8. IsLoopbackV6(V4Compatible(a)) <=> Number(s) = 1
  <2>1. IsLoopbackV6(V4Compatible(a)) <=> s = LoopbackSuffix
    BY <1>5, ExtremesAre DEF IsLoopbackV6
  <2>2. s = LoopbackSuffix <=> Number(s) = 1
    <3>1. s = LoopbackSuffix <=> Number(s) = Number(LoopbackSuffix)
      BY <1>1, ExtremesAre, NumberOrder, LengthType
    <3> QED
      BY <3>1, ExtremesAre
  <2> QED
    BY <2>1, <2>2
<1>9. Number(s) \in Nat
  BY <1>1, NumberBound, LengthType
<1>10. ~(Number(s) = 0) /\ ~(Number(s) = 1) <=> Number(s) > 1
  BY <1>9
<1> QED
  BY <1>3, <1>4, <1>7, <1>8, <1>10

\* What an IPv6 address that has an IPv4 one in it is not.
LEMMA FormsOfV6 ==
  ASSUME NEW a \in V6Address, HasV4(a)
  PROVE  /\ a.bytes \in {V4Mapped(ToV4(a)).bytes, V4Compatible(ToV4(a)).bytes}
         /\ ~IsLoopback(a) /\ ~IsUnspecified(a)
         /\ ~IsMulticast(a) /\ MulticastScope(a) = "none"
         /\ ~IsLinkLocal(a) /\ ~IsSiteLocal(a)
<1>1. a.bytes \in [1..V6Len -> Byte] /\ ~IsV4(a)
  BY V6Is
<1>2. PrefixLen \in 0..V6Len /\ V6Len \in Nat /\ PrefixLen > 0
  BY PrefixType, LengthType
<1>3. a.bytes = Prefix(a) \o Suffix(a) /\ Prefix(a)[1] = a.bytes[1]
  <2>1. SubSeq(a.bytes, 1, PrefixLen) \o SubSeq(a.bytes, PrefixLen + 1, V6Len) = a.bytes
    BY <1>1, <1>2, PartsType
  <2>2. /\ 1 \in 1..(V6Len + 1) /\ PrefixLen \in (1 - 1)..V6Len
        /\ 1 \in 1..(PrefixLen - 1 + 1) /\ 1 + 1 - 1 = 1
    BY <1>2
  <2>3. SubSeq(a.bytes, 1, PrefixLen)[1] = a.bytes[1 + 1 - 1]
    BY <1>1, <1>2, <2>2, PieceIs, Zenon
  <2> QED
    BY <2>1, <2>2, <2>3, Zenon DEF Prefix, Suffix, PrefixLen
<1>4. Prefix(a) \in {MappedPrefix, CompatiblePrefix}
  BY DEF HasV4, IsV4Mapped, IsV4Compatible
<1>5. a.bytes[1] = 0
  BY <1>3, <1>4, PrefixType
<1>6. a.bytes \in {V4Mapped(ToV4(a)).bytes, V4Compatible(ToV4(a)).bytes}
  BY <1>3, <1>4 DEF V4Mapped, V4Compatible, ToV4, V4, V6
<1>7. ~IsMulticastV6(a) /\ ~IsLinkLocal(a) /\ ~IsSiteLocal(a)
  BY <1>5, BaseType DEF IsMulticastV6, IsLinkLocal, IsSiteLocal
<1>8. MulticastScope(a) = "none"
  BY <1>7 DEF MulticastScope
<1>9. ~IsUnspecifiedV6(a) /\ ~IsLoopbackV6(a)
  <2>1. CASE IsV4Compatible(a)
    BY <2>1 DEF IsV4Compatible
  <2>2. CASE IsV4Mapped(a)
    <3>1. Prefix(a) # CompatiblePrefix
      BY <2>2, PrefixType DEF IsV4Mapped
    <3>2. IsLoopbackV6(a) => Prefix(a) = CompatiblePrefix
      <4> SUFFICES ASSUME a.bytes = CompatiblePrefix \o LoopbackSuffix PROVE Prefix(a) = CompatiblePrefix
        BY DEF IsLoopbackV6
      <4>1. Prefix(V6(CompatiblePrefix \o LoopbackSuffix, 0)) = CompatiblePrefix
        BY PrefixType, ExtremesAre, PrefixedIs
      <4> QED
        BY <4>1 DEF Prefix, V6
    <3>3. IsUnspecifiedV6(a) => Prefix(a) = CompatiblePrefix
      <4> SUFFICES ASSUME a.bytes = Same(V6Len, 0) PROVE Prefix(a) = CompatiblePrefix
        BY DEF IsUnspecifiedV6
      <4> DEFINE z == Same(V6Len, 0)
      <4>1. 1 \in 1..(V6Len + 1) /\ PrefixLen \in (1 - 1)..V6Len /\ PrefixLen - 1 + 1 = PrefixLen
        BY <1>2
      <4>2. /\ SubSeq(z, 1, PrefixLen) \in [1..(PrefixLen - 1 + 1) -> Byte]
            /\ \A m \in 1..(PrefixLen - 1 + 1) : SubSeq(z, 1, PrefixLen)[m] = z[1 + m - 1]
        <5>1. z \in [1..V6Len -> Byte]
          BY <1>1
        <5> HIDE DEF z
        <5> QED
          BY <1>2, <4>1, <5>1, PieceIs
      <4>3. \A m \in 1..PrefixLen : z[1 + m - 1] = 0
        BY <1>2 DEF Same
      <4> DEFINE v == SubSeq(z, 1, PrefixLen)
      <4> HIDE DEF z
      <4>4. v \in [1..PrefixLen -> Byte] /\ \A m \in 1..PrefixLen : v[m] = 0
        BY <4>1, <4>2, <4>3
      <4> HIDE DEF v
      <4>5. v = CompatiblePrefix
        BY <4>4 DEF CompatiblePrefix, Same, PrefixLen
      <4> QED
        BY <4>5 DEF Prefix, PrefixLen, v, z
    <3> QED
      BY <3>1, <3>2, <3>3
  <2> QED
    BY <2>1, <2>2 DEF HasV4
<1> QED
  BY <1>1, <1>6, <1>7, <1>8, <1>9 DEF IsLoopback, IsUnspecified, IsMulticast

\* The mask of a network of n bytes.
Mask(n) == V4([i \in 1..V4Len |-> IF i <= n THEN Base - 1 ELSE 0])

\* An address's first byte gives its network's mask.
LEMMA NetmaskIs ==
  ASSUME NEW a \in V4Address
  PROVE  /\ \E n \in 1..V4Len : Netmask(a) = Mask(n)
         /\ \A b \in V4Address : b.bytes[1] = a.bytes[1] => Netmask(b) = Netmask(a)
<1> DEFINE network(c) == IF IsClassA(c) THEN 1 ELSE IF IsClassB(c) THEN 2 ELSE IF IsClassC(c) THEN 3 ELSE 4
<1>1. \A c : Netmask(c) = Mask(network(c))
  BY Zenon DEF Netmask, Mask
<1>2. network(a) \in 1..V4Len
  BY DEF V4Len
<1>3. \A b : b.bytes[1] = a.bytes[1] => network(b) = network(a)
  BY DEF IsClassA, IsClassB, IsClassC
<1> HIDE DEF network
<1> QED
  BY <1>1, <1>2, <1>3, Zenon

\* A broadcast address keeps the network's bytes; the others are all ones.
LEMMA BroadcastIs ==
  ASSUME NEW a \in V4Address, NEW n \in 1..V4Len
  PROVE  /\ Broadcast(a, Mask(n)) \in V4Address
         /\ \A i \in 1..V4Len : Broadcast(a, Mask(n)).bytes[i] = IF i <= n THEN a.bytes[i] ELSE Base - 1
<1> DEFINE m == [i \in 1..V4Len |-> IF i <= n THEN Base - 1 ELSE 0]
           b == [i \in 1..V4Len |-> Or(a.bytes[i], Base - 1 - m[i])]
<1>1. Mask(n).bytes = m
  BY DEF Mask, V4
<1>2. Broadcast(a, Mask(n)) = V4(b)
  BY <1>1, Zenon DEF Broadcast
<1>3. a.bytes \in [1..V4Len -> Byte] /\ Base - 1 \in Byte
  BY V4Is, BaseType DEF Byte
<1>4. ASSUME NEW i \in 1..V4Len
      PROVE  Or(a.bytes[i], Base - 1 - m[i]) = IF i <= n THEN a.bytes[i] ELSE Base - 1
  <2>1. a.bytes[i] \in Byte
    BY <1>3
  <2>2. CASE i <= n
    <3>1. Base - 1 - m[i] = 0
      BY <2>2, BaseType
    <3> QED
      BY <2>1, <2>2, <3>1, OrNothing, Zenon
  <2>3. CASE ~(i <= n)
    <3>1. Base - 1 - m[i] = Base - 1
      BY <2>3, BaseType
    <3> QED
      BY <2>1, <2>3, <3>1, OrAll, Zenon
  <2> QED
    BY <2>2, <2>3
<1>5. \A i \in 1..V4Len : b[i] = IF i <= n THEN a.bytes[i] ELSE Base - 1
  BY <1>4
<1> HIDE DEF m, b
<1>6. b \in [1..V4Len -> Byte]
  <2>1. \A i \in 1..V4Len : b[i] \in Byte
    BY <1>3, <1>5
  <2>2. b = [i \in 1..V4Len |-> b[i]]
    BY DEF b
  <2> QED
    BY <2>1, <2>2
<1> QED
  BY <1>2, <1>5, <1>6, V4Type

\* The broadcast address is the last of its network.
LEMMA LastOfNetwork ==
  ASSUME NEW a \in V4Address, NEW mask, mask = Netmask(a),
         NEW last, last = Broadcast(a, mask)
  PROVE  /\ ~Less(last, a) /\ Netmask(last) = mask /\ Broadcast(last, mask) = last
         /\ \/ Broadcast(Increment(last), mask) # last
            \/ Netmask(Increment(last)) # mask
<1>1. PICK n \in 1..V4Len : mask = Mask(n)
  BY NetmaskIs
<1>2. /\ V4Len \in Nat /\ 1 \in 1..V4Len /\ 1 <= n
      /\ \A i \in 1..V4Len : i \in Nat
  BY DEF V4Len
<1>3. /\ last \in V4Address
      /\ \A i \in 1..V4Len : last.bytes[i] = IF i <= n THEN a.bytes[i] ELSE Base - 1
  BY <1>1, BroadcastIs
<1>4. /\ a.bytes \in [1..V4Len -> Byte] /\ last.bytes \in [1..V4Len -> Byte]
      /\ IsV4(a) /\ IsV4(last) /\ last = V4(last.bytes)
  BY <1>3, V4Is
<1>5. ~Less(last, a)
  <2>1. ~BytesLess(last.bytes, a.bytes)
    <3>1. \A i \in 1..V4Len : ~(last.bytes[i] < a.bytes[i])
      <4> SUFFICES ASSUME NEW i \in 1..V4Len PROVE ~(last.bytes[i] < a.bytes[i])
        OBVIOUS
      <4>1. a.bytes[i] \in Nat /\ a.bytes[i] < Base /\ Base \in Nat
        BY <1>2, <1>4, BytesAre, BaseType
      <4>2. last.bytes[i] = a.bytes[i] \/ last.bytes[i] = Base - 1
        BY <1>3, Zenon
      <4> QED
        BY <4>1, <4>2
    <3>2. DOMAIN last.bytes = 1..V4Len
      BY <1>4
    <3> QED
      BY <3>1, <3>2, Zenon DEF BytesLess
  <2>2. BytesLess(last.bytes, a.bytes) <=> Number(last.bytes) < Number(a.bytes)
    BY <1>2, <1>4, NumberOrder, Zenon
  <2> QED
    BY <1>4, <2>1, <2>2, Zenon DEF Less
<1>6. Netmask(last) = mask
  <2>1. last.bytes[1] = a.bytes[1]
    BY <1>2, <1>3, Zenon
  <2> QED
    BY <1>3, <2>1, NetmaskIs, Zenon
<1>7. Broadcast(last, mask) = last
  <2> DEFINE again == Broadcast(last, Mask(n))
  <2>1. /\ again \in V4Address
        /\ \A i \in 1..V4Len : again.bytes[i] = IF i <= n THEN last.bytes[i] ELSE Base - 1
    BY <1>3, BroadcastIs
  <2>2. again.bytes \in [1..V4Len -> Byte] /\ again = V4(again.bytes)
    BY <2>1, V4Is
  <2> HIDE DEF again
  <2>3. \A i \in 1..V4Len : again.bytes[i] = last.bytes[i]
    BY <1>3, <2>1
  <2>4. again.bytes = last.bytes
    <3> DEFINE u == again.bytes
               v == last.bytes
    <3>1. /\ u \in [1..V4Len -> Byte] /\ v \in [1..V4Len -> Byte]
          /\ \A i \in 1..V4Len : u[i] = v[i]
      BY <1>4, <2>2, <2>3
    <3> HIDE DEF u, v
    <3>2. u = [i \in 1..V4Len |-> u[i]] /\ v = [i \in 1..V4Len |-> v[i]]
      BY <3>1
    <3>3. [i \in 1..V4Len |-> u[i]] = [i \in 1..V4Len |-> v[i]]
      BY <3>1, Zenon
    <3>4. u = v
      BY <3>2, <3>3, Zenon
    <3> QED
      BY <3>4 DEF u, v
  <2>5. again = last
    BY <1>4, <2>2, <2>4, Zenon
  <2> QED
    BY <1>1, <2>5, Zenon DEF again
<1>8. ASSUME Broadcast(Increment(last), mask) = last PROVE FALSE
  <2> DEFINE inc == Increment(last)
             x == Number(last.bytes)
  <2>1. last \in AnyAddress /\ Span(last) = Words /\ LengthOf(last) = V4Len
    BY <1>3, <1>4, AddressIs DEF AnyAddress, Words, LengthOf
  <2>2. /\ Numbered(inc, last, (x + 1) % Words)
        /\ x \in Nat /\ x < Words /\ Words \in Nat \ {0}
    BY <2>1, StepIs, AddressIs, WordsType
  <2>3. inc \in V4Address /\ inc.bytes \in [1..V4Len -> Byte] /\ Number(inc.bytes) = (x + 1) % Words
    <3>1. inc \in AnyAddress /\ inc.type = last.type /\ Number(inc.bytes) = (x + 1) % Words
      BY <2>2 DEF Numbered
    <3> HIDE DEF inc, x
    <3>2. IsV4(inc)
      BY <1>4, <3>1 DEF IsV4
    <3> QED
      BY <3>1, <3>2, AddressIs, V4Is
  <2> HIDE DEF inc
  <2>4. \A i \in 1..V4Len : i <= n => last.bytes[i] = inc.bytes[i]
    <3>1. \A i \in 1..V4Len : Broadcast(inc, Mask(n)).bytes[i] = IF i <= n THEN inc.bytes[i] ELSE Base - 1
      BY <2>3, BroadcastIs
    <3>2. Broadcast(inc, Mask(n)) = last
      BY <1>1, <1>8 DEF inc
    <3> QED
      BY <3>1, <3>2
  <2>5. x + 1 < Words => BytesLess(last.bytes, inc.bytes)
    <3> SUFFICES ASSUME x + 1 < Words PROVE BytesLess(last.bytes, inc.bytes)
      OBVIOUS
    <3>1. x < (x + 1) % Words
      <4> HIDE DEF x
      <4> QED
        BY <2>2
    <3>2. x < Number(inc.bytes)
      BY <2>3, <3>1, Zenon
    <3> QED
      BY <1>2, <1>4, <2>3, <3>2, NumberOrder, Zenon
  <2>6. ~BytesLess(last.bytes, inc.bytes)
    <3>1. \A i \in 1..V4Len : ~(last.bytes[i] < inc.bytes[i])
      <4> SUFFICES ASSUME NEW i \in 1..V4Len PROVE ~(last.bytes[i] < inc.bytes[i])
        OBVIOUS
      <4>1. inc.bytes[i] \in Nat /\ inc.bytes[i] < Base /\ Base \in Nat
        BY <1>2, <2>3, BytesAre, BaseType
      <4>2. last.bytes[i] = inc.bytes[i] \/ last.bytes[i] = Base - 1
        BY <1>3, <2>4, Zenon
      <4> QED
        BY <4>1, <4>2
    <3>2. DOMAIN last.bytes = 1..V4Len
      BY <1>4
    <3> QED
      BY <3>1, <3>2, Zenon DEF BytesLess
  <2>7. x + 1 = Words
    <3> HIDE DEF x
    <3> QED
      BY <2>2, <2>5, <2>6
  <2>8. last.bytes = Full4
    <3>1. Number(Full4) + 1 = Words /\ Full4 \in [1..V4Len -> Byte] /\ Number(Full4) \in Nat
      BY <1>2, ExtremesAre, NumberBound
    <3>2. Number(Full4) = x
      <4> HIDE DEF x
      <4> QED
        BY <2>2, <2>7, <3>1
    <3> QED
      BY <1>2, <1>4, <3>1, <3>2, NumberOrder, Zenon
  <2>9. inc.bytes = Zero4
    <3>1. (x + 1) % Words = 0
      <4> HIDE DEF x
      <4> QED
        BY <2>2, <2>7
    <3>2. Number(inc.bytes) = Number(Zero4) /\ Zero4 \in [1..V4Len -> Byte]
      BY <2>3, <3>1, ExtremesAre, Zenon
    <3> QED
      BY <1>2, <2>3, <3>2, NumberOrder, Zenon
  <2>10. Full4[1] = Base - 1 /\ Zero4[1] = 0
    BY <1>2 DEF Full4, Zero4, Same
  <2>11. last.bytes[1] = inc.bytes[1]
    BY <1>2, <2>4
  <2> QED
    BY <2>8, <2>9, <2>10, <2>11, BaseType
<1> QED
  BY <1>5, <1>6, <1>7, <1>8

\* A loopback address is one of class A, and not a multicast address.
LEMMA LoopbackIs ==
  ASSUME NEW a \in V4Address, IsLoopback(a)
  PROVE  IsClassA(a) /\ ~IsMulticast(a)
<1>1. PICK m \in Nat \ {0} : Base = 16 * m
  BY BaseIs
<1>2. Base \div 2 = 8 * m /\ Base \div 16 = m
  BY <1>1
<1>3. IsV4(a) /\ a.bytes[1] = 8 * m - 1
  BY <1>2, V4Is DEF IsLoopback, IsLoopbackV4
<1>4. (8 * m - 1) \div (8 * m) = 0 /\ (8 * m - 1) \div m = 7
  <2>1. (0 * (8 * m) + (8 * m - 1)) \div (8 * m) = 0
    BY DivisionOf
  <2>2. (7 * m + (m - 1)) \div m = 7
    BY DivisionOf
  <2>3. 0 * (8 * m) + (8 * m - 1) = 8 * m - 1 /\ 7 * m + (m - 1) = 8 * m - 1
    OBVIOUS
  <2> QED
    BY <2>1, <2>2, <2>3
<1>5. Leading(a.bytes[1], 2) = 0 /\ Leading(a.bytes[1], 16) = 7
  BY <1>2, <1>3, <1>4, Zenon DEF Leading
<1> QED
  BY <1>3, <1>5 DEF IsClassA, IsMulticast, IsMulticastV4

\* What is asked of the conversions is true of any address a loop is at.
LEMMA Converts == RangeInv => ConversionsAgree
<1> SUFFICES ASSUME RangeInv PROVE ConversionsAgree
  OBVIOUS
<1>1. at \in AnyAddress
  BY WhereAt
<1>2. CASE IsV4(at)
  <2>1. at \in V4Address
    BY <1>1, <1>2, AddressIs
  <2> DEFINE mask == Netmask(at)
             last == Broadcast(at, mask)
  <2>2. /\ ~Less(last, at) /\ Netmask(last) = mask /\ Broadcast(last, mask) = last
        /\ \/ Broadcast(Increment(last), mask) # last
           \/ Netmask(Increment(last)) # mask
    BY <2>1, LastOfNetwork, Zenon
  <2>3. IsLoopback(at) => IsClassA(at) /\ ~IsMulticast(at)
    BY <2>1, LoopbackIs, Zenon
  <2>4. /\ IsV4Mapped(V4Mapped(at)) /\ ToV4(V4Mapped(at)) = at
        /\ HasV4(V4Compatible(at)) <=> Number(at.bytes) > 1
        /\ ToV4(V4Compatible(at)) = at
    BY <2>1, FormsOfV4, Zenon
  <2> QED
    BY <1>2, <2>2, <2>3, <2>4, Zenon DEF ConversionsAgree
<1>3. CASE ~IsV4(at)
  <2>1. at \in V6Address
    BY <1>1, <1>3, AddressIs
  <2> QED
    BY <1>3, <2>1, FormsOfV6, Zenon DEF ConversionsAgree
<1> QED
  BY <1>2, <1>3

-----------------------------------------------------------------------------
(* The program that uses both.                                              *)

\* The inductive invariant of the program: the two components', and the verdict.
IInv ==
  /\ RangeInv
  /\ EndpointInv
  /\ verdict \in {"in", "out", "none"}
  /\ FilterIsRight

\* to_v4() makes an IPv4 address.
LEMMA ToV4Is ==
  ASSUME NEW a \in V6Address
  PROVE  ToV4(a) \in V4Address
<1>1. a.bytes \in [1..V6Len -> Byte] /\ V6Len \in Nat
  BY V6Is, LengthType
<1>2. /\ Zeros + Ones \in 0..V6Len /\ V6Len - (Zeros + Ones) = V4Len
  BY BytesAssumption DEF V6Len, V4Len
<1>3. SubSeq(a.bytes, Zeros + Ones + 1, V6Len) \in [1..V4Len -> Byte]
  BY <1>1, <1>2, PartsType
<1> QED
  BY <1>3, V4Type DEF ToV4, Suffix

\* What is looked up is an address.
LEMMA ConvertedType ==
  ASSUME NEW a \in AnyAddress
  PROVE  Converted(a) \in AnyAddress
<1>1. CASE IsV4(a)
  BY <1>1 DEF Converted
<1>2. CASE ~IsV4(a)
  BY <1>2, AddressIs, ToV4Is DEF Converted, AnyAddress
<1> QED
  BY <1>1, <1>2

\* Where an address lies says whether it is before another.
LEMMA AtOrAfterIs ==
  ASSUME NEW a \in AnyAddress, NEW b \in AnyAddress, a.type = b.type
  PROVE  AtOrAfter(a, b) <=> ~Less(a, b)
<1>1. /\ Number(a.bytes) \in Nat /\ Number(b.bytes) \in Nat
      /\ a.scope \in Nat /\ b.scope \in Nat
  BY AddressIs
<1>2. Less(a, b) <=> \/ Number(a.bytes) < Number(b.bytes)
                     \/ Number(a.bytes) = Number(b.bytes) /\ a.scope < b.scope
  BY LessIs
<1> HIDE DEF Less
<1> QED
  BY <1>1, <1>2 DEF AtOrAfter

\* A lookup judges the peer's address by its number.
LEMMA SeekKeeps == IInv /\ Seek => IInv'
<1> SUFFICES ASSUME IInv, Seek PROVE IInv'
  OBVIOUS
<1> DEFINE a == AddressOf(ep)
           c == Converted(a)
           comparable == Convertible(a) /\ c.type = range.begin.type
<1>1. /\ range \in Ranges /\ range' = range /\ ep' = ep /\ peer' = peer /\ calls' = calls
      /\ range.begin \in AnyAddress /\ range.end \in AnyAddress
      /\ range.begin.type = range.end.type
  BY WhereAt, RangeIs DEF IInv, Seek, ep_vars
<1>2. a \in AnyAddress /\ c \in AnyAddress
  <2>1. a \in AnyAddress
    BY AddressOfType DEF IInv, EndpointInv, EndpointTypeOK, Unions
  <2> QED
    BY <2>1, ConvertedType
<1>3. /\ comparable => /\ verdict' = IF Find(range, c) = range.end THEN "out" ELSE "in"
                       /\ StartAt(Find(range, c))
      /\ ~comparable => verdict' = "out" /\ UNCHANGED loop
  BY DEF Seek
<1>4. EndpointInv'
  BY <1>1 DEF IInv, EndpointInv, EndpointTypeOK, PeerWritten
<1>5. RangeInv'
  <2>1. CASE comparable
    <3>1. Find(range, c) \in AnyAddress /\ Find(range, c).type = range.begin.type
      BY <1>1, <1>2, <2>1, FindIs
    <3>2. Started'
      BY <1>1, <1>3, <2>1, <3>1 DEF StartAt, Started
    <3> QED
      BY <3>2, RangeStarts
  <2>2. CASE ~comparable
    BY <1>1, <1>3, <2>2
    DEF loop, IInv, RangeInv, RangeTypeOK, Placed, Swept
  <2> QED
    BY <2>1, <2>2
<1>6. verdict' \in {"in", "out", "none"}
  BY <1>3
<1>7. FilterIsRight'
  <2> SUFFICES ASSUME peer # NoPeer
               PROVE  verdict' = "in" <=>
                        /\ Convertible(peer.address)
                        /\ Converted(peer.address).type = range.begin.type
                        /\ AtOrAfter(Converted(peer.address), range.begin)
                        /\ ~AtOrAfter(Converted(peer.address), range.end)
    BY <1>1 DEF FilterIsRight, Convertible, Converted
  <2>1. peer.address = a
    BY DEF IInv, EndpointInv, PeerWritten
  <2>2. CASE comparable
    <3>1. Find(range, c) # range.end <=> ~Less(c, range.begin) /\ Less(c, range.end)
      BY <1>1, <1>2, <2>2, FindIs
    <3>2. /\ AtOrAfter(c, range.begin) <=> ~Less(c, range.begin)
          /\ AtOrAfter(c, range.end) <=> ~Less(c, range.end)
      BY <1>1, <1>2, <2>2, AtOrAfterIs
    <3> QED
      BY <1>3, <2>1, <2>2, <3>1, <3>2
  <2>3. CASE ~comparable
    BY <1>3, <2>1, <2>3
  <2> QED
    BY <2>2, <2>3
<1> QED
  BY <1>4, <1>5, <1>6, <1>7 DEF IInv

\* The invariant holds when the program starts,
LEMMA FilterInitially == Init => IInv
BY RangeInitially, EndpointInitially DEF Init, IInv, FilterIsRight

\* every step keeps it,
LEMMA FilterKeeps == IInv /\ [Next]_vars => IInv'
<1> SUFFICES ASSUME IInv, [Next]_vars PROVE IInv'
  OBVIOUS
<1>1. CASE Loop
  <2>1. RangeInv'
    BY <1>1, VisitKeeps, RetreatKeeps DEF IInv, Loop, RangeNext
  <2>2. /\ ep' = ep /\ peer' = peer /\ calls' = calls /\ verdict' = verdict /\ range' = range
    BY <1>1 DEF Loop, RangeNext, Visit, Retreat, ep_vars
  <2>3. EndpointInv'
    BY <2>2 DEF IInv, EndpointInv, EndpointTypeOK, PeerWritten
  <2>4. FilterIsRight'
    BY <2>2 DEF IInv, FilterIsRight, Convertible, Converted
  <2> QED
    BY <2>1, <2>2, <2>3, <2>4 DEF IInv
<1>2. CASE Endpoints
  <2>1. EndpointInv' /\ verdict' = "none"
    BY <1>2, EndpointKeeps DEF IInv, Endpoints
  <2>2. RangeInv'
    BY <1>2 DEF Endpoints, range_vars, loop, IInv, RangeInv, RangeTypeOK, Placed, Swept
  <2> QED
    BY <2>1, <2>2 DEF IInv, FilterIsRight
<1>3. CASE Seek
  BY <1>3, SeekKeeps
<1>4. CASE UNCHANGED vars
  BY <1>4
  DEF vars, range_vars, loop, ep_vars, IInv, RangeInv, RangeTypeOK, Placed, Swept,
      EndpointInv, EndpointTypeOK, PeerWritten, FilterIsRight, Convertible, Converted
<1> QED
  BY <1>1, <1>2, <1>3, <1>4 DEF Next

\* and so it holds for ever.
LEMMA Always == Spec => []IInv
BY FilterInitially, FilterKeeps, PTL DEF Spec

\* No operation of an address, a range or an endpoint makes a value that is not
\* one of its type: ++ and -- stay among the addresses of the loop's type, and
\* what a system call wrote over an endpoint can be read, whatever its length.
THEOREM TypeCorrect == Spec => []TypeOK
<1>1. IInv => TypeOK
  BY DEF IInv, RangeInv, EndpointInv, TypeOK
<1> QED
  BY <1>1, Always, PTL

\* A loop over a range, both ways, and find() agree, whatever the width of a byte,
\* the length of an address and the ends of the range (address_v4_iterator.hpp,
\* address_v6_iterator.hpp, address_v6_range.hpp:87-91).
THEOREM IterationAgreesAlways == Spec => []IterationAgrees
<1>1. IInv => IterationAgrees
  BY Agrees DEF IInv
<1> QED
  BY <1>1, Always, PTL

\* An endpoint that a system call filled, with room for the peer's address, is
\* equal to the one constructed from that address and port, whatever the union
\* held before (endpoint.ipp:107-160).
THEOREM PeerIsAlwaysKnown == Spec => []PeerIsKnown
<1>1. IInv => PeerIsKnown
  BY Known DEF IInv
<1> QED
  BY <1>1, Always, PTL

\* The verdict on a peer is a comparison of numbers, by way of the endpoint, the
\* conversion and find() with its order of bytes in memory.
THEOREM FilterIsAlwaysRight == Spec => []FilterIsRight
<1>1. IInv => FilterIsRight
  BY DEF IInv
<1> QED
  BY <1>1, Always, PTL

\* A broadcast address is the last of its network, and the forms of an IPv4
\* address in IPv6 lead back to it, for bytes of any width and prefixes of any
\* length (address_v4.ipp:103-147, address_v6.ipp:118-216).
THEOREM ConversionsAlwaysAgree == Spec => []ConversionsAgree
<1>1. IInv => ConversionsAgree
  BY Converts DEF IInv
<1> QED
  BY <1>1, Always, PTL

-----------------------------------------------------------------------------
(* The buffers.                                                             *)

\* The values of a shared_ptr.
Holders == Controls \cup {NoControl}

\* The control blocks that will free b.
Live(h, b) == {c \in Held(h) : c.owns /\ c.block = b}

\* Control blocks are numbered as they are made.
NumbersKept == \A x \in Bufs : holder[x] # NoControl => holder[x].no <= assigns

\* Every time a block was given away it was freed since or will be; one that
\* the program freed was never given, and nothing holds it.
Accounts ==
  \A b \in Blocks :
    /\ given[b] <= assigns
    /\ \/ freed[b] + Cardinality(Live(holder, b)) = given[b]
       \/ /\ given[b] = 0 /\ freed[b] = 1
          /\ \A x \in Bufs : holder[x] # NoControl => holder[x].block # b

\* A buffer that says it has bytes has a block.
Lengths == \A x \in alive : length[x] > 0 => holder[x] # NoControl

\* So has a native buffer; the sum is that of the sizes; the rest is left out
\* only for want of room.
Handing ==
  /\ \A i \in 1..handed.count : handed.buffers[i].size > 0 => handed.buffers[i].holder # NoControl
  /\ handed.total_size = 0 <=> \A i \in 1..handed.count : handed.buffers[i].size = 0
  /\ handed.rest # << >> => handed.count = MaxBuffers

\* What holds of the buffers in every state.
BuffersInv == BuffersTypeOK /\ NumbersKept /\ Accounts /\ Lengths /\ Handing

\* A control block is not none, and has its parts.
LEMMA ControlIs ==
  ASSUME NEW c \in Controls
  PROVE  c # NoControl /\ c.no \in Nat /\ c.block \in Blocks /\ c.owns \in BOOLEAN
<1>1. c.no \in 1..MaxAssigns /\ c.block \in Blocks /\ c.owns \in BOOLEAN
  BY DEF Controls
<1>2. c.no # 0 /\ NoControl.no = 0 /\ c.no \in Nat
  BY <1>1, BuffersAssumption DEF NoControl
<1> QED
  BY <1>1, <1>2

\* There are no more control blocks than buffers.
LEMMA HeldIs ==
  ASSUME NEW h \in [Bufs -> Holders]
  PROVE  /\ Held(h) \in SUBSET Controls /\ IsFiniteSet(Held(h))
         /\ \A b : IsFiniteSet(Live(h, b)) /\ Cardinality(Live(h, b)) \in Nat
         /\ \A c : c \in Held(h) <=> c # NoControl /\ \E x \in Bufs : c = h[x]
<1>1. \A c : c \in Held(h) <=> c # NoControl /\ \E x \in Bufs : c = h[x]
  BY DEF Held
<1>2. Held(h) \in SUBSET Controls
  BY <1>1 DEF Holders
<1> DEFINE S == {x \in Bufs : h[x] # NoControl}
           g == [x \in S |-> h[x]]
<1>3. IsFiniteSet(S)
  BY BuffersAssumption, FS_Subset
<1>4. g \in Surjection(S, Held(h))
  <2>1. g \in [S -> Held(h)]
    BY <1>1
  <2>2. \A c \in Held(h) : \E x \in S : g[x] = c
    BY <1>1
  <2> QED
    BY <2>1, <2>2, Zenon DEF Surjection
<1>5. IsFiniteSet(Held(h))
  <2> HIDE DEF S, g
  <2> QED
    BY <1>3, <1>4, FS_Surjection
<1>6. \A b : IsFiniteSet(Live(h, b)) /\ Cardinality(Live(h, b)) \in Nat
  <2> SUFFICES ASSUME NEW b PROVE IsFiniteSet(Live(h, b)) /\ Cardinality(Live(h, b)) \in Nat
    OBVIOUS
  <2>1. Live(h, b) \in SUBSET Held(h)
    BY DEF Live
  <2> QED
    BY <1>5, <2>1, FS_Subset, FS_CardinalityType
<1> QED
  BY <1>1, <1>2, <1>5, <1>6

\* What a change of holders frees are the control blocks that owned the block
\* and are held no more.
LEMMA HoldCounts ==
  ASSUME BuffersTypeOK, NEW h \in [Bufs -> Holders], Hold(h), NEW b \in Blocks
  PROVE  /\ holder' = h /\ freed'[b] \in Nat /\ freed[b] \in Nat
         /\ freed'[b] + Cardinality(Live(holder, b) \cap Live(h, b))
              = freed[b] + Cardinality(Live(holder, b))
         /\ Cardinality(Live(holder, b)) \in Nat
         /\ IsFiniteSet(Live(holder, b) \cap Live(h, b))
         /\ Cardinality(Live(holder, b) \cap Live(h, b)) \in Nat
<1> DEFINE old == Live(holder, b)
           new == Live(h, b)
<1>1. holder \in [Bufs -> Holders] /\ freed[b] \in Nat
  BY BuffersAssumption DEF BuffersTypeOK, Holders
<1>2. IsFiniteSet(old) /\ Cardinality(old) \in Nat
  BY <1>1, HeldIs
<1>3. {c \in Held(holder) \ Held(h) : c.owns /\ c.block = b} = old \ new
  BY DEF Live
<1>4. holder' = h /\ freed'[b] = freed[b] + Cardinality(old \ new)
  BY <1>3 DEF Hold
<1> HIDE DEF old, new
<1>5. /\ IsFiniteSet(old \ new) /\ IsFiniteSet(old \cap new)
      /\ Cardinality(old \ new) = Cardinality(old) - Cardinality(old \cap new)
  BY <1>2, FS_Difference, FS_Intersection
<1>6. Cardinality(old \ new) \in Nat /\ Cardinality(old \cap new) \in Nat
  BY <1>5, FS_CardinalityType
<1>7. freed'[b] \in Nat /\ freed'[b] + Cardinality(old \cap new) = freed[b] + Cardinality(old)
  BY <1>1, <1>2, <1>4, <1>5, <1>6
<1> QED
  BY <1>1, <1>2, <1>4, <1>5, <1>6, <1>7 DEF old, new

\* Control blocks that pass from buffer to buffer, or are let go.
LEMMA PassingKeeps ==
  ASSUME BuffersInv, NEW h \in [Bufs -> Holders], Hold(h),
         \A x \in Bufs : h[x] # NoControl => \E y \in Bufs : h[x] = holder[y],
         UNCHANGED <<assigns, given>>
  PROVE  /\ holder' = h /\ freed' \in [Blocks -> 0..MaxAssigns]
         /\ NumbersKept' /\ Accounts'
<1>1. /\ holder \in [Bufs -> Holders] /\ holder' = h /\ assigns \in 0..MaxAssigns
      /\ given \in [Blocks -> 0..MaxAssigns]
      /\ assigns' = assigns /\ given' = given
  BY DEF BuffersInv, BuffersTypeOK, Holders, Hold
<1>2. Held(h) \subseteq Held(holder)
  BY DEF Held
<1>3. ASSUME NEW b \in Blocks
      PROVE  /\ freed'[b] \in 0..MaxAssigns
             /\ given[b] <= assigns
             /\ \/ freed'[b] + Cardinality(Live(h, b)) = given[b]
                \/ /\ given[b] = 0 /\ freed'[b] = 1
                   /\ \A x \in Bufs : h[x] # NoControl => h[x].block # b
  <2>1. Live(holder, b) \cap Live(h, b) = Live(h, b)
    BY <1>2 DEF Live
  <2>2. /\ freed'[b] \in Nat /\ freed[b] \in Nat
        /\ freed'[b] + Cardinality(Live(h, b)) = freed[b] + Cardinality(Live(holder, b))
        /\ Cardinality(Live(h, b)) \in Nat /\ Cardinality(Live(holder, b)) \in Nat
    BY <2>1, HoldCounts, Zenon DEF BuffersInv
  <2>3. given[b] <= assigns /\ given[b] \in Nat
    BY <1>1, BuffersAssumption DEF BuffersInv, Accounts
  <2>4. CASE freed[b] + Cardinality(Live(holder, b)) = given[b]
    <3>1. freed'[b] + Cardinality(Live(h, b)) = given[b]
      BY <2>2, <2>4
    <3>2. freed'[b] \in 0..MaxAssigns
      <4> DEFINE f == freed'[b]
                 n == Cardinality(Live(h, b))
      <4>1. f \in Nat /\ n \in Nat /\ f + n = given[b]
        BY <2>2, <3>1
      <4> HIDE DEF f, n
      <4>2. f \in 0..MaxAssigns
        BY <1>1, <2>3, <4>1, BuffersAssumption
      <4> QED
        BY <4>2 DEF f
    <3> QED
      BY <2>3, <3>1, <3>2
  <2>5. CASE /\ given[b] = 0 /\ freed[b] = 1
             /\ \A x \in Bufs : holder[x] # NoControl => holder[x].block # b
    <3>1. \A x \in Bufs : h[x] # NoControl => h[x].block # b
      BY <2>5
    <3>2. Live(holder, b) = {} /\ Live(h, b) = {}
      BY <2>5, <3>1 DEF Live, Held
    <3>3. freed'[b] = 1
      BY <2>2, <2>5, <3>2
    <3> QED
      BY <2>3, <2>5, <3>1, <3>3, BuffersAssumption
  <2> QED
    BY <2>4, <2>5 DEF BuffersInv, Accounts
<1>4. freed' \in [Blocks -> 0..MaxAssigns]
  <2>1. freed' = [b \in Blocks |-> freed'[b]]
    BY DEF Hold
  <2> QED
    BY <1>3, <2>1
<1>5. NumbersKept'
  BY <1>1 DEF BuffersInv, NumbersKept
<1>6. Accounts'
  BY <1>1, <1>3, Zenon DEF Accounts
<1> QED
  BY <1>1, <1>4, <1>5, <1>6

\* A control block that is new, in place of what x held.
LEMMA GivingKeeps ==
  ASSUME BuffersInv, NEW x \in Bufs, NEW b \in Blocks, NEW n, NEW need_del \in BOOLEAN,
         Assign(x, b, n, need_del)
  PROVE  /\ holder' \in [Bufs -> Holders] /\ holder'[x] # NoControl
         /\ \A y \in Bufs : y # x => holder'[y] = holder[y]
         /\ freed' \in [Blocks -> 0..MaxAssigns]
         /\ given' \in [Blocks -> 0..MaxAssigns]
         /\ NumbersKept' /\ Accounts'
<1> DEFINE new == [block |-> b, owns |-> need_del, no |-> assigns + 1]
           h == [holder EXCEPT ![x] = new]
<1>1. /\ holder \in [Bufs -> Holders] /\ assigns \in 0..MaxAssigns /\ assigns < MaxAssigns
      /\ given \in [Blocks -> 0..MaxAssigns] /\ MaxAssigns \in Nat
      /\ assigns' = assigns + 1 /\ freed[b] = 0
  BY BuffersAssumption DEF BuffersInv, BuffersTypeOK, Holders, Assign
<1>2. new \in Controls
  BY <1>1 DEF Controls
<1>3. h \in [Bufs -> Holders] /\ h[x] = new /\ \A y \in Bufs : y # x => h[y] = holder[y]
  BY <1>1, <1>2 DEF Holders
<1>4. /\ Hold(h) /\ holder' = h
      /\ given' = IF need_del THEN [given EXCEPT ![b] = @ + 1] ELSE given
  BY DEF Assign, Hold
<1>5. new # NoControl /\ new.owns = need_del /\ new.block = b /\ new.no = assigns + 1
  BY <1>2, ControlIs
<1>6. new \notin Held(holder)
  <2> SUFFICES ASSUME NEW y \in Bufs, holder[y] = new PROVE FALSE
    BY <1>1, HeldIs
  <2>1. holder[y].no <= assigns
    BY <1>5 DEF BuffersInv, NumbersKept
  <2> QED
    BY <1>1, <1>5, <2>1
<1> HIDE DEF new, h
<1>7. /\ \A c : c \in Held(h) => c = new \/ c \in Held(holder)
      /\ new \in Held(h)
  <2>1. \A c : c \in Held(h) <=> c # NoControl /\ \E y \in Bufs : c = h[y]
    BY <1>3, HeldIs
  <2>2. \A c : c \in Held(holder) <=> c # NoControl /\ \E y \in Bufs : c = holder[y]
    BY <1>1, HeldIs
  <2> QED
    BY <1>3, <1>5, <2>1, <2>2
<1>8. ASSUME NEW d \in Blocks
      PROVE  /\ freed'[d] \in 0..MaxAssigns
             /\ given'[d] <= assigns + 1
             /\ \/ freed'[d] + Cardinality(Live(h, d)) = given'[d]
                \/ /\ given'[d] = 0 /\ freed'[d] = 1
                   /\ \A y \in Bufs : h[y] # NoControl => h[y].block # d
  <2> DEFINE kept == Live(holder, d) \cap Live(h, d)
  <2>1. /\ freed'[d] \in Nat /\ freed[d] \in Nat
        /\ freed'[d] + Cardinality(kept) = freed[d] + Cardinality(Live(holder, d))
        /\ Cardinality(Live(holder, d)) \in Nat
        /\ IsFiniteSet(kept) /\ Cardinality(kept) \in Nat
    BY <1>3, <1>4, HoldCounts, Zenon DEF BuffersInv
  <2>2. given[d] <= assigns /\ given[d] \in Nat
    BY <1>1 DEF BuffersInv, Accounts
  <2>3. CASE freed[d] + Cardinality(Live(holder, d)) = given[d]
    <3>1. CASE need_del /\ d = b
      <4>1. Live(h, d) = kept \cup {new} /\ new \notin kept
        BY <1>5, <1>6, <1>7, <3>1 DEF Live
      <4>2. Cardinality(Live(h, d)) = Cardinality(kept) + 1
        <5> HIDE DEF kept
        <5> QED
          BY <2>1, <4>1, FS_AddElement
      <4>3. given'[d] = given[d] + 1
        BY <1>1, <1>4, <3>1
      <4>4. freed'[d] + Cardinality(Live(h, d)) = given'[d] /\ given'[d] <= assigns + 1
        <5> HIDE DEF kept
        <5> QED
          BY <1>1, <2>1, <2>2, <2>3, <4>2, <4>3
      <4>5. freed'[d] \in 0..MaxAssigns
        <5> HIDE DEF kept
        <5> QED
          BY <1>1, <2>1, <2>2, <2>3, <4>2, <4>3, <4>4
      <4> QED
        BY <4>4, <4>5
    <3>2. CASE ~(need_del /\ d = b)
      <4>1. Live(h, d) = kept
        BY <1>5, <1>6, <1>7, <3>2 DEF Live
      <4>2. given'[d] = given[d]
        BY <1>1, <1>4, <3>2
      <4>3. freed'[d] + Cardinality(Live(h, d)) = given'[d] /\ given'[d] <= assigns + 1
        <5> HIDE DEF kept
        <5> QED
          BY <1>1, <2>1, <2>2, <2>3, <4>1, <4>2
      <4>4. freed'[d] \in 0..MaxAssigns
        <5> HIDE DEF kept
        <5> QED
          BY <1>1, <2>1, <2>2, <2>3, <4>1, <4>2, <4>3
      <4> QED
        BY <4>3, <4>4
    <3> QED
      BY <3>1, <3>2
  <2>4. CASE /\ given[d] = 0 /\ freed[d] = 1
             /\ \A y \in Bufs : holder[y] # NoControl => holder[y].block # d
    <3>1. d # b
      BY <1>1, <2>4
    <3>2. given'[d] = given[d]
      BY <1>1, <1>4, <3>1
    <3>3. \A y \in Bufs : h[y] # NoControl => h[y].block # d
      BY <1>3, <1>5, <2>4, <3>1
    <3>4. Live(holder, d) = {} /\ kept = {}
      BY <2>4 DEF Live, Held
    <3>5. freed'[d] = 1
      BY <2>1, <2>4, <3>4
    <3> QED
      BY <1>1, <2>2, <2>4, <3>2, <3>3, <3>5
  <2> QED
    BY <2>3, <2>4 DEF BuffersInv, Accounts
<1>9. freed' \in [Blocks -> 0..MaxAssigns]
  <2>1. freed' = [d \in Blocks |-> freed'[d]]
    BY <1>4 DEF Hold
  <2> QED
    BY <1>8, <2>1
<1>10. given' \in [Blocks -> 0..MaxAssigns]
  <2>1. \A d \in Blocks : given[d] <= assigns
    BY DEF BuffersInv, Accounts
  <2>2. given[b] + 1 \in 0..MaxAssigns
    BY <1>1, <2>1
  <2> QED
    BY <1>1, <1>4, <2>2
<1>11. NumbersKept'
  <2> SUFFICES ASSUME NEW y \in Bufs, h[y] # NoControl PROVE h[y].no <= assigns + 1
    BY <1>1, <1>4, Zenon DEF NumbersKept
  <2>1. CASE y = x
    BY <1>1, <1>3, <1>5, <2>1
  <2>2. CASE y # x
    <3>1. holder[y] # NoControl /\ h[y] = holder[y] /\ holder[y] \in Controls
      BY <1>1, <1>3, <2>2 DEF Holders
    <3>2. holder[y].no <= assigns /\ holder[y].no \in Nat
      BY <3>1, ControlIs DEF BuffersInv, NumbersKept
    <3> QED
      BY <1>1, <3>1, <3>2
  <2> QED
    BY <2>1, <2>2
<1>12. Accounts'
  BY <1>1, <1>4, <1>8, Zenon DEF Accounts
<1> QED
  BY <1>3, <1>4, <1>5, <1>9, <1>10, <1>11, <1>12

\* The calls of one or two buffers.
Moves(x, y) == MoveConstruct(x, y) \/ MoveAssign(x, y)
Copies(x, y) == CopyConstruct(x, y) \/ CopyAssign(x, y)

\* Nothing handed over is nothing wrong.
LEMMA NothingHandedIs == NothingHanded => Handing' /\ handed'.count \in 0..MaxBuffers
BY BuffersAssumption DEF NothingHanded, Nothing, Handing

\* A copy shares the control block.
LEMMA CopyKeeps ==
  ASSUME BuffersInv, NEW x \in Bufs, NEW y \in Bufs, Copies(x, y)
  PROVE  BuffersInv'
<1> DEFINE h == [holder EXCEPT ![x] = holder[y]]
<1>1. /\ holder \in [Bufs -> Holders] /\ length \in [Bufs -> 0..BlockSize]
      /\ alive \subseteq Bufs /\ y \in alive /\ alive' = alive \cup {x}
      /\ length' = [length EXCEPT ![x] = length[y]]
      /\ assigns' = assigns /\ given' = given
  BY DEF BuffersInv, BuffersTypeOK, Holders, Copies, CopyConstruct, CopyAssign
<1>2. Hold(h) /\ NothingHanded
  BY DEF Copies, CopyConstruct, CopyAssign
<1>3. h \in [Bufs -> Holders] /\ \A z \in Bufs : \E w \in Bufs : h[z] = holder[w]
  BY <1>1
<1>4. holder' = h /\ freed' \in [Blocks -> 0..MaxAssigns] /\ NumbersKept' /\ Accounts'
  <2> HIDE DEF h
  <2> QED
    BY <1>1, <1>2, <1>3, PassingKeeps
<1>5. BuffersTypeOK'
  <2>1. \A z \in Bufs \ alive' : holder'[z] = NoControl /\ length'[z] = 0
    BY <1>1, <1>4 DEF BuffersInv, BuffersTypeOK
  <2>2. length' \in [Bufs -> 0..BlockSize] /\ alive' \subseteq Bufs
    BY <1>1
  <2> QED
    BY <1>1, <1>2, <1>3, <1>4, <2>1, <2>2, NothingHandedIs
    DEF BuffersInv, BuffersTypeOK, Holders
<1>6. Lengths'
  BY <1>1, <1>4 DEF BuffersInv, Lengths
<1> QED
  BY <1>2, <1>4, <1>5, <1>6, NothingHandedIs DEF BuffersInv

\* A move hands it on, and keeps it when the object moves to itself.
LEMMA MoveKeeps ==
  ASSUME BuffersInv, NEW x \in Bufs, NEW y \in Bufs, Moves(x, y)
  PROVE  BuffersInv'
<1>1. /\ holder \in [Bufs -> Holders] /\ length \in [Bufs -> 0..BlockSize]
      /\ alive \subseteq Bufs /\ y \in alive /\ alive' = alive \cup {x}
      /\ length' = [[length EXCEPT ![x] = length[y]] EXCEPT ![y] = 0]
      /\ assigns' = assigns /\ given' = given
  BY DEF BuffersInv, BuffersTypeOK, Holders, Moves, MoveConstruct, MoveAssign
<1>2. Hold(MovedTo(x, y)) /\ NothingHanded
  BY DEF BuffersInv, BuffersTypeOK, Moves, MoveConstruct, MoveAssign, MovedTo
<1> DEFINE h == MovedTo(x, y)
<1>3. /\ h \in [Bufs -> Holders]
      /\ \A z \in Bufs : h[z] # NoControl => \E w \in Bufs : h[z] = holder[w]
      /\ x # y => h[x] = holder[y]
      /\ x = y => h = holder
      /\ \A z \in Bufs \ {x, y} : h[z] = holder[z]
  BY <1>1 DEF MovedTo, Holders
<1>4. holder' = h /\ freed' \in [Blocks -> 0..MaxAssigns] /\ NumbersKept' /\ Accounts'
  <2> HIDE DEF h
  <2> QED
    BY <1>1, <1>2, <1>3, PassingKeeps DEF h
<1> HIDE DEF h
<1>5. BuffersTypeOK'
  <2>1. \A z \in Bufs \ alive' : holder'[z] = NoControl /\ length'[z] = 0
    BY <1>1, <1>3, <1>4 DEF BuffersInv, BuffersTypeOK
  <2>2. length' \in [Bufs -> 0..BlockSize] /\ alive' \subseteq Bufs
    BY <1>1, BuffersAssumption
  <2> QED
    BY <1>1, <1>2, <1>3, <1>4, <2>1, <2>2, NothingHandedIs
    DEF BuffersInv, BuffersTypeOK, Holders
<1>6. Lengths'
  BY <1>1, <1>3, <1>4 DEF BuffersInv, Lengths
<1> QED
  BY <1>2, <1>4, <1>5, <1>6, NothingHandedIs DEF BuffersInv

\* assign() makes a control block and may let one go.
LEMMA AssignKeeps ==
  ASSUME BuffersInv, NEW x \in Bufs, NEW b \in Blocks, NEW n \in {0, BlockSize},
         NEW need_del \in BOOLEAN, Assign(x, b, n, need_del)
  PROVE  BuffersInv'
<1>1. /\ holder' \in [Bufs -> Holders] /\ holder'[x] # NoControl
      /\ \A y \in Bufs : y # x => holder'[y] = holder[y]
      /\ freed' \in [Blocks -> 0..MaxAssigns]
      /\ given' \in [Blocks -> 0..MaxAssigns]
      /\ NumbersKept' /\ Accounts'
  BY GivingKeeps
<1>2. /\ alive' = alive \cup {x} /\ assigns' = assigns + 1 /\ assigns < MaxAssigns
      /\ length' = [length EXCEPT ![x] = n] /\ NothingHanded
      /\ length \in [Bufs -> 0..BlockSize] /\ assigns \in 0..MaxAssigns /\ alive \subseteq Bufs
  BY DEF Assign, BuffersInv, BuffersTypeOK
<1>3. BuffersTypeOK'
  <2>1. \A z \in Bufs \ alive' : holder'[z] = NoControl /\ length'[z] = 0
    BY <1>1, <1>2 DEF BuffersInv, BuffersTypeOK
  <2>2. length' \in [Bufs -> 0..BlockSize] /\ alive' \subseteq Bufs /\ assigns' \in 0..MaxAssigns
    BY <1>2, BuffersAssumption
  <2> QED
    BY <1>1, <1>2, <2>1, <2>2, NothingHandedIs DEF BuffersTypeOK, Holders
<1>4. Lengths'
  BY <1>1, <1>2 DEF BuffersInv, Lengths
<1> QED
  BY <1>1, <1>2, <1>3, <1>4, NothingHandedIs DEF BuffersInv

\* The destructor lets one go.
LEMMA DestroyKeeps ==
  ASSUME BuffersInv, NEW x \in Bufs, Destroy(x)
  PROVE  BuffersInv'
<1> DEFINE h == [holder EXCEPT ![x] = NoControl]
<1>1. /\ holder \in [Bufs -> Holders] /\ length \in [Bufs -> 0..BlockSize]
      /\ alive \subseteq Bufs /\ alive' = alive \ {x}
      /\ length' = [length EXCEPT ![x] = 0]
      /\ assigns' = assigns /\ given' = given /\ Hold(h) /\ NothingHanded
  BY DEF BuffersInv, BuffersTypeOK, Holders, Destroy
<1>2. h \in [Bufs -> Holders] /\ \A z \in Bufs : h[z] # NoControl => \E w \in Bufs : h[z] = holder[w]
  BY <1>1 DEF Holders
<1>3. holder' = h /\ freed' \in [Blocks -> 0..MaxAssigns] /\ NumbersKept' /\ Accounts'
  <2> HIDE DEF h
  <2> QED
    BY <1>1, <1>2, PassingKeeps DEF h
<1>4. BuffersTypeOK'
  <2>1. \A z \in Bufs \ alive' : holder'[z] = NoControl /\ length'[z] = 0
    BY <1>1, <1>3 DEF BuffersInv, BuffersTypeOK
  <2>2. length' \in [Bufs -> 0..BlockSize] /\ alive' \subseteq Bufs
    BY <1>1, BuffersAssumption
  <2> QED
    BY <1>1, <1>2, <1>3, <2>1, <2>2, NothingHandedIs
    DEF BuffersInv, BuffersTypeOK, Holders
<1>5. Lengths'
  BY <1>1, <1>3 DEF BuffersInv, Lengths
<1> QED
  BY <1>1, <1>3, <1>4, <1>5, NothingHandedIs DEF BuffersInv

\* The default constructor makes none.
LEMMA ConstructKeeps ==
  ASSUME BuffersInv, NEW x \in Bufs, Construct(x)
  PROVE  BuffersInv'
<1>1. /\ alive' = alive \cup {x} /\ x \notin alive /\ NothingHanded
      /\ holder' = holder /\ length' = length /\ assigns' = assigns
      /\ freed' = freed /\ given' = given
  BY DEF Construct
<1>2. BuffersTypeOK'
  BY <1>1, NothingHandedIs DEF BuffersInv, BuffersTypeOK
<1>3. NumbersKept' /\ Accounts'
  BY <1>1 DEF BuffersInv, NumbersKept, Accounts
<1>4. Lengths'
  BY <1>1, BuffersAssumption DEF BuffersInv, BuffersTypeOK, Lengths
<1> QED
  BY <1>1, <1>2, <1>3, <1>4, NothingHandedIs DEF BuffersInv

\* What the program frees nobody holds.
LEMMA ProgramFreesKeeps ==
  ASSUME BuffersInv, NEW b \in Blocks, ProgramFrees(b)
  PROVE  BuffersInv'
<1>1. /\ alive' = alive /\ NothingHanded /\ holder' = holder /\ length' = length
      /\ assigns' = assigns /\ given' = given /\ given[b] = 0
      /\ freed' = [freed EXCEPT ![b] = 1]
      /\ \A x \in Bufs : holder[x] # NoControl => holder[x].block # b
      /\ freed \in [Blocks -> 0..MaxAssigns]
  BY DEF ProgramFrees, BuffersInv, BuffersTypeOK
<1>2. BuffersTypeOK'
  BY <1>1, NothingHandedIs, BuffersAssumption DEF BuffersInv, BuffersTypeOK
<1>3. NumbersKept' /\ Lengths'
  BY <1>1 DEF BuffersInv, NumbersKept, Lengths
<1>4. Accounts'
  <2> SUFFICES ASSUME NEW d \in Blocks
               PROVE  /\ given[d] <= assigns
                      /\ \/ freed'[d] + Cardinality(Live(holder, d)) = given[d]
                         \/ /\ given[d] = 0 /\ freed'[d] = 1
                            /\ \A x \in Bufs : holder[x] # NoControl => holder[x].block # d
    BY <1>1, Zenon DEF Accounts
  <2>1. d # b => freed'[d] = freed[d]
    BY <1>1
  <2>2. freed'[b] = 1
    BY <1>1
  <2> QED
    BY <1>1, <2>1, <2>2 DEF BuffersInv, Accounts
<1> QED
  BY <1>1, <1>2, <1>3, <1>4, NothingHandedIs DEF BuffersInv

-----------------------------------------------------------------------------
(* The adapter.                                                             *)

\* f is the function that Total computes.
IsTotal(f, s) ==
  f = [i \in 0..Len(s) |-> IF i = 0 THEN 0 ELSE f[i - 1] + length[s[i]]]

\* Nothing is the sum of sizes that are nothing, and of no others.
LEMMA TotalIs ==
  ASSUME NEW n \in Nat, NEW s \in [1..n -> Bufs], length \in [Bufs -> Nat]
  PROVE  Total(s) = 0 <=> \A i \in 1..n : length[s[i]] = 0
<1>0. \A i \in 1..n : length[s[i]] \in Nat
  OBVIOUS
<1> DEFINE step == [t \in Nat \X (1..n) |-> t[1] + length[s[t[2]]]]
<1>1. step \in [Nat \X (1..n) -> Nat]
  OBVIOUS
<1>2. PICK f \in [0..n -> Nat] : f[0] = 0 /\ \A i \in 1..n : f[i] = step[<<f[i - 1], i>>]
  <2> HIDE DEF step
  <2>1. \E f : Follows(f, n, Nat, 0, step)
    BY <1>1, Recursion
  <2> QED
    BY <2>1 DEF Follows
<1>3. \A i \in 1..n : f[i] = f[i - 1] + length[s[i]]
  <2> SUFFICES ASSUME NEW i \in 1..n PROVE f[i] = f[i - 1] + length[s[i]]
    OBVIOUS
  <2>1. <<f[i - 1], i>> \in Nat \X (1..n)
    OBVIOUS
  <2> QED
    BY <1>2, <2>1
<1>4. IsTotal(f, s)
  <2>1. \A i \in 0..n : f[i] = IF i = 0 THEN 0 ELSE f[i - 1] + length[s[i]]
    <3>1. \A i \in 0..n : i = 0 \/ i \in 1..n
      OBVIOUS
    <3> QED
      BY <1>2, <1>3, <3>1, Zenon
  <2>2. Len(s) = n
    OBVIOUS
  <2> QED
    BY <2>1, <2>2 DEF IsTotal
<1> DEFINE p == CHOOSE p : IsTotal(p, s)
<1>5. IsTotal(p, s)
  BY <1>4, Zenon
<1>6. Total(s) = p[Len(s)]
  BY Zenon DEF Total, IsTotal
<1> HIDE DEF p
<1>7. /\ p[0] = 0 /\ \A i \in 1..n : p[i] = p[i - 1] + length[s[i]]
      /\ Total(s) = p[n]
  <2>1. Len(s) = n
    OBVIOUS
  <2>2. p = [i \in 0..n |-> IF i = 0 THEN 0 ELSE p[i - 1] + length[s[i]]]
    BY <1>5, <2>1 DEF IsTotal
  <2>3. \A i \in 1..n : i \in 0..n /\ i # 0
    OBVIOUS
  <2>4. 0 \in 0..n
    OBVIOUS
  <2> QED
    BY <1>6, <2>1, <2>2, <2>3, <2>4, Zenon
<1> DEFINE S == {k \in 0..n : /\ p[k] \in Nat
                              /\ p[k] = 0 <=> \A i \in 1..k : length[s[i]] = 0}
<1>8. 0 \in S
  BY <1>7
<1>9. ASSUME NEW k \in 1..n, k - 1 \in S PROVE k \in S
  <2>1. p[k] = p[k - 1] + length[s[k]] /\ length[s[k]] \in Nat /\ p[k - 1] \in Nat
    BY <1>0, <1>7, <1>9, Zenon
  <2>2. p[k - 1] = 0 <=> \A i \in 1..(k - 1) : length[s[i]] = 0
    BY <1>9, Zenon
  <2>3. p[k] \in Nat /\ (p[k] = 0 <=> p[k - 1] = 0 /\ length[s[k]] = 0)
    BY <2>1
  <2>4. \A i \in 1..k : i = k \/ i \in 1..(k - 1)
    OBVIOUS
  <2>5. k \in 1..k /\ \A i \in 1..(k - 1) : i \in 1..k
    OBVIOUS
  <2>6. p[k] = 0 <=> \A i \in 1..k : length[s[i]] = 0
    BY <2>2, <2>3, <2>4, <2>5, Zenon
  <2>7. k \in 0..n
    OBVIOUS
  <2> QED
    BY <2>3, <2>6, <2>7
<1>10. 0..n \subseteq S
  <2> HIDE DEF S
  <2> QED
    BY <1>8, <1>9, UpTo
<1>11. n \in S
  <2> HIDE DEF S
  <2> QED
    BY <1>10
<1> QED
  BY <1>7, <1>11

\* The first buffers of a sequence, as many as there is room for.
LEMMA FirstIs ==
  ASSUME NEW n \in Nat, NEW S, NEW s \in [1..n -> S]
  PROVE  \E k \in 0..MaxBuffers :
           /\ k <= n /\ (k = n \/ k = MaxBuffers)
           /\ FirstBuffers(s) \in [1..k -> S] /\ Len(FirstBuffers(s)) = k
           /\ DOMAIN FirstBuffers(s) = 1..k
<1> DEFINE k == IF n > MaxBuffers THEN MaxBuffers ELSE n
           t == SubSeq(s, 1, k)
<1>1. Len(s) = n
  OBVIOUS
<1>2. FirstBuffers(s) = t
  BY <1>1 DEF FirstBuffers
<1>3. k \in 0..MaxBuffers /\ k <= n /\ (k = n \/ k = MaxBuffers) /\ k \in Int
  BY BuffersAssumption
<1> HIDE DEF k
<1>4. \A i \in 1..k : s[i] \in S
  BY <1>3, BuffersAssumption
<1>5. t \in Seq(S) /\ Len(t) = IF 1 <= k THEN k - 1 + 1 ELSE 0
  BY <1>3, <1>4, SubSeqProperties
<1>6. Len(t) = k
  BY <1>3, <1>5, BuffersAssumption
<1> HIDE DEF t
<1>7. t \in [1..k -> S] /\ DOMAIN t = 1..k
  BY <1>5, <1>6, LenProperties
<1> QED
  BY <1>2, <1>3, <1>6, <1>7

\* The adapter hands over what the buffers have.
LEMMA AdaptKeeps ==
  ASSUME BuffersInv, NEW n \in 1..MaxSequence, NEW s \in [1..n -> alive], Adapt(s)
  PROVE  BuffersInv'
<1> DEFINE first == FirstBuffers(s)
<1>1. n \in Nat /\ Len(s) = n /\ alive \subseteq Bufs /\ length \in [Bufs -> Nat]
  BY BuffersAssumption DEF BuffersInv, BuffersTypeOK
<1>2. PICK k \in 0..MaxBuffers :
           /\ k <= n /\ (k = n \/ k = MaxBuffers)
           /\ first \in [1..k -> alive] /\ Len(first) = k /\ DOMAIN first = 1..k
  BY <1>1, FirstIs
<1>3. /\ handed'.buffers = [i \in DOMAIN first |-> ConstBuf(first[i])]
      /\ handed'.count = Len(first)
      /\ handed'.total_size = Total(first)
      /\ handed'.rest = SubSeq(s, Len(first) + 1, Len(s))
      /\ UNCHANGED <<alive, holder, length, assigns, freed, given>>
  BY DEF Adapt
<1> HIDE DEF first
<1>4. \A i \in 1..k : /\ handed'.buffers[i].size = length[first[i]]
                      /\ handed'.buffers[i].holder = holder[first[i]]
                      /\ first[i] \in alive
  BY <1>2, <1>3 DEF ConstBuf
<1>5. handed'.count = k
  BY <1>2, <1>3
<1>6. \A i \in 1..k : handed'.buffers[i].size > 0 => handed'.buffers[i].holder # NoControl
  BY <1>4 DEF BuffersInv, Lengths
<1>7. handed'.total_size = 0 <=> \A i \in 1..k : handed'.buffers[i].size = 0
  <2>1. first \in [1..k -> Bufs] /\ k \in Nat
    BY <1>1, <1>2, BuffersAssumption
  <2>2. Total(first) = 0 <=> \A i \in 1..k : length[first[i]] = 0
    BY <1>1, <2>1, TotalIs
  <2> QED
    BY <1>3, <1>4, <2>2
<1>8. handed'.rest # << >> => k = MaxBuffers
  <2> SUFFICES ASSUME k = n PROVE handed'.rest = << >>
    BY <1>2
  <2>1. SubSeq(s, n + 1, n) = << >>
    <3>1. n + 1 \in Int /\ n \in Int /\ n < n + 1
      BY <1>1
    <3> QED
      BY <3>1, SubSeqEmpty
  <2> QED
    BY <1>1, <1>2, <1>3, <2>1
<1>9. Handing'
  BY <1>5, <1>6, <1>7, <1>8, Zenon DEF Handing
<1>10. BuffersTypeOK'
  BY <1>2, <1>3, <1>5 DEF BuffersInv, BuffersTypeOK
<1>11. NumbersKept' /\ Accounts' /\ Lengths'
  BY <1>3 DEF BuffersInv, NumbersKept, Accounts, Lengths
<1> QED
  BY <1>9, <1>10, <1>11 DEF BuffersInv

-----------------------------------------------------------------------------
\* The invariant holds of a program without buffers,
LEMMA BuffersInitially == BuffersInit => BuffersInv
<1> SUFFICES ASSUME BuffersInit PROVE BuffersInv
  OBVIOUS
<1>1. BuffersTypeOK
  BY BuffersAssumption DEF BuffersInit, BuffersTypeOK, Nothing
<1>2. NumbersKept /\ Lengths /\ Handing
  BY DEF BuffersInit, NumbersKept, Lengths, Handing, Nothing
<1>3. Accounts
  <2>1. \A b \in Blocks : Live(holder, b) = {}
    BY DEF BuffersInit, Live, Held
  <2>2. Cardinality({}) = 0
    BY FS_EmptySet
  <2> QED
    BY <2>1, <2>2, BuffersAssumption DEF BuffersInit, Accounts
<1> QED
  BY <1>1, <1>2, <1>3 DEF BuffersInv

\* every call keeps it,
LEMMA BuffersKeep == BuffersInv /\ [BuffersNext]_buffers_vars => BuffersInv'
<1> SUFFICES ASSUME BuffersInv, [BuffersNext]_buffers_vars PROVE BuffersInv'
  OBVIOUS
<1>1. ASSUME NEW x \in Bufs, Construct(x) \/ Destroy(x) PROVE BuffersInv'
  BY <1>1, ConstructKeeps, DestroyKeeps
<1>2. ASSUME NEW x \in Bufs, NEW y \in Bufs, Copies(x, y) \/ Moves(x, y) PROVE BuffersInv'
  BY <1>2, CopyKeeps, MoveKeeps
<1>3. ASSUME NEW x \in Bufs, NEW b \in Blocks, NEW n \in {0, BlockSize}, NEW need_del \in BOOLEAN,
             Assign(x, b, n, need_del)
      PROVE  BuffersInv'
  BY <1>3, AssignKeeps
<1>4. ASSUME NEW b \in Blocks, ProgramFrees(b) PROVE BuffersInv'
  BY <1>4, ProgramFreesKeeps
<1>5. ASSUME NEW n \in 1..MaxSequence, NEW s \in [1..n -> alive], Adapt(s) PROVE BuffersInv'
  BY <1>5, AdaptKeeps
<1>6. CASE UNCHANGED buffers_vars
  BY <1>6
  DEF buffers_vars, BuffersInv, BuffersTypeOK, NumbersKept, Accounts, Lengths, Handing
<1> QED
  BY <1>1, <1>2, <1>3, <1>4, <1>5, <1>6, Zenon DEF BuffersNext, Copies, Moves

\* and so it holds for ever.
LEMMA BuffersAlways == BuffersSpec => []BuffersInv
BY BuffersInitially, BuffersKeep, PTL DEF BuffersSpec

\* The invariant is enough for BytesAreThere.
LEMMA Bytes == BuffersInv => BytesAreThere
<1> SUFFICES ASSUME BuffersInv PROVE BytesAreThere
  OBVIOUS
<1>1. /\ holder \in [Bufs -> Holders] /\ alive \subseteq Bufs
      /\ freed \in [Blocks -> 0..MaxAssigns] /\ given \in [Blocks -> 0..MaxAssigns]
  BY DEF BuffersInv, BuffersTypeOK, Holders
<1>2. ASSUME NEW b \in Blocks
      PROVE  /\ IsFiniteSet(Live(holder, b)) /\ Cardinality(Live(holder, b)) \in Nat
             /\ Cardinality(Live(holder, b)) = 0 <=> Live(holder, b) = {}
             /\ Live(holder, b) = {} <=> Owners(b) = {}
             /\ freed[b] \in Nat
  <2>1. IsFiniteSet(Live(holder, b)) /\ Cardinality(Live(holder, b)) \in Nat
    BY <1>1, HeldIs
  <2>2. Live(holder, b) = {} <=> Owners(b) = {}
    BY DEF Live, Held, Owners
  <2>3. freed[b] \in Nat
    BY <1>1, BuffersAssumption
  <2> QED
    BY <2>1, <2>2, <2>3, FS_EmptySet
<1>3. ASSUME NEW b \in Blocks, given[b] = 1
      PROVE  freed[b] = IF Owners(b) = {} THEN 1 ELSE 0
  <2>1. freed[b] + Cardinality(Live(holder, b)) = 1
    BY <1>3 DEF BuffersInv, Accounts
  <2> QED
    BY <1>2, <2>1
<1>4. ASSUME NEW x \in alive, length[x] > 0
      PROVE  /\ holder[x] # NoControl
             /\ given[holder[x].block] = 0 \/ (given[holder[x].block] = 1 /\ holder[x].owns)
                  => freed[holder[x].block] = 0
  <2>1. x \in Bufs /\ holder[x] # NoControl /\ holder[x] \in Controls
    BY <1>1, <1>4 DEF BuffersInv, Lengths, Holders
  <2> DEFINE b == holder[x].block
  <2>2. b \in Blocks
    BY <2>1, ControlIs
  <2>3. freed[b] + Cardinality(Live(holder, b)) = given[b]
    BY <2>1, <2>2 DEF BuffersInv, Accounts
  <2>4. given[b] = 0 => freed[b] = 0
    BY <1>2, <2>2, <2>3
  <2>5. given[b] = 1 /\ holder[x].owns => freed[b] = 0
    <3>1. holder[x].owns => Owners(b) # {}
      BY <2>1 DEF Owners
    <3> QED
      BY <1>3, <2>2, <3>1
  <2> QED
    BY <2>1, <2>4, <2>5
<1> QED
  BY <1>3, <1>4 DEF BytesAreThere, BuffersInv, Handing

\* The buffers, the control blocks and what a call is handed keep their types; no
\* block is freed more often than blocks were assigned, and no call is handed more
\* buffers than it takes.
THEOREM BuffersTypeCorrect == BuffersSpec => []BuffersTypeOK
<1>1. BuffersInv => BuffersTypeOK
  BY DEF BuffersInv
<1> QED
  BY <1>1, BuffersAlways, PTL

\* For any number of buffers and blocks, and sequences of any length: memory given
\* away once is freed once, when its last owner lets go, and until then whoever
\* says it has bytes has them (mutablebuf.hpp:52-142,
\* buffer_sequence_adapter.hpp:91-101).
THEOREM BytesAreAlwaysThere == BuffersSpec => []BytesAreThere
<1> QED
  BY Bytes, BuffersAlways, PTL

=============================================================================
