-------------------------- MODULE EchoClientProofs --------------------------
(***************************************************************************)
(* Proofs, for any number of words of any length, of what EchoClient       *)
(* promises of its two threads.  A word that main did not meet in msg      *)
(* stands there character by character as it is read, then whole, and      *)
(* main takes it at most once; for all others nothing but the bounds of    *)
(* the text is kept.                                                       *)
(***************************************************************************)
EXTENDS EchoClient, SequenceTheorems, TLAPS

\* Where main is between its look at the text and the end of its clear.
Taking == pc \in {"view", "send", "clear"}

\* The input thread is in a word, and however main interferes the text grows by
\* no more than one character for each character of the word.
Growth ==
  /\ word = 0 => size = 0 /\ step = "wait" /\ ~Taking
  /\ step = "erase" => stores \subseteq {"size", "end"} /\ ("size" \in stores \/ size = 0)
  /\ step \in {"read", "append"} => pos \in 1..lengths[word]
  /\ step = "read" => size < pos
  /\ step = "append" => old < pos /\ size <= pos

\* The text begins with n characters of the word.
Begun(n) == \A i \in 1..n : cells[i] = <<word, i>>

NotSent == \A i \in DOMAIN sends : sends[i].word # word
WasSent == \E i \in DOMAIN sends : sends[i].word = word

\* A word that is read while main is elsewhere.
Reading ==
  /\ ~Taking /\ NotSent
  /\ step = "read" => size = pos - 1 /\ Begun(pos - 1)
  /\ step = "append" =>
       /\ old = pos - 1 /\ Begun(pos - 1)
       /\ size = IF "size" \in stores THEN pos - 1 ELSE pos
       /\ "char" \notin stores => cells[pos] = <<word, pos>>

\* A word that was read, before main has taken it and after.
Standing ==
  /\ NotSent /\ pc # "clear"
  /\ size = lengths[word] /\ Begun(size)
  /\ pc = "send" => view = size

Taken ==
  /\ WasSent /\ pc \notin {"view", "send"}
  /\ size = 0 \/ (pc = "clear" /\ "size" \in clears)

Undisturbed ==
  word # 0 /\ word \notin raced => IF InMsg THEN Reading ELSE Standing \/ Taken

\* What was sent.
SentWords ==
  /\ \A i \in DOMAIN sends : sends[i].word <= word
  /\ \A i \in DOMAIN sends : sends[i].word \notin raced =>
       /\ sends[i].text = WholeWord(sends[i].word)
       /\ \A j \in 1..(i - 1) : sends[j].word \notin raced => sends[j].word < sends[i].word

IInv == TypeOK /\ Growth /\ Undisturbed /\ SentWords

-----------------------------------------------------------------------------
(* The text.                                                                *)

\* Numbers and words that are what they seem.
LEMMA Kinds ==
  ASSUME TypeOK
  PROVE  /\ word \in Nat /\ size \in Nat /\ old \in Nat /\ pos \in Nat /\ MaxLen \in Nat
         /\ word # 0 => word \in Words /\ lengths[word] \in 1..MaxLen
         /\ \A i \in DOMAIN sends : sends[i].word \in Words /\ sends[i].word \in Nat
<1>1. /\ MaxWords \in Nat /\ MaxLen \in Nat
      /\ word \in 0..MaxWords /\ size \in 0..MaxLen /\ old \in 0..(MaxLen - 1)
      /\ pos \in 0..MaxLen /\ lengths \in [Words -> 1..MaxLen]
  BY ConstantsAssumption DEF TypeOK
<1>2. word # 0 => word \in Words
  BY <1>1 DEF Words
<1>3. \A i \in DOMAIN sends : sends[i].word \in Words
  <2> DEFINE Sends == [text : Seq(Chars), word : Words, clash : BOOLEAN]
  <2>1. \A s \in Sends : s.word \in Words
    OBVIOUS
  <2>2. sends \in Seq(Sends)
    BY DEF TypeOK
  <2> HIDE DEF Sends
  <2>3. \A i \in DOMAIN sends : sends[i] \in Sends
    BY <2>2
  <2> QED
    BY <2>1, <2>3
<1>4. \A w \in Words : w \in Nat
  BY <1>1 DEF Words
<1> QED
  BY <1>1, <1>2, <1>3, <1>4

\* A text that has all characters of the word is the word.
LEMMA TextIsWord ==
  ASSUME TypeOK, word \in Words, Begun(lengths[word])
  PROVE  SubSeq(cells, 1, lengths[word]) = WholeWord(word)
<1> DEFINE n == lengths[word]
<1>1. n \in 1..MaxLen /\ MaxLen \in Nat
  BY ConstantsAssumption DEF TypeOK
<1> HIDE DEF n
<1>2. \A i \in 1..n : cells[i] = <<word, i>> /\ <<word, i>> \in Chars
  BY <1>1 DEF Begun, Chars, n
<1>3. /\ SubSeq(cells, 1, n) \in Seq(Chars) /\ Len(SubSeq(cells, 1, n)) = n
      /\ \A i \in 1..n : SubSeq(cells, 1, n)[i] = <<word, i>>
  <2>1. n \in Int /\ 1 \in Int /\ 1 <= n /\ n - 1 + 1 = n /\ \A i \in 1..n : 1 + i - 1 = i
    BY <1>1
  <2>2. \A i \in 1..n : cells[i] \in Chars
    BY <1>2
  <2>3. /\ SubSeq(cells, 1, n) \in Seq(Chars)
        /\ Len(SubSeq(cells, 1, n)) = IF 1 <= n THEN n - 1 + 1 ELSE 0
        /\ \A i \in 1..(n - 1 + 1) : SubSeq(cells, 1, n)[i] = cells[1 + i - 1]
    BY <2>1, <2>2, SubSeqProperties
  <2>4. \A i \in 1..n : SubSeq(cells, 1, n)[i] = cells[i]
    BY <2>1, <2>3
  <2> QED
    BY <1>2, <2>1, <2>3, <2>4
<1>4. WholeWord(word) = [i \in 1..n |-> <<word, i>>]
  BY DEF WholeWord, n
<1>5. WholeWord(word) \in Seq(Chars) /\ Len(WholeWord(word)) = n
  BY <1>1, <1>2, <1>4
<1>6. \A i \in 1..n : SubSeq(cells, 1, n)[i] = WholeWord(word)[i]
  BY <1>3, <1>4
<1> QED
  BY <1>3, <1>5, <1>6, SeqEqual DEF n

\* What a store changes.
LEMMA StoreEffect ==
  ASSUME TypeOK, NEW part \in {"char", "size", "end"}, NEW n \in 0..MaxLen, NEW c \in Chars,
         part = "char" => n # 0, Store(part, n, c)
  PROVE  /\ size' \in 0..MaxLen /\ cells' \in [1..(MaxLen + 1) -> Chars]
         /\ size' = IF part = "size" THEN n ELSE size
         /\ part = "char" => cells'[n] = c
         /\ \A i \in 1..(n - 1) : cells'[i] = cells[i]
         /\ part # "char" /\ n # 0 => cells'[n] = cells[n]
<1>1. /\ MaxLen \in Nat /\ NUL \in Chars /\ size \in 0..MaxLen
      /\ cells \in [1..(MaxLen + 1) -> Chars]
  BY ConstantsAssumption DEF TypeOK, Chars
<1>2. CASE part = "char"
  BY <1>1, <1>2 DEF Store
<1>3. CASE part = "size"
  BY <1>1, <1>3 DEF Store
<1>4. CASE part = "end"
  BY <1>1, <1>4 DEF Store
<1> QED
  BY <1>2, <1>3, <1>4

\* Words that are raced stay so, and what was sent stays what it was.
LEMMA SentKept ==
  ASSUME IInv, UNCHANGED <<sends, lengths>>, raced \subseteq raced',
         word' \in Nat, word <= word'
  PROVE  SentWords'
<1>1. word \in Nat /\ \A i \in DOMAIN sends : sends[i].word \in Words
  BY Kinds DEF IInv
<1>2. \A i \in DOMAIN sends : sends[i].word <= word'
  BY <1>1, ConstantsAssumption DEF IInv, SentWords, Words
<1>3. \A w \in Words : WholeWord(w)' = WholeWord(w)
  BY DEF WholeWord
<1> QED
  BY <1>1, <1>2, <1>3 DEF IInv, SentWords

-----------------------------------------------------------------------------
(* The input thread.                                                        *)

\* The input thread leaves main alone, and in its way spoils the word.
LEMMA TouchEffect ==
  ASSUME IInv, NEW w \in Words, Touches(w), Input
  PROVE  /\ UNCHANGED <<pc, view, clears, lengths, full, broken, sends>>
         /\ raced \subseteq raced' /\ raced' \subseteq Words /\ clash' \in BOOLEAN
         /\ w \notin raced' => ~Taking /\ w \notin raced
BY DEF IInv, TypeOK, Touches, Input, Taking, main_vars, sockets

\* A word is typed: it is the next one, so nothing was sent of it.
LEMMA TypeKeeps ==
  ASSUME IInv, Type
  PROVE  IInv'
<1>1. /\ step = "wait" /\ word < MaxWords /\ word' = word + 1 /\ pos' = 0
      /\ step' = "erase" /\ stores' = {"size", "end"} /\ UNCHANGED <<old, size, cells>>
      /\ Touches(word + 1) /\ Input
  BY DEF Type, msg
<1>2. word \in 0..MaxWords /\ MaxWords \in Nat /\ word + 1 \in Words /\ word' # 0
  BY <1>1, ConstantsAssumption DEF IInv, TypeOK, Words
<1>3. /\ UNCHANGED <<pc, view, clears, lengths, full, broken, sends>>
      /\ raced \subseteq raced' /\ raced' \subseteq Words /\ clash' \in BOOLEAN
      /\ word' \notin raced' => ~Taking
  BY <1>1, <1>2, TouchEffect
<1>4. TypeOK'
  <2>1. 0 \in 0..MaxLen
    BY ConstantsAssumption
  <2> QED
    BY <1>1, <1>2, <1>3, <2>1 DEF IInv, TypeOK, Words
<1>5. Growth'
  BY <1>1, <1>2 DEF Growth
<1>6. Undisturbed'
  <2>1. \A i \in DOMAIN sends : sends[i].word # word'
    <3>1. word \in Nat /\ \A i \in DOMAIN sends : sends[i].word \in Nat
      BY Kinds DEF IInv
    <3>2. \A i \in DOMAIN sends : sends[i].word <= word
      BY DEF IInv, SentWords
    <3> QED
      BY <1>1, <3>1, <3>2
  <2>2. NotSent'
    BY <1>3, <2>1 DEF NotSent
  <2> QED
    BY <1>1, <1>3, <2>2 DEF Undisturbed, Reading, InMsg, Taking
<1>7. SentWords'
  BY <1>1, <1>2, <1>3, SentKept
<1> QED
  BY <1>4, <1>5, <1>6, <1>7 DEF IInv

\* The old text is erased.
LEMMA EraseKeeps ==
  ASSUME IInv, Erase
  PROVE  IInv'
<1>1. /\ step = "erase" /\ UNCHANGED <<word, old>> /\ Touches(word) /\ Input
  BY DEF Erase
<1>2. PICK part \in stores : Store(part, 0, NUL) /\ stores' = stores \ {part}
  BY DEF Erase
<1>3. IF stores' = {} THEN step' = "read" /\ pos' = 1 ELSE UNCHANGED <<step, pos>>
  BY DEF Erase
<1>4. word \in Words /\ word # 0 /\ lengths[word] \in 1..MaxLen /\ MaxLen \in Nat
  BY <1>1, ConstantsAssumption DEF IInv, TypeOK, Growth, Words
<1>5. /\ UNCHANGED <<pc, view, clears, lengths, full, broken, sends>>
      /\ raced \subseteq raced' /\ raced' \subseteq Words /\ clash' \in BOOLEAN
      /\ word \notin raced' => ~Taking /\ word \notin raced
  BY <1>1, <1>4, TouchEffect
<1>6. part \in {"size", "end"} /\ NUL \in Chars /\ 0 \in 0..MaxLen
  BY <1>1, <1>2, <1>4 DEF IInv, Growth, Chars
<1>7. /\ size' \in 0..MaxLen /\ cells' \in [1..(MaxLen + 1) -> Chars]
      /\ size' = IF part = "size" THEN 0 ELSE size
  BY <1>2, <1>6, StoreEffect DEF IInv
<1>8. size' \in 0..MaxLen /\ size' = (IF part = "size" THEN 0 ELSE size)
  BY <1>7
<1>9. TypeOK'
  <2>1. step' \in {"erase", "read"} /\ pos' \in 0..MaxLen
    BY <1>1, <1>3, <1>4 DEF IInv, TypeOK
  <2> QED
    BY <1>1, <1>2, <1>5, <1>6, <1>7, <2>1 DEF IInv, TypeOK
<1>10. Growth'
  <2>1. stores' \subseteq {"size", "end"} /\ ("size" \in stores' \/ size' = 0)
    BY <1>1, <1>2, <1>8 DEF IInv, Growth
  <2>2. CASE stores' = {}
    BY <1>1, <1>3, <1>4, <1>5, <2>1, <2>2 DEF Growth
  <2>3. CASE stores' # {}
    BY <1>1, <1>3, <1>4, <1>5, <2>1, <2>3 DEF Growth
  <2> QED
    BY <2>2, <2>3
<1>11. Undisturbed'
  <2>1. SUFFICES ASSUME word \notin raced' PROVE Reading'
    BY <1>1, <1>3 DEF Undisturbed, InMsg
  <2>2. ~Taking' /\ NotSent'
    BY <1>1, <1>4, <1>5, <2>1 DEF IInv, Undisturbed, Reading, InMsg, Taking, NotSent
  <2>3. step' = "read" => size' = 0 /\ pos' = 1 /\ 1 - 1 = 0
    <3>1. step' = "read" => stores' = {} /\ pos' = 1
      BY <1>1, <1>3
    <3>2. stores' = {} => size' = 0
      BY <1>1, <1>2, <1>8 DEF IInv, Growth
    <3> QED
      BY <3>1, <3>2
  <2> QED
    BY <1>1, <1>3, <2>2, <2>3 DEF Reading, Begun
<1>12. SentWords'
  BY <1>1, <1>4, <1>5, SentKept DEF Words
<1> QED
  BY <1>9, <1>10, <1>11, <1>12 DEF IInv

\* The size is read.
LEMMA AppendReadKeeps ==
  ASSUME IInv, AppendRead
  PROVE  IInv'
<1>1. /\ step = "read" /\ old' = size /\ step' = "append" /\ stores' = {"char", "size", "end"}
      /\ UNCHANGED <<word, pos, size, cells>> /\ Touches(word) /\ Input
  BY DEF AppendRead, ReadSize, msg
<1>2. /\ word \in Words /\ word # 0 /\ lengths[word] \in 1..MaxLen /\ MaxLen \in Nat
      /\ pos \in 1..lengths[word] /\ size \in Nat /\ size < pos
  BY <1>1, Kinds DEF IInv, Growth
<1>3. /\ UNCHANGED <<pc, view, clears, lengths, full, broken, sends>>
      /\ raced \subseteq raced' /\ raced' \subseteq Words /\ clash' \in BOOLEAN
      /\ word \notin raced' => ~Taking /\ word \notin raced
  BY <1>1, <1>2, TouchEffect
<1>4. TypeOK'
  <2>1. size \in 0..(MaxLen - 1)
    BY <1>2
  <2> QED
    BY <1>1, <1>3, <2>1 DEF IInv, TypeOK
<1>5. Growth'
  BY <1>1, <1>2, <1>3 DEF Growth
<1>6. Undisturbed'
  <2>1. SUFFICES ASSUME word \notin raced' PROVE Reading'
    BY <1>1 DEF Undisturbed, InMsg
  <2>2. Reading
    BY <1>1, <1>2, <1>3, <2>1 DEF IInv, Undisturbed, InMsg
  <2> QED
    BY <1>1, <1>3, <2>1, <2>2 DEF Reading, Taking, NotSent, Begun
<1>7. SentWords'
  BY <1>1, <1>2, <1>3, SentKept DEF Words
<1> QED
  BY <1>4, <1>5, <1>6, <1>7 DEF IInv

\* A character, the size or the terminator is stored.
LEMMA AppendStoreKeeps ==
  ASSUME IInv, AppendStore
  PROVE  IInv'
<1>1. /\ step = "append" /\ old' = (IF stores' = {} THEN 0 ELSE old)
      /\ UNCHANGED word /\ Touches(word) /\ Input
  BY DEF AppendStore
<1>2. PICK part \in stores :
        Store(part, old + 1, <<word, pos>>) /\ stores' = stores \ {part}
  BY DEF AppendStore
<1>3. IF stores' # {} THEN UNCHANGED <<step, pos>>
      ELSE IF pos < lengths[word] THEN step' = "read" /\ pos' = pos + 1
      ELSE step' = "wait" /\ pos' = 0
  BY DEF AppendStore
<1>4. /\ word \in Words /\ word # 0 /\ lengths[word] \in 1..MaxLen /\ MaxLen \in Nat
      /\ pos \in 1..lengths[word] /\ old \in Nat /\ old < pos /\ size \in Nat /\ size <= pos
      /\ old + 1 \in 0..MaxLen /\ <<word, pos>> \in Chars
  <2>1. /\ word \in Words /\ word # 0 /\ lengths[word] \in 1..MaxLen /\ MaxLen \in Nat
        /\ pos \in 1..lengths[word] /\ old \in Nat /\ old < pos /\ size \in Nat /\ size <= pos
    BY <1>1, Kinds DEF IInv, Growth
  <2> QED
    BY <2>1 DEF Chars
<1>5. /\ UNCHANGED <<pc, view, clears, lengths, full, broken, sends>>
      /\ raced \subseteq raced' /\ raced' \subseteq Words /\ clash' \in BOOLEAN
      /\ word \notin raced' => ~Taking /\ word \notin raced
  BY <1>1, <1>4, TouchEffect
<1>6. part \in {"char", "size", "end"}
  BY <1>2 DEF IInv, TypeOK
<1>7. /\ size' \in 0..MaxLen /\ cells' \in [1..(MaxLen + 1) -> Chars]
      /\ size' = IF part = "size" THEN old + 1 ELSE size
      /\ part = "char" => cells'[old + 1] = <<word, pos>>
      /\ \A i \in 1..old : cells'[i] = cells[i]
      /\ part # "char" => cells'[old + 1] = cells[old + 1]
  <2>1. old + 1 # 0 /\ (old + 1) - 1 = old
    BY <1>4
  <2> QED
    BY <1>2, <1>4, <1>6, <2>1, StoreEffect DEF IInv
<1>8. size' <= pos
  BY <1>4, <1>7
<1>9. TypeOK'
  <2>1. step' \in {"append", "read", "wait"} /\ pos' \in 0..MaxLen
    BY <1>1, <1>3, <1>4
  <2>2. old' \in 0..(MaxLen - 1)
    BY <1>1, <1>4
  <2>3. stores' \subseteq {"char", "size", "end"}
    BY <1>2 DEF IInv, TypeOK
  <2> QED
    BY <1>1, <1>5, <1>7, <2>1, <2>2, <2>3 DEF IInv, TypeOK
<1>10. Growth'
  <2>1. CASE stores' # {}
    BY <1>1, <1>3, <1>4, <1>5, <1>8, <2>1 DEF Growth
  <2>2. CASE stores' = {} /\ pos < lengths[word]
    BY <1>1, <1>3, <1>4, <1>5, <1>7, <1>8, <2>2 DEF Growth
  <2>3. CASE stores' = {} /\ ~(pos < lengths[word])
    BY <1>1, <1>3, <1>4, <1>5, <2>3 DEF Growth
  <2> QED
    BY <2>1, <2>2, <2>3
<1>11. Undisturbed'
  <2>1. SUFFICES ASSUME word \notin raced' PROVE IF InMsg' THEN Reading' ELSE Standing'
    BY <1>1 DEF Undisturbed
  <2>2. ~Taking /\ Reading
    BY <1>1, <1>4, <1>5, <2>1 DEF IInv, Undisturbed, InMsg
  <2>3. ~Taking' /\ NotSent'
    BY <1>1, <1>5, <2>2 DEF Reading, Taking, NotSent
  <2>4. /\ old = pos - 1 /\ Begun(pos - 1)
        /\ size = IF "size" \in stores THEN pos - 1 ELSE pos
        /\ "char" \notin stores => cells[pos] = <<word, pos>>
    BY <1>1, <2>2 DEF Reading
  <2>5. old + 1 = pos
    BY <1>4, <2>4
  <2>6. \A i \in 1..(pos - 1) : cells'[i] = <<word, i>>
    BY <1>7, <2>4 DEF Begun
  <2>7. size' = IF "size" \in stores' THEN pos - 1 ELSE pos
    BY <1>2, <1>6, <1>7, <2>4, <2>5
  <2>8. "char" \notin stores' => cells'[pos] = <<word, pos>>
    BY <1>2, <1>6, <1>7, <2>4, <2>5
  <2>9. CASE stores' # {}
    BY <1>1, <1>3, <2>3, <2>4, <2>6, <2>7, <2>8, <2>9 DEF InMsg, Reading, Begun
  <2>10. CASE stores' = {}
    <3>1. size' = pos /\ \A i \in 1..pos : cells'[i] = <<word, i>>
      BY <1>4, <2>6, <2>7, <2>8, <2>10
    <3>2. CASE pos < lengths[word]
      <4>1. step' = "read" /\ pos' = pos + 1 /\ (pos + 1) - 1 = pos
        BY <1>3, <1>4, <2>10, <3>2
      <4> QED
        BY <1>1, <2>3, <3>1, <4>1 DEF InMsg, Reading, Begun
    <3>3. CASE ~(pos < lengths[word])
      <4>1. step' = "wait" /\ pos = lengths[word]
        BY <1>3, <1>4, <2>10, <3>3
      <4> QED
        BY <1>1, <1>5, <2>3, <3>1, <4>1 DEF InMsg, Standing, Begun, Taking
    <3> QED
      BY <3>2, <3>3
  <2> QED
    BY <2>9, <2>10
<1>12. SentWords'
  BY <1>1, <1>4, <1>5, SentKept DEF Words
<1> QED
  BY <1>9, <1>10, <1>11, <1>12 DEF IInv

-----------------------------------------------------------------------------
(* main.                                                                    *)

\* What main leaves alone.
LEMMA MainEffect ==
  ASSUME IInv, Main, raced \subseteq raced', sends' = sends
  PROVE  /\ UNCHANGED <<step, word, pos, old, stores, lengths, broken>>
         /\ NotSent' = NotSent /\ WasSent' = WasSent
         /\ SentWords'
<1>1. UNCHANGED <<step, word, pos, old, stores, lengths, broken>>
  BY DEF Main, input_vars
<1>2. word \in Nat /\ word <= word
  BY ConstantsAssumption DEF IInv, TypeOK
<1> QED
  BY <1>1, <1>2, SentKept DEF NotSent, WasSent

\* main goes on outside what Taking names.
LEMMA ElsewhereKeeps ==
  ASSUME IInv, Main, UNCHANGED <<size, cells, clash, raced, sends>>,
         pc \in {"readable", "receive", "writable", "sleep"},
         GoTo(pc'), pc' \in {"readable", "receive", "writable", "test", "sleep", "dead"},
         full' \in BOOLEAN
  PROVE  IInv'
<1>1. /\ UNCHANGED <<step, word, pos, old, stores, lengths, broken, view, clears>>
      /\ NotSent' = NotSent /\ WasSent' = WasSent /\ SentWords'
  BY MainEffect DEF GoTo
<1>2. TypeOK'
  BY <1>1 DEF IInv, TypeOK
<1>3. Growth'
  BY <1>1 DEF IInv, Growth, Taking
<1>4. Undisturbed'
  BY <1>1 DEF IInv, Undisturbed, InMsg, Reading, Standing, Taken, Taking, Begun
<1> QED
  BY <1>1, <1>2, <1>3, <1>4 DEF IInv

\* main looks at the text.
LEMMA TestKeeps ==
  ASSUME IInv, Test
  PROVE  IInv'
<1>1. /\ pc = "test" /\ pc' = (IF size = 0 THEN "sleep" ELSE "view")
      /\ clash' = InMsg /\ raced' = (IF InMsg /\ size # 0 THEN raced \cup {word} ELSE raced)
      /\ UNCHANGED <<view, clears, size, cells, full, sends>> /\ Main
  BY DEF Test, GoTo, msg
<1>2. /\ UNCHANGED <<step, word, pos, old, stores, lengths, broken>>
      /\ NotSent' = NotSent /\ WasSent' = WasSent /\ SentWords'
  BY <1>1, MainEffect
<1>3. size # 0 => word \in Words
  BY DEF IInv, TypeOK, Growth, Words
<1>4. TypeOK'
  <2>1. clash' \in BOOLEAN /\ raced' \subseteq Words
    BY <1>1, <1>3 DEF InMsg, IInv, TypeOK
  <2> QED
    BY <1>1, <1>2, <2>1 DEF IInv, TypeOK
<1>5. Growth'
  BY <1>1, <1>2 DEF IInv, Growth, Taking
<1>6. Undisturbed'
  <2>1. SUFFICES ASSUME word # 0, word \notin raced'
                 PROVE  IF InMsg THEN Reading' ELSE Standing' \/ Taken'
    BY <1>2 DEF Undisturbed, InMsg
  <2>2. IF InMsg THEN Reading ELSE Standing \/ Taken
    BY <1>1, <2>1 DEF IInv, Undisturbed
  <2>3. InMsg => size = 0
    BY <1>1, <2>1
  <2>4. CASE size = 0
    BY <1>1, <1>2, <2>2, <2>4 DEF Reading, Standing, Taken, Taking, Begun
  <2>5. CASE size # 0
    BY <1>1, <1>2, <2>2, <2>3, <2>5 DEF Standing, Taken, Begun
  <2> QED
    BY <2>4, <2>5
<1> QED
  BY <1>2, <1>4, <1>5, <1>6 DEF IInv

\* main notes where the text stands.
LEMMA ViewKeeps ==
  ASSUME IInv, View
  PROVE  IInv'
<1>1. /\ pc = "view" /\ pc' = "send" /\ view' = size
      /\ UNCHANGED <<clears, size, cells, full, clash, raced, sends>> /\ Main
  BY DEF View, msg, history
<1>2. /\ UNCHANGED <<step, word, pos, old, stores, lengths, broken>>
      /\ NotSent' = NotSent /\ WasSent' = WasSent /\ SentWords'
  BY <1>1, MainEffect
<1>3. TypeOK'
  BY <1>1, <1>2 DEF IInv, TypeOK
<1>4. Growth'
  BY <1>1, <1>2 DEF IInv, Growth, Taking
<1>5. Undisturbed'
  BY <1>1, <1>2 DEF IInv, Undisturbed, InMsg, Reading, Standing, Taken, Taking, Begun
<1> QED
  BY <1>2, <1>3, <1>4, <1>5 DEF IInv

\* main sends the text: if nothing spoiled it, this is the word, and it was not
\* sent before.
LEMMA SendKeeps ==
  ASSUME IInv, Send
  PROVE  IInv'
<1>1. pc = "send" /\ UNCHANGED <<size, cells, clash, raced>> /\ Main
  BY DEF Send, msg
<1>2. UNCHANGED <<step, word, pos, old, stores, lengths, broken>>
  BY <1>1 DEF Main, input_vars
<1>3. CASE broken
  <2>1. pc' = "dead" /\ UNCHANGED <<view, clears, full, sends>>
    BY <1>3 DEF Send, GoTo
  <2>2. NotSent' = NotSent /\ WasSent' = WasSent /\ SentWords'
    BY <1>1, <2>1, MainEffect
  <2>3. TypeOK'
    BY <1>1, <1>2, <2>1 DEF IInv, TypeOK
  <2>4. Growth'
    BY <1>1, <1>2, <2>1 DEF IInv, Growth, Taking
  <2>5. Undisturbed'
    BY <1>1, <1>2, <2>1, <2>2 DEF IInv, Undisturbed, InMsg, Reading, Standing, Taken, Taking,
                              Begun
  <2> QED
    BY <2>2, <2>3, <2>4, <2>5 DEF IInv
<1>4. CASE ~broken
  <2> DEFINE text == SubSeq(cells, 1, view)
             s    == [text |-> text, word |-> word, clash |-> clash]
             Sends == [text : Seq(Chars), word : Words, clash : BOOLEAN]
  <2>1. /\ pc' = "clear" /\ clears' = {"size", "end"} /\ view' = 0
        /\ full' \in BOOLEAN /\ sends' = Append(sends, s)
    BY <1>4 DEF Send, IInv, TypeOK
  <2>2. word \in Words /\ word # 0 /\ sends \in Seq(Sends) /\ MaxLen \in Nat
    BY <1>1, ConstantsAssumption DEF IInv, TypeOK, Growth, Taking, Words
  <2>3. s \in Sends
    <3>1. \A i \in 1..view : cells[i] \in Chars
      BY <2>2 DEF IInv, TypeOK
    <3>2. text \in Seq(Chars)
      <4>1. view \in Int /\ 1 \in Int
        BY <2>2 DEF IInv, TypeOK
      <4> QED
        BY <3>1, <4>1, SubSeqProperties
    <3> QED
      BY <2>2, <3>2 DEF IInv, TypeOK
  <2>4. /\ sends' \in Seq(Sends) /\ DOMAIN sends' = 1..(Len(sends) + 1)
        /\ \A i \in DOMAIN sends : sends'[i] = sends[i]
        /\ sends'[Len(sends) + 1] = s
        /\ DOMAIN sends = 1..Len(sends) /\ Len(sends) \in Nat
    <3> HIDE DEF s, Sends
    <3> QED
      BY <2>1, <2>2, <2>3, AppendProperties
  <2>5. TypeOK'
    <3>1. 0 \in 0..MaxLen /\ sends' \in Seq([text : Seq(Chars), word : Words, clash : BOOLEAN])
      BY <2>2, <2>4
    <3> QED
      BY <1>1, <1>2, <2>1, <3>1 DEF IInv, TypeOK
  <2>6. Growth'
    BY <1>1, <1>2, <2>1 DEF IInv, Growth, Taking
  <2>7. word \notin raced => step = "wait" /\ Standing
    BY <1>1, <2>2 DEF IInv, Undisturbed, Reading, Taken, Taking, InMsg
  <2>8. Undisturbed'
    <3>1. SUFFICES ASSUME word \notin raced PROVE ~InMsg' /\ Taken'
      BY <1>1, <1>2 DEF Undisturbed
    <3>2. \E i \in DOMAIN sends' : sends'[i].word = word
      BY <2>4
    <3> QED
      BY <1>2, <2>1, <2>7, <3>1, <3>2 DEF Taken, WasSent, InMsg
  <2>9. SentWords'
    <3>1. \A w \in Words : WholeWord(w)' = WholeWord(w)
      BY <1>2 DEF WholeWord
    <3>2. /\ word \in Nat /\ word <= word
          /\ \A i \in DOMAIN sends : sends[i].word \in Words /\ sends[i].word \in Nat
      BY Kinds DEF IInv
    <3>3. word \notin raced => text = WholeWord(word)
      BY <1>1, <2>2, <2>7, TextIsWord DEF Standing, IInv
    <3>4. word \notin raced => \A j \in DOMAIN sends : sends[j].word < word
      BY <2>7, <3>2 DEF Standing, NotSent, IInv, SentWords
    <3>5. s.word = word /\ s.text = text
      OBVIOUS
    <3> HIDE DEF s, text
    <3>5a. \A i \in DOMAIN sends' : i \in DOMAIN sends \/ i = Len(sends) + 1
      BY <2>4
    <3>6. \A i \in DOMAIN sends' : sends'[i].word <= word
      <4>1. \A i \in DOMAIN sends : sends'[i].word <= word
        BY <2>4 DEF IInv, SentWords
      <4>2. sends'[Len(sends) + 1].word <= word
        BY <2>4, <3>2, <3>5
      <4> QED
        BY <3>5a, <4>1, <4>2
    <3>7. ASSUME NEW i \in DOMAIN sends', sends'[i].word \notin raced
          PROVE  /\ sends'[i].text = WholeWord(sends'[i].word)
                 /\ \A j \in 1..(i - 1) :
                      sends'[j].word \notin raced => sends'[j].word < sends'[i].word
      <4>1. CASE i = Len(sends) + 1
        <5>1. sends'[i] = s /\ \A j \in 1..(i - 1) : j \in DOMAIN sends
          BY <2>4, <4>1
        <5> QED
          BY <2>4, <3>3, <3>4, <3>5, <3>7, <5>1
      <4>2. CASE i # Len(sends) + 1
        <5>1. i \in DOMAIN sends /\ \A j \in 1..(i - 1) : j \in DOMAIN sends
          BY <2>4, <4>2
        <5> QED
          BY <2>4, <3>7, <5>1 DEF IInv, SentWords
      <4> QED
        BY <4>1, <4>2
    <3>8. \A i \in DOMAIN sends' : sends'[i].word \in Words
      BY <2>2, <2>4, <3>5a, <3>2, <3>5
    <3> QED
      BY <1>1, <1>2, <3>1, <3>6, <3>7, <3>8 DEF SentWords
  <2> QED
    BY <2>5, <2>6, <2>8, <2>9 DEF IInv
<1> QED
  BY <1>3, <1>4

\* main clears the text; the size is one of its stores.
LEMMA ClearKeeps ==
  ASSUME IInv, Clear
  PROVE  IInv'
<1>1. pc = "clear" /\ UNCHANGED <<view, full, clash, raced, sends>> /\ Main
  BY DEF Clear, history
<1>2. PICK part \in clears : Store(part, 0, NUL) /\ clears' = clears \ {part}
  BY DEF Clear, ClearStore
<1>3. pc' = (IF clears' = {} THEN "sleep" ELSE "clear")
  BY <1>1 DEF Clear
<1>4. /\ UNCHANGED <<step, word, pos, old, stores, lengths, broken>>
      /\ NotSent' = NotSent /\ WasSent' = WasSent /\ SentWords'
  BY <1>1, MainEffect
<1>5. part \in {"size", "end"} /\ 0 \in 0..MaxLen /\ NUL \in Chars
  BY <1>2, ConstantsAssumption DEF IInv, TypeOK, Chars
<1>6. /\ size' \in 0..MaxLen /\ cells' \in [1..(MaxLen + 1) -> Chars]
      /\ size' = IF part = "size" THEN 0 ELSE size
  BY <1>2, <1>5, StoreEffect DEF IInv
<1>7. TypeOK'
  BY <1>1, <1>2, <1>3, <1>4, <1>6 DEF IInv, TypeOK
<1>8. Growth'
  <2>1. size' = 0 \/ size' = size
    BY <1>6
  <2>2. word # 0
    BY <1>1 DEF IInv, Growth, Taking
  <2>3. (step \in {"read", "append"} => pos \in Nat \ {0}) /\ lengths' = lengths
    BY <1>4, ConstantsAssumption DEF IInv, Growth, TypeOK
  <2> QED
    BY <1>4, <2>1, <2>2, <2>3 DEF IInv, Growth
<1>9. Undisturbed'
  <2>1. SUFFICES ASSUME word # 0, word \notin raced PROVE ~InMsg /\ Taken'
    BY <1>1, <1>4 DEF Undisturbed, InMsg
  <2>2. ~InMsg /\ Taken
    BY <1>1, <2>1 DEF IInv, Undisturbed, Reading, Standing, Taking
  <2>3. size' = 0 \/ "size" \in clears'
    BY <1>1, <1>2, <1>6, <2>2 DEF Taken
  <2> QED
    BY <1>3, <1>4, <2>2, <2>3 DEF Taken
<1> QED
  BY <1>4, <1>7, <1>8, <1>9 DEF IInv

-----------------------------------------------------------------------------
(* The invariant and what it gives.                                         *)

\* Nothing is typed at first.
LEMMA InvariantInit == Init => IInv
<1> SUFFICES ASSUME Init PROVE IInv
  OBVIOUS
<1>1. /\ MaxWords \in Nat \ {0} /\ MaxLen \in Nat \ {0} /\ NUL \in Chars
      /\ 0 \in 0..MaxLen /\ 0 \in 0..MaxWords /\ 0 \in 0..(MaxLen - 1)
  BY ConstantsAssumption DEF Chars
<1>2. cells \in [1..(MaxLen + 1) -> Chars]
  BY <1>1 DEF Init
<1>3. TypeOK
  <2>1. sends \in Seq([text : Seq(Chars), word : Words, clash : BOOLEAN])
    BY DEF Init
  <2> QED
    BY <1>1, <1>2, <2>1 DEF Init, TypeOK
<1>4. Growth /\ Undisturbed /\ SentWords
  BY DEF Init, Growth, Undisturbed, SentWords, Taking
<1> QED
  BY <1>3, <1>4 DEF IInv

\* Every step of either thread keeps the invariant.
LEMMA InvariantNext == IInv /\ [Next]_vars => IInv'
<1> SUFFICES ASSUME IInv, [Next]_vars PROVE IInv'
  OBVIOUS
<1>1. CASE InputThread
  BY <1>1, TypeKeeps, EraseKeeps, AppendReadKeeps, AppendStoreKeeps DEF InputThread
<1>2. CASE LookReadable \/ Receive \/ LookWritable \/ Sleep
  <2>1. /\ UNCHANGED <<size, cells, clash, raced, sends>> /\ Main
        /\ full' \in BOOLEAN /\ pc \in {"readable", "receive", "writable", "sleep"}
    BY <1>2 DEF LookReadable, Receive, LookWritable, Sleep, msg, history, IInv, TypeOK
  <2>2. GoTo(pc') /\ pc' \in {"readable", "receive", "writable", "test", "sleep", "dead"}
    BY <1>2 DEF LookReadable, Receive, LookWritable, Sleep, GoTo, NothingToReceive
  <2> QED
    BY <2>1, <2>2, ElsewhereKeeps
<1>3. CASE Test \/ View \/ Send \/ Clear
  BY <1>3, TestKeeps, ViewKeeps, SendKeeps, ClearKeeps
<1>4. CASE ServerReads \/ Breaks \/ UNCHANGED vars
  <2>1. /\ UNCHANGED <<pc, view, clears, step, word, pos, old, stores, size, cells, lengths,
                       clash, raced, sends>>
        /\ full' \in BOOLEAN /\ broken' \in BOOLEAN
    BY <1>4 DEF ServerReads, Breaks, Elsewhere, vars, main_vars, input_vars, msg, sockets,
                history, IInv, TypeOK
  <2>2. TypeOK'
    BY <2>1 DEF IInv, TypeOK
  <2>3. Growth'
    BY <2>1 DEF IInv, Growth, Taking
  <2>4. Undisturbed'
    BY <2>1 DEF IInv, Undisturbed, InMsg, Reading, Standing, Taken, Taking,
                  Begun, NotSent, WasSent
  <2>5. SentWords'
    BY <2>1 DEF IInv, SentWords, WholeWord
  <2> QED
    BY <2>2, <2>3, <2>4, <2>5 DEF IInv
<1> QED
  BY <1>1, <1>2, <1>3, <1>4 DEF Next, MainThread

\* The invariant holds throughout.
LEMMA InvariantAlways == Spec => []IInv
<1> QED
  BY InvariantInit, InvariantNext, PTL DEF Spec

\* However the stores of the two threads fall, the text stays within the length
\* of the longest word, and every index the threads use is one of its cells.
THEOREM TypeCorrect == Spec => []TypeOK
<1>1. IInv => TypeOK
  BY DEF IInv
<1> QED
  BY <1>1, InvariantAlways, PTL

\* For any number of words of any length: what main sends is whole words, each
\* once and in order, and a word stands until it was sent, but for those that
\* were in msg between main's look and its clear
\* (NetLiteClient/main.cpp:20 and 37-41).
THEOREM WordsAreWhole == Spec => []WholeWordsUnlessRaced
<1>1. IInv => WholeWordsUnlessRaced
  <2> SUFFICES ASSUME IInv PROVE WholeWordsUnlessRaced
    OBVIOUS
  <2>1. \A i \in DOMAIN sends : Clean(sends[i]) =>
          /\ sends[i].text = WholeWord(sends[i].word)
          /\ \A j \in 1..(i - 1) : Clean(sends[j]) => sends[j].word < sends[i].word
    BY DEF IInv, SentWords, Clean
  <2>2. ASSUME Complete(word), word \notin raced
        PROVE  \/ SubSeq(cells, 1, size) = WholeWord(word)
               \/ \E i \in DOMAIN sends : sends[i].word = word
    <3>1. word \in Words /\ word # 0 /\ ~InMsg
      BY <2>2, ConstantsAssumption DEF Complete, Words
    <3>2. Standing \/ Taken
      BY <2>2, <3>1 DEF IInv, Undisturbed
    <3>3. CASE Standing
      BY <3>1, <3>3, TextIsWord DEF IInv, Standing
    <3>4. CASE Taken
      BY <3>4 DEF Taken, WasSent
    <3> QED
      BY <3>2, <3>3, <3>4
  <2> QED
    BY <2>1, <2>2 DEF WholeWordsUnlessRaced
<1> QED
  BY <1>1, InvariantAlways, PTL

=============================================================================
