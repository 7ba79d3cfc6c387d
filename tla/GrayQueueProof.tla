--------------------------- MODULE GrayQueueProof ---------------------------
(***************************************************************************)
(* The gray queue's array is a FIFO queue for every capacity: growth keeps *)
(* the entries in place, and compaction moves them without losing one.     *)
(***************************************************************************)
EXTENDS GrayQueue, Integers, TLAPS

QInv == TypeOK /\ NoGarbage

LEMMA InitQInv == Init => QInv
  BY GrayQueueAssumption DEF Init, QInv, TypeOK, NoGarbage

LEMMA PushQInv == ASSUME QInv, NEW o \in Object, Push(o) PROVE QInv'
  BY DEF Push, QInv, TypeOK, NoGarbage

LEMMA PushGrowQInv == ASSUME QInv, NEW o \in Object, PushGrow(o) PROVE QInv'
<1>1. buf' = [i \in 0..(2 * cap - 1) |->
                IF i = tail THEN o ELSE IF i < cap THEN buf[i] ELSE Garbage]
  BY DEF PushGrow, Realloc, QInv, TypeOK
<1>2. TypeOK'
  <2>1. cap' = 2 * cap /\ cap' \in Nat \ {0} /\ tail' = cap + 1 /\ head' = head /\ popped' = popped
    BY DEF PushGrow, QInv, TypeOK
  <2>2. buf' \in [0..(cap' - 1) -> Object \cup {Garbage}]
    BY <1>1, <2>1 DEF QInv, TypeOK
  <2> QED BY <2>1, <2>2 DEF QInv, TypeOK, PushGrow
<1>3. NoGarbage'
  BY <1>1 DEF PushGrow, QInv, TypeOK, NoGarbage
<1> QED BY <1>2, <1>3 DEF QInv

LEMMA PopQInv == ASSUME QInv, Pop PROVE QInv'
<1>1. buf[head] \in Object
  BY DEF Pop, QInv, TypeOK, NoGarbage
<1>2. CASE head + 1 > cap \div 2
  <2>1. /\ head' = 0 /\ tail' = tail - (head + 1) /\ cap' = cap /\ popped' = buf[head]
        /\ buf' = [j \in 0..(cap - 1) |->
                     IF j < tail - (head + 1) THEN buf[j + (head + 1)] ELSE buf[j]]
    BY <1>2 DEF Pop, MoveToFront
  <2>2. TypeOK'
    BY <1>1, <2>1 DEF Pop, QInv, TypeOK
  <2>3. NoGarbage'
    BY <2>1 DEF Pop, QInv, TypeOK, NoGarbage
  <2> QED BY <2>2, <2>3 DEF QInv
<1>3. CASE ~(head + 1 > cap \div 2)
  BY <1>1, <1>3 DEF Pop, QInv, TypeOK, NoGarbage
<1> QED BY <1>2, <1>3

LEMMA NextQInv == QInv /\ [Next]_grayVars => QInv'
<1> SUFFICES ASSUME QInv, [Next]_grayVars PROVE QInv'
  OBVIOUS
<1>1. CASE Next
  BY <1>1, PushQInv, PushGrowQInv, PopQInv DEF Next
<1>2. CASE UNCHANGED grayVars
  BY <1>2 DEF grayVars, QInv, TypeOK, NoGarbage
<1> QED BY <1>1, <1>2

\* The indices stay ordered within the array, whatever its capacity.
THEOREM GrayQueueTypeCorrect == Spec => []TypeOK
<1>1. QInv => TypeOK
  BY DEF QInv
<1> QED BY InitQInv, NextQInv, <1>1, PTL DEF Spec

\* No slot between head and tail is memory that nobody wrote.
THEOREM GrayQueueNoGarbage == Spec => []NoGarbage
<1>1. QInv => NoGarbage
  BY DEF QInv
<1> QED BY InitQInv, NextQInv, <1>1, PTL DEF Spec

-----------------------------------------------------------------------------
\* Entries is a sequence of objects of length tail - head.
EntriesOK ==
    /\ Entries \in Seq(Object) /\ Len(Entries) = tail - head
    /\ \A i \in 1..(tail - head) : Entries[i] = buf[head + i - 1]

LEMMA EntriesSeq == QInv => EntriesOK
<1> SUFFICES ASSUME QInv PROVE EntriesOK
  OBVIOUS
<1>1. tail - head \in Nat
  BY DEF QInv, TypeOK
<1>2. \A i \in 1..(tail - head) : buf[head + i - 1] \in Object
  BY DEF QInv, TypeOK, NoGarbage
<1>3. Entries \in [1..(tail - head) -> Object]
  BY <1>2 DEF Entries
<1> QED BY <1>1, <1>3 DEF Entries, EntriesOK

\* Two sequences are equal when they agree in length and at every index.
LEMMA SeqEqual ==
  ASSUME NEW S, NEW s \in Seq(S), NEW t \in Seq(S), Len(s) = Len(t),
         \A i \in 1..Len(s) : s[i] = t[i]
  PROVE  s = t
  OBVIOUS

LEMMA PushRefines ==
  ASSUME QInv, QInv', NEW o \in Object, Push(o) \/ PushGrow(o) PROVE Queue!Enqueue(o)
<1>1. /\ Entries \in Seq(Object) /\ Len(Entries) = tail - head
      /\ \A i \in 1..(tail - head) : Entries[i] = buf[head + i - 1]
  BY EntriesSeq DEF EntriesOK
<1>2. /\ Entries' \in Seq(Object) /\ Len(Entries') = tail' - head'
      /\ \A i \in 1..(tail' - head') : Entries'[i] = buf'[head' + i - 1]
  <2>1. EntriesOK'
    BY EntriesSeq, PTL
  <2> QED BY <2>1 DEF EntriesOK
<1>3. tail' = tail + 1 /\ head' = head /\ popped' = popped
  BY DEF Push, PushGrow
<1>4. buf'[tail] = o /\ \A i \in head..(tail - 1) : buf'[i] = buf[i]
  <2>1. CASE Push(o)
    BY <2>1 DEF Push, QInv, TypeOK
  <2>2. CASE PushGrow(o)
    BY <2>2 DEF PushGrow, Realloc, QInv, TypeOK
  <2> QED BY <2>1, <2>2
<1>5. /\ Append(Entries, o) \in Seq(Object)
      /\ Len(Append(Entries, o)) = tail - head + 1
      /\ \A i \in 1..(tail - head) : Append(Entries, o)[i] = Entries[i]
      /\ Append(Entries, o)[tail - head + 1] = o
  BY <1>1
<1>6. \A i \in 1..(tail - head + 1) : Entries'[i] = Append(Entries, o)[i]
  <2> SUFFICES ASSUME NEW i \in 1..(tail - head + 1)
               PROVE  Entries'[i] = Append(Entries, o)[i]
    OBVIOUS
  <2>1. head \in Nat /\ tail \in Nat /\ head <= tail /\ i \in Nat
    BY DEF QInv, TypeOK
  <2>2. i \in 1..(tail' - head') /\ head' + i - 1 = head + i - 1
    BY <1>3, <2>1
  <2>3. Entries'[i] = buf'[head + i - 1]
    BY <1>2, <2>2
  <2>4. CASE i = tail - head + 1
    <3>1. head + i - 1 = tail
      BY <2>1, <2>4
    <3> QED BY <1>4, <1>5, <2>3, <2>4, <3>1
  <2>5. CASE i # tail - head + 1
    <3>1. i \in 1..(tail - head) /\ head + i - 1 \in head..(tail - 1)
      BY <2>1, <2>5
    <3> QED BY <1>1, <1>4, <1>5, <2>3, <3>1
  <2> QED BY <2>4, <2>5
<1>7. Entries' = Append(Entries, o)
  BY <1>2, <1>3, <1>5, <1>6, SeqEqual DEF QInv, TypeOK
<1> QED BY <1>3, <1>7 DEF Queue!Enqueue

LEMMA PopRefines ==
  ASSUME QInv, QInv', Pop PROVE Queue!Dequeue
<1>1. /\ Entries \in Seq(Object) /\ Len(Entries) = tail - head
      /\ \A i \in 1..(tail - head) : Entries[i] = buf[head + i - 1]
  BY EntriesSeq DEF EntriesOK
<1>2. /\ Entries' \in Seq(Object) /\ Len(Entries') = tail' - head'
      /\ \A i \in 1..(tail' - head') : Entries'[i] = buf'[head' + i - 1]
  <2>1. EntriesOK'
    BY EntriesSeq, PTL
  <2> QED BY <2>1 DEF EntriesOK
<1>3. Entries # << >> /\ tail - head >= 1 /\ Head(Entries) = buf[head]
  <2>1. head \in Nat /\ tail \in Nat /\ head < tail
    BY DEF Pop, QInv, TypeOK
  <2>2. tail - head \in Nat /\ tail - head >= 1 /\ 1 \in 1..(tail - head) /\ head + 1 - 1 = head
    BY <2>1
  <2>3. Entries # << >> /\ Head(Entries) = Entries[1]
    BY <1>1, <2>2
  <2> QED BY <1>1, <2>2, <2>3
<1>4. /\ Tail(Entries) \in Seq(Object) /\ Len(Tail(Entries)) = tail - head - 1
      /\ \A i \in 1..(tail - head - 1) : Tail(Entries)[i] = Entries[i + 1]
  BY <1>1, <1>3
<1>5. /\ tail' - head' = tail - head - 1
      /\ \A i \in 1..(tail - head - 1) : buf'[head' + i - 1] = buf[head + i]
  <2>1. head \in Nat /\ tail \in Nat /\ cap \in Nat /\ head < tail /\ tail <= cap
    BY DEF Pop, QInv, TypeOK
  <2>2. CASE head + 1 > cap \div 2
    <3>1. head' = 0 /\ tail' = tail - (head + 1)
      BY <2>2 DEF Pop
    <3>2. buf' = [j \in 0..(cap - 1) |->
                    IF j < tail - (head + 1) THEN buf[j + (head + 1)] ELSE buf[j]]
      BY <2>2 DEF Pop, MoveToFront
    <3>3. ASSUME NEW i \in 1..(tail - head - 1)
          PROVE  buf'[head' + i - 1] = buf[head + i]
      <4>1. /\ i - 1 \in 0..(cap - 1) /\ i - 1 < tail - (head + 1)
            /\ (i - 1) + (head + 1) = head + i /\ 0 + i - 1 = i - 1
        BY <2>1
      <4>2. buf'[i - 1] = buf[(i - 1) + (head + 1)]
        BY <3>2, <4>1
      <4> QED BY <3>1, <4>1, <4>2
    <3> QED BY <2>1, <3>1, <3>3
  <2>3. CASE ~(head + 1 > cap \div 2)
    <3>1. head' = head + 1 /\ tail' = tail /\ buf' = buf
      BY <2>3 DEF Pop
    <3>2. ASSUME NEW i \in 1..(tail - head - 1)
          PROVE  buf'[head' + i - 1] = buf[head + i]
      <4>1. head' + i - 1 = head + i
        BY <2>1, <3>1
      <4> QED BY <3>1, <4>1
    <3> QED BY <2>1, <3>1, <3>2
  <2> QED BY <2>2, <2>3
<1>6. \A i \in 1..(tail - head - 1) : Entries'[i] = Tail(Entries)[i]
  <2> SUFFICES ASSUME NEW i \in 1..(tail - head - 1)
               PROVE  Entries'[i] = Tail(Entries)[i]
    OBVIOUS
  <2>1. head \in Nat /\ tail \in Nat /\ head < tail
    BY DEF Pop, QInv, TypeOK
  <2>2. i \in 1..(tail' - head') /\ i + 1 \in 1..(tail - head)
    BY <1>5, <2>1
  <2>3. Entries'[i] = buf[head + i]
    BY <1>2, <1>5, <2>2
  <2>4. Entries[i + 1] = buf[head + i]
    <3>1. head + (i + 1) - 1 = head + i
      BY <2>1
    <3> QED BY <1>1, <2>2, <3>1
  <2> QED BY <1>4, <2>3, <2>4
<1>7. Entries' = Tail(Entries)
  BY <1>2, <1>4, <1>5, <1>6, SeqEqual
<1> QED BY <1>3, <1>7 DEF Queue!Dequeue, Pop

LEMMA InitFifo == Init => Queue!FifoInit
<1> SUFFICES ASSUME Init PROVE Queue!FifoInit
  OBVIOUS
<1>1. QInv
  BY InitQInv
<1>2. Entries \in Seq(Object) /\ Len(Entries) = 0
  BY <1>1, EntriesSeq DEF Init, EntriesOK
<1> QED BY <1>2, GrayQueueAssumption DEF Queue!FifoInit, Init

LEMMA StepFifo == QInv /\ QInv' /\ [Next]_grayVars => [Queue!FifoNext]_(Queue!fifoVars)
<1> SUFFICES ASSUME QInv, QInv', [Next]_grayVars
             PROVE  [Queue!FifoNext]_(Queue!fifoVars)
  OBVIOUS
<1>1. CASE Next
  BY <1>1, PushRefines, PopRefines DEF Next, Queue!FifoNext
<1>2. CASE UNCHANGED grayVars
  BY <1>2 DEF grayVars, Queue!fifoVars, Entries
<1> QED BY <1>1, <1>2

\* The growable, compacting array implements the FIFO queue GC assumes.
THEOREM GrayQueueIsFifo == Spec => ImplementsFifo
<1> QED BY InitQInv, NextQInv, InitFifo, StepFifo, PTL
        DEF Spec, ImplementsFifo, Queue!FifoSpec
=============================================================================
