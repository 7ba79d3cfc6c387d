------------------------------ MODULE GrayQueue ------------------------------
(***************************************************************************)
(* The growable array behind the collector's gray queue (gc_gray_push and  *)
(* gc_gray_pop of Compiler/Runtime/ul_gc.c).  Both run entirely under      *)
(* gc_gray_mutex, so each call is one step.                                *)
(***************************************************************************)
EXTENDS Naturals, Sequences

CONSTANTS
    Object,
    Garbage,        \* what malloc'd memory holds before it is written
    InitialCap,     \* GC_GRAY_QUEUE_INITIAL_CAP
    CapMax          \* bound: the largest array the model allocates

ASSUME GrayQueueAssumption ==
    /\ Garbage \notin Object
    /\ InitialCap \in Nat \ {0}
    /\ CapMax \in Nat /\ InitialCap <= CapMax

VARIABLES buf, head, tail, cap, popped

grayVars == <<buf, head, tail, cap, popped>>

\* ul_gc_init
Init ==
    /\ cap = InitialCap
    /\ buf = [i \in 0..(InitialCap - 1) |-> Garbage]
    /\ head = 0 /\ tail = 0
    /\ popped = Garbage

\* Mutant: the new array is not filled from the old one.
ReallocFresh(n) == [i \in 0..(n - 1) |-> Garbage]

\* mi_realloc to n slots: the old contents, then garbage.
Realloc(n) == [i \in 0..(n - 1) |-> IF i < cap THEN buf[i] ELSE Garbage]

\* Mutant: memmove is told one entry too few.
MoveOneLess(i, n) == [j \in 0..(cap - 1) |-> IF j + 1 < n THEN buf[j + i] ELSE buf[j]]

\* memmove of n entries from index i to the front.
MoveToFront(i, n) == [j \in 0..(cap - 1) |-> IF j < n THEN buf[j + i] ELSE buf[j]]

\* gc_gray_push with room at the tail...
Push(o) ==
    /\ tail < cap
    /\ buf' = [buf EXCEPT ![tail] = o]
    /\ tail' = tail + 1
    /\ UNCHANGED <<head, cap, popped>>

\* ... and when the array must double first; a failed realloc drops the entry.
PushGrow(o) ==
    /\ tail = cap /\ 2 * cap <= CapMax
    /\ cap' = 2 * cap
    /\ buf' = [Realloc(2 * cap) EXCEPT ![tail] = o]
    /\ tail' = tail + 1
    /\ UNCHANGED <<head, popped>>

\* gc_gray_pop: past the middle of the array, what remains moves to the front.
Pop ==
    /\ head < tail
    /\ popped' = buf[head]
    /\ IF head + 1 > cap \div 2
       THEN /\ buf' = MoveToFront(head + 1, tail - (head + 1))
            /\ head' = 0
            /\ tail' = tail - (head + 1)
       ELSE head' = head + 1 /\ UNCHANGED <<buf, tail>>
    /\ UNCHANGED cap

Next == Pop \/ \E o \in Object : Push(o) \/ PushGrow(o)

Spec == Init /\ [][Next]_grayVars

-----------------------------------------------------------------------------
TypeOK ==
    /\ cap \in Nat \ {0}
    /\ head \in Nat /\ tail \in Nat /\ head <= tail /\ tail <= cap
    /\ buf \in [0..(cap - 1) -> Object \cup {Garbage}]
    /\ popped \in Object \cup {Garbage}

\* Every slot between head and tail holds an entry that was pushed: compaction
\* and growth never expose memory nobody wrote.
NoGarbage == \A i \in head..(tail - 1) : buf[i] \in Object

Entries == [i \in 1..(tail - head) |-> buf[head + i - 1]]

\* Growing and compacting the array is invisible: it is a FIFO queue, and a pop
\* returns its oldest entry.
Queue == INSTANCE Fifo WITH queue <- Entries, out <- popped
ImplementsFifo == Queue!FifoSpec
=============================================================================
