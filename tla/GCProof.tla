------------------------------ MODULE GCProof ------------------------------
(***************************************************************************)
(* Proofs about GC, for any objects, any threads and any number of them.   *)
(*                                                                         *)
(* Whatever the threads do, the allocation list is the heap (Typed and     *)
(* Listed), black is only what the cycle under way has marked (Blacks), a  *)
(* barrier has shaded what it stores unless marking overtook it (Spared),  *)
(* and, if the gray queue can grow, no gray object is forgotten            *)
(* (GrayIsPending is inductive beside them).                               *)
(* What the code leaves to chance is that no barrier is under way at the   *)
(* two ends of marking (Handshake).  When none is, Sound follows a cycle   *)
(* from marking, which barriers interleave with, through sweeping, and     *)
(* shows that nothing is freed which an object that is kept points to;     *)
(* Held and Snapshot, that marking is exact.                               *)
(* With one caller of ul_gc_collect, a cycle runs for that caller only     *)
(* (OneCycle); with one thread in all, that thread waits for the cycle,    *)
(* and so keeps the handshake.                                             *)
(***************************************************************************)
EXTENDS GC, FiniteSetTheorems, SequenceTheorems, TLAPS

\* What the later theorems assume of the program and of the allocator.
OneCaller == \A t, u \in Callers : t = u
OneThread == \A t, u \in Thread : t = u
QueueGrows == ~MayFail

-----------------------------------------------------------------------------
(* The types, and what control points say of operands and flags. *)

ThreadPcs == {"idle", "readOld", "shadeOld", "pushOld", "shadeNew", "pushNew", "store",
              "pushDirect", "request", "wait"}
Marking == {"pop", "blacken", "scan", "shade", "push"}
Cycle == Marking \cup Sweeping \cup {"start", "endMark", "lock", "unlocked", "announce"}
CollectorPcs == Cycle \cup {"check", "exchange", "exited", "down"}

ThreadState == [pc : ThreadPcs, obj : Ptr, new : Ptr, old : Ptr]
CollectorState == [pc : CollectorPcs, obj : Ptr, pass : {1, 2}, prev : Ptr, final : BOOLEAN]

Typed ==
    /\ phase \in {"idle", "mark", "sweep"}
    /\ alive \subseteq Object /\ list \in Seq(Object)
    /\ color \in [Object -> Colors] /\ field \in [Object -> Ptr]
    /\ queue \in Seq(Object)
    /\ running \in BOOLEAN /\ request \in BOOLEAN /\ done \in BOOLEAN
    /\ gc \in CollectorState
    /\ gc.pc \in (Marking \ {"pop"}) \cup {"free"} => gc.obj \in Object
    /\ th \in [Thread -> ThreadState]
    /\ \A t \in Thread : /\ th[t].pc = "pushOld" => th[t].old \in Object
                         /\ th[t].pc = "pushNew" => th[t].new \in Object
                         /\ th[t].pc = "pushDirect" => th[t].obj \in Object
    /\ roots \in [Thread -> SUBSET Object]
    /\ begun \subseteq Thread /\ served \subseteq Thread

\* The phase that is published, and what remains possible after the shutdown.
Flags ==
    /\ phase = "mark" <=> gc.pc \in Marking \/ (gc.pc = "endMark" /\ ~gc.final)
    /\ ~running => \A t \in Thread : th[t].pc = "idle"
    /\ gc.pc \in {"exited", "down"} \/ gc.final => ~running
    /\ gc.final => gc.pc \in Sweeping \cup {"endMark", "lock", "unlocked", "down"}

\* The list is the heap; the sweep is after its k-th node, with prev behind and obj
\* ahead.
Injective == \A i, j \in DOMAIN list : list[i] = list[j] => i = j
SweepAt(k) ==
    /\ gc.prev = IF k = 0 THEN Null ELSE list[k]
    /\ gc.obj = IF k < Len(list) THEN list[k + 1] ELSE Null
    /\ gc.pc = "free" => k < Len(list)
Listed ==
    /\ Injective
    /\ {list[i] : i \in DOMAIN list} = alive
    /\ gc.pc \in Sweeping => \E k \in 0..Len(list) : SweepAt(k)

HInv == Typed /\ Flags /\ Listed

-----------------------------------------------------------------------------
(* One caller. *)

OneCycle ==
    /\ \A t \in Thread : th[t].pc \in {"request", "wait"} => t \in Callers
    /\ \A t \in Thread : th[t].pc = "request" => ~done
    /\ request \/ (gc.pc \in Cycle /\ ~gc.final) => \E t \in Thread : th[t].pc = "wait" /\ ~done
    /\ gc.pc \in Cycle /\ ~gc.final => ~request
    /\ gc.pc \in Cycle \ {"start"} /\ ~gc.final =>
           \A t \in Thread : th[t].pc = "wait" => t \in begun
    /\ CollectIsSynchronous

-----------------------------------------------------------------------------
(* Any threads: what is black, and what the barrier has shaded. *)

\* The objects the sweep has passed and kept, and all those it will have kept.
Seen == {list[i] : i \in 1..(IF gc.prev = Null THEN 0 ELSE Position(gc.prev))}
Kept == Seen \cup {o \in alive : color[o] # "white"}

NoneIs(c, S) == \A o \in S : color[o] # c

\* Black is what this cycle has marked and its sweep has not passed yet.
Blacks ==
    /\ gc.pc \notin Marking \cup Sweeping \cup {"endMark", "lock"} => NoneIs("black", alive)
    /\ gc.pc \in Sweeping => NoneIs("black", Seen)

\* A thread that has entered the barrier since marking began has shaded what it is
\* about to store.
Spared == phase = "mark" =>
    \A t \in Thread \ begun :
        th[t].pc \in {"pushNew", "store"} => th[t].new \in Marked \cup {Null}

BInv == Blacks /\ Spared

-----------------------------------------------------------------------------
(* Threads that keep out of the barrier at both ends of marking and in the sweep. *)

Between == {"idle", "request", "wait"}
Handshake ==
    gc.pc \in {"start", "endMark", "lock"} \cup Sweeping => \A t \in Thread : th[t].pc \in Between

NoDangling == \A o \in alive : field[o] \in alive \cup {Null}
Scanned(o) == field[o] = Null \/ color[field[o]] # "white" \/ (gc.pc = "shade" /\ gc.obj = field[o])
BlackIsScanned ==
    \A o \in alive : color[o] = "black" /\ ~(gc.pc = "scan" /\ gc.obj = o) => Scanned(o)

\* What a thread in the barrier stores is allocated, and none has been there since
\* before marking began.
Stores ==
    /\ \A t \in Thread : th[t].pc \notin Between \cup {"pushDirect"} => th[t].new \in alive \cup {Null}
    /\ phase = "mark" => \A t \in begun : th[t].pc \in Between

Sound == ~gc.final =>
    /\ Stores
    /\ gc.pc \notin Sweeping => NoDangling
    /\ gc.pc \in Marking \cup {"endMark", "lock"} => BlackIsScanned
    /\ gc.pc \in {"endMark", "lock"} => NoneIs("gray", alive)
    /\ gc.pc \in Sweeping => Closed(Kept)
    /\ gc.pc = "free" => color[gc.obj] = "white"

-----------------------------------------------------------------------------
(* Typed, step by step. *)

LEMMA InitHInv == Init => HInv
<1> SUFFICES ASSUME Init PROVE HInv
  OBVIOUS
<1> USE DEF Init, IdleThread
<1>1. Typed
  <2>1. Null \in Ptr
    BY DEF Ptr
  <2>2. gc \in CollectorState
    BY <2>1 DEF CollectorState, CollectorPcs
  <2>3. th \in [Thread -> ThreadState]
    BY <2>1 DEF ThreadState, ThreadPcs
  <2>4. color \in [Object -> Colors] /\ field \in [Object -> Ptr] /\ roots \in [Thread -> SUBSET Object]
    BY <2>1 DEF Colors
  <2>5. list \in Seq(Object) /\ queue \in Seq(Object)
    OBVIOUS
  <2>6. gc.pc = "check" /\ \A t \in Thread : th[t].pc = "idle"
    OBVIOUS
  <2> QED BY <2>2, <2>3, <2>4, <2>5, <2>6 DEF Typed, Marking
<1>2. Flags
  BY DEF Flags, Marking
<1>3. Listed
  BY DEF Listed, Injective, Sweeping
<1> QED BY <1>1, <1>2, <1>3 DEF HInv

\* What a step does to the state of the thread that takes it.
LEMMA GotoIs ==
  ASSUME Typed, NEW t \in Thread, NEW pc \in ThreadPcs, Goto(t, pc)
  PROVE  /\ th' \in [Thread -> ThreadState]
         /\ th'[t].pc = pc /\ th'[t].obj = th[t].obj
         /\ th'[t].new = th[t].new /\ th'[t].old = th[t].old
         /\ \A u \in Thread \ {t} : th'[u] = th[u]
BY DEF Typed, Goto, ThreadState

LEMMA IdleIs ==
  ASSUME Typed, NEW t \in Thread, NEW r \in ThreadState, th' = [th EXCEPT ![t] = r]
  PROVE  /\ th' \in [Thread -> ThreadState] /\ th'[t] = r
         /\ \A u \in Thread \ {t} : th'[u] = th[u]
BY DEF Typed

LEMMA PushTyped ==
  ASSUME Typed, NEW o \in Object, Push(o)
  PROVE  queue' \in Seq(Object)
<1>1. queue \in Seq(Object)
  BY DEF Typed
<1> QED BY <1>1, AppendProperties DEF Push

LEMMA ThreadTyped ==
  ASSUME HInv, NEW t \in Thread, Begin(t) \/ Continue(t)
  PROVE  Typed'
<1> USE DEF HInv
<1> DEFINE Operands == \A u \in Thread : /\ th[u].pc = "pushOld" => th[u].old \in Object
                                         /\ th[u].pc = "pushNew" => th[u].new \in Object
                                         /\ th[u].pc = "pushDirect" => th[u].obj \in Object
<1>0. /\ Typed /\ Operands /\ th[t] \in ThreadState /\ UNCHANGED <<phase, gc, running>>
      /\ Null \in Ptr /\ Object \subseteq Ptr /\ Null \notin Object
  BY GCAssumption DEF Typed, ThreadState, Begin, Continue, Alloc, Load, Forget, Barrier, ReadOld, ShadeOld,
        PushOld, ShadeNew, PushNew, Store, DirectShade, PushDirect, CollectClear, CollectRequest,
        CollectReturn, heapVars, flagVars, Ptr
<1>1. ASSUME NEW o \in Object, Alloc(t, o) PROVE Typed'
  BY <1>0, <1>1 DEF Typed, Alloc, flagVars, Colors
<1>2. ASSUME NEW o \in Object, Load(t, o) PROVE Typed'
  BY <1>0, <1>2 DEF Typed, Load, heapVars, flagVars
<1>3. ASSUME NEW o \in Object, Forget(t, o) PROVE Typed'
  BY <1>0, <1>3 DEF Typed, Forget, heapVars, flagVars
<1>4. ASSUME NEW o \in Object, NEW new \in Ptr, Barrier(t, o, new) PROVE Typed'
  <2>1. [pc |-> IF phase = "mark" THEN "readOld" ELSE "store", obj |-> o, new |-> new, old |-> Null]
          \in ThreadState
    BY <1>0 DEF ThreadState, ThreadPcs
  <2> QED BY <1>0, <1>4, <2>1, IdleIs DEF Typed, Barrier, heapVars, flagVars
<1>5. CASE ReadOld(t)
  <2>1. /\ th' \in [Thread -> ThreadState] /\ th'[t].pc = "shadeOld"
        /\ \A u \in Thread \ {t} : th'[u] = th[u]
    BY <1>0, <1>5 DEF Typed, ReadOld, ThreadState, ThreadPcs
  <2> QED BY <1>0, <1>5, <2>1 DEF Typed, ReadOld, heapVars, flagVars
<1>6. ASSUME NEW o \in Ptr, NEW pushAt \in ThreadPcs, NEW doneAt \in ThreadPcs, Shade(t, o, pushAt, doneAt),
             pushAt = "pushOld" => th[t].old = o, pushAt = "pushNew" => th[t].new = o,
             pushAt # "pushDirect", doneAt \in {"shadeNew", "store"},
             UNCHANGED <<alive, list, field, queue, flagVars, roots, begun, served>>
      PROVE  Typed'
  <2>1. CASE o # Null /\ color[o] = "white"
    <3>1. o \in Object /\ color' = [color EXCEPT ![o] = "gray"] /\ Goto(t, pushAt)
      BY <1>0, <1>6, <2>1 DEF Shade, Ptr
    <3>2. color' \in [Object -> Colors]
      BY <1>0, <3>1 DEF Typed, Colors
    <3> QED BY <1>0, <1>6, <3>1, <3>2, GotoIs DEF Typed, flagVars
  <2>2. CASE ~(o # Null /\ color[o] = "white")
    <3>1. UNCHANGED color /\ Goto(t, doneAt)
      BY <1>6, <2>2 DEF Shade
    <3> QED BY <1>0, <1>6, <3>1, GotoIs DEF Typed, flagVars
  <2> QED BY <2>1, <2>2
<1>7. CASE ShadeOld(t)
  <2>1. th[t].old \in Ptr /\ "pushOld" \in ThreadPcs /\ "shadeNew" \in ThreadPcs
    BY <1>0 DEF ThreadState, ThreadPcs
  <2> QED BY <1>6, <1>7, <2>1 DEF ShadeOld
<1>8. CASE ShadeNew(t)
  <2>1. th[t].new \in Ptr /\ "pushNew" \in ThreadPcs /\ "store" \in ThreadPcs
    BY <1>0 DEF ThreadState, ThreadPcs
  <2> QED BY <1>6, <1>8, <2>1 DEF ShadeNew
<1>9. CASE PushOld(t)
  <2>1. queue' \in Seq(Object) /\ "shadeNew" \in ThreadPcs
    BY <1>0, <1>9, PushTyped DEF PushOld, ThreadPcs
  <2>2. /\ th' \in [Thread -> ThreadState] /\ th'[t].pc = "shadeNew"
        /\ \A u \in Thread \ {t} : th'[u] = th[u]
    BY <1>0, <1>9, <2>1, GotoIs DEF PushOld
  <2>3. UNCHANGED <<phase, heapVars, flagVars, gc, roots, begun, served>>
    BY <1>9 DEF PushOld
  <2>4. Operands'
    BY <1>0, <2>2
  <2> QED BY <1>0, <2>1, <2>2, <2>3, <2>4 DEF Typed, heapVars, flagVars
<1>10. CASE PushNew(t)
  <2>1. queue' \in Seq(Object) /\ "store" \in ThreadPcs
    BY <1>0, <1>10, PushTyped DEF PushNew, ThreadPcs
  <2>2. /\ th' \in [Thread -> ThreadState] /\ th'[t].pc = "store"
        /\ \A u \in Thread \ {t} : th'[u] = th[u]
    BY <1>0, <1>10, <2>1, GotoIs DEF PushNew
  <2>3. UNCHANGED <<phase, heapVars, flagVars, gc, roots, begun, served>>
    BY <1>10 DEF PushNew
  <2>4. Operands'
    BY <1>0, <2>2
  <2> QED BY <1>0, <2>1, <2>2, <2>3, <2>4 DEF Typed, heapVars, flagVars
<1>11. IdleThread \in ThreadState /\ IdleThread.pc = "idle"
  BY <1>0 DEF IdleThread, ThreadState, ThreadPcs
<1>12. CASE Store(t)
  <2>1. field' \in [Object -> Ptr]
    BY <1>0, <1>12 DEF Typed, Store, ThreadState
  <2> QED BY <1>0, <1>11, <1>12, <2>1, IdleIs DEF Typed, Store, flagVars
<1>13. ASSUME NEW o \in Object, DirectShade(t, o) PROVE Typed'
  <2>1. /\ [IdleThread EXCEPT !.pc = "pushDirect", !.obj = o] \in ThreadState
        /\ [IdleThread EXCEPT !.pc = "pushDirect", !.obj = o].pc = "pushDirect"
        /\ [IdleThread EXCEPT !.pc = "pushDirect", !.obj = o].obj = o
    BY <1>0 DEF IdleThread, ThreadState, ThreadPcs
  <2>2. color' \in [Object -> Colors]
    BY <1>0, <1>13 DEF Typed, DirectShade, Colors
  <2> QED BY <1>0, <1>13, <2>1, <2>2, IdleIs DEF Typed, DirectShade, flagVars
<1>14. CASE PushDirect(t)
  <2>1. queue' \in Seq(Object)
    BY <1>0, <1>14, PushTyped DEF PushDirect
  <2> QED BY <1>0, <1>11, <1>14, <2>1, IdleIs DEF Typed, PushDirect, heapVars, flagVars
<1>15. CASE CollectClear(t)
  <2>1. "request" \in ThreadPcs /\ Goto(t, "request")
    BY <1>15 DEF ThreadPcs, CollectClear
  <2>2. th' \in [Thread -> ThreadState] /\ th'[t].pc = "request" /\ \A u \in Thread \ {t} : th'[u] = th[u]
    BY <1>0, <2>1, GotoIs
  <2> QED BY <1>0, <1>15, <2>2 DEF Typed, CollectClear, heapVars
<1>16. CASE CollectRequest(t)
  <2>1. "wait" \in ThreadPcs
    BY DEF ThreadPcs
  <2> QED BY <1>0, <1>16, <2>1, GotoIs DEF Typed, CollectRequest, heapVars
<1>17. CASE CollectReturn(t)
  <2>1. "idle" \in ThreadPcs
    BY DEF ThreadPcs
  <2> QED BY <1>0, <1>17, <2>1, GotoIs DEF Typed, CollectReturn, heapVars, flagVars
<1> QED BY <1>1, <1>2, <1>3, <1>4, <1>5, <1>7, <1>8, <1>9, <1>10, <1>12, <1>13, <1>14, <1>15, <1>16, <1>17
        DEF Begin, Continue

LEMMA CollectorAtIs ==
  ASSUME Typed, NEW pc \in CollectorPcs, CollectorAt(pc)
  PROVE  /\ gc' \in CollectorState /\ gc'.pc = pc
         /\ gc'.obj = gc.obj /\ gc'.prev = gc.prev /\ gc'.final = gc.final /\ gc'.pass = gc.pass
BY DEF Typed, CollectorAt, CollectorState

-----------------------------------------------------------------------------
(* The list and the sweep. *)

LEMMA PositionIs ==
  ASSUME Typed, Injective, NEW k \in DOMAIN list
  PROVE  Position(list[k]) = k
<1>1. \E i \in DOMAIN list : list[i] = list[k]
  OBVIOUS
<1>2. Position(list[k]) \in DOMAIN list /\ list[Position(list[k])] = list[k]
  BY <1>1 DEF Position
<1> QED BY <1>2 DEF Injective

\* The node at hand is the (k + 1)st, and what precedes and follows it is the list.
LEMMA SweepNode ==
  ASSUME Typed, Listed, NEW k \in 0..Len(list), SweepAt(k), gc.obj # Null
  PROVE  /\ Len(list) \in Nat /\ k + 1 \in 1..Len(list) /\ gc.obj = list[k + 1] /\ gc.obj \in alive
         /\ First(After(gc.obj)) = IF k + 1 < Len(list) THEN list[k + 2] ELSE Null
         /\ After(gc.obj) \in Seq(Object) /\ Len(After(gc.obj)) = Len(list) - (k + 1)
         /\ \A i \in 1..(Len(list) - (k + 1)) : After(gc.obj)[i] = list[k + 1 + i]
<1>1. Len(list) \in Nat /\ DOMAIN list = 1..Len(list) /\ list \in [1..Len(list) -> Object]
  BY LenProperties DEF Typed
<1>2. k + 1 \in 1..Len(list) /\ gc.obj = list[k + 1]
  BY <1>1 DEF SweepAt
<1>3. gc.obj \in alive
  BY <1>1, <1>2 DEF Listed
<1>4. Position(gc.obj) = k + 1
  BY <1>1, <1>2, PositionIs DEF Listed
<1>5. After(gc.obj) = SubSeq(list, k + 2, Len(list))
  BY <1>2, <1>4 DEF After
<1>6. /\ After(gc.obj) \in Seq(Object) /\ Len(After(gc.obj)) = Len(list) - (k + 1)
      /\ \A i \in 1..(Len(list) - (k + 1)) : After(gc.obj)[i] = list[k + 1 + i]
  <2>1. k + 2 \in Int /\ Len(list) \in Int /\ \A i \in (k + 2)..Len(list) : list[i] \in Object
    BY <1>1
  <2>2. /\ After(gc.obj) \in Seq(Object)
        /\ Len(After(gc.obj)) = IF k + 2 <= Len(list) THEN Len(list) - (k + 2) + 1 ELSE 0
        /\ \A i \in 1..(Len(list) - (k + 2) + 1) : After(gc.obj)[i] = list[(k + 2) + i - 1]
    BY <1>5, <2>1, SubSeqProperties
  <2>3. Len(list) - (k + 2) + 1 = Len(list) - (k + 1) /\ \A i \in Nat : (k + 2) + i - 1 = k + 1 + i
    BY <1>1
  <2> DEFINE n == Len(list)
  <2>4. n \in Nat /\ k \in Nat /\ k + 1 <= n
    BY <1>1, <1>2
  <2>5. Len(After(gc.obj)) = n - (k + 1)
    <3>1. Len(After(gc.obj)) = IF k + 2 <= n THEN n - (k + 2) + 1 ELSE 0
      BY <2>2
    <3> HIDE DEF n
    <3> QED BY <2>4, <3>1
  <2>6. ASSUME NEW i \in 1..(Len(list) - (k + 1)) PROVE After(gc.obj)[i] = list[k + 1 + i]
    <3>1. i \in Nat
      BY <2>4
    <3> QED BY <2>2, <2>3, <3>1
  <2> QED BY <2>2, <2>5, <2>6
<1>7. First(After(gc.obj)) = IF k + 1 < Len(list) THEN list[k + 2] ELSE Null
  <2>1. CASE k + 1 < Len(list)
    <3>0. Len(After(gc.obj)) > 0
      <4> DEFINE n == Len(list)
      <4>1. n \in Nat /\ k \in Nat /\ k + 1 < n
        BY <1>1, <2>1
      <4>2. Len(After(gc.obj)) = n - (k + 1)
        BY <1>6
      <4> HIDE DEF n
      <4> QED BY <4>1, <4>2
    <3>1. After(gc.obj) # << >> /\ Head(After(gc.obj)) = After(gc.obj)[1]
      BY <1>6, <3>0
    <3>2. 1 \in 1..(Len(list) - (k + 1)) /\ k + 1 + 1 = k + 2
      BY <1>1, <2>1
    <3>3. After(gc.obj)[1] = list[k + 2]
      BY <1>6, <3>2
    <3> QED BY <2>1, <3>1, <3>3 DEF First
  <2>2. CASE ~(k + 1 < Len(list))
    <3>0. Len(After(gc.obj)) = 0
      <4> DEFINE n == Len(list)
      <4>1. n \in Nat /\ k \in Nat /\ k + 1 <= n /\ ~(k + 1 < n)
        BY <1>1, <1>2, <2>2
      <4>2. Len(After(gc.obj)) = n - (k + 1)
        BY <1>6
      <4> HIDE DEF n
      <4> QED BY <4>1, <4>2
    <3>1. After(gc.obj) = << >>
      BY <1>6, <3>0, EmptySeq
    <3> QED BY <2>2, <3>1 DEF First
  <2> QED BY <2>1, <2>2
<1> QED BY <1>1, <1>2, <1>3, <1>6, <1>7

\* SweepFree takes one node out and leaves the others in their order.
LEMMA SweepFreeIs ==
  ASSUME Typed, Listed, NEW k \in 0..Len(list), SweepAt(k), SweepFree
  PROVE  /\ list' \in Seq(Object) /\ Len(list') = Len(list) - 1 /\ Len(list) \in Nat /\ k < Len(list)
         /\ gc.obj = list[k + 1]
         /\ \A i \in 1..k : list'[i] = list[i]
         /\ \A i \in (k + 1)..(Len(list) - 1) : list'[i] = list[i + 1]
<1>1. Len(list) \in Nat /\ DOMAIN list = 1..Len(list) /\ list \in [1..Len(list) -> Object]
  BY LenProperties DEF Typed
<1>2. gc.obj \in Object /\ gc.obj # Null /\ gc.pc = "free"
  BY GCAssumption DEF Typed, SweepFree
<1> DEFINE b == After(gc.obj)
           a == UpTo(gc.prev)
<1>3. /\ k + 1 \in 1..Len(list) /\ gc.obj = list[k + 1]
      /\ b \in Seq(Object) /\ Len(b) = Len(list) - (k + 1)
      /\ \A i \in 1..(Len(list) - (k + 1)) : b[i] = list[k + 1 + i]
  BY <1>2, SweepNode
<1>4. a \in Seq(Object) /\ Len(a) = k /\ \A i \in 1..k : a[i] = list[i]
  <2>1. CASE k = 0
    <3>1. a = << >>
      BY <2>1 DEF SweepAt, UpTo
    <3> QED BY <2>1, <3>1, EmptySeq
  <2>2. CASE k # 0
    <3>1. k \in DOMAIN list /\ gc.prev = list[k] /\ gc.prev # Null
      BY <1>1, <2>2, GCAssumption DEF SweepAt
    <3>2. a = SubSeq(list, 1, k)
      BY <3>1, PositionIs DEF Listed, UpTo
    <3>3. 1 \in Int /\ k \in Int /\ \A i \in 1..k : list[i] \in Object
      BY <1>1
    <3>4. a \in Seq(Object) /\ Len(a) = k - 1 + 1 /\ \A i \in 1..(k - 1 + 1) : a[i] = list[1 + i - 1]
      BY <1>1, <2>2, <3>2, <3>3, SubSeqProperties
    <3> QED BY <1>1, <3>4
  <2> QED BY <2>1, <2>2
<1>5. list' = a \o b
  BY DEF SweepFree
<1> HIDE DEF a, b
<1>6. /\ list' \in Seq(Object) /\ Len(list') = Len(a) + Len(b)
      /\ \A i \in 1..(Len(a) + Len(b)) : list'[i] = IF i <= Len(a) THEN a[i] ELSE b[i - Len(a)]
  BY <1>3, <1>4, <1>5, ConcatProperties, ZenonT(30)
<1>7. Len(list') = Len(list) - 1 /\ k < Len(list)
  BY <1>1, <1>3, <1>4, <1>6
<1>8. ASSUME NEW i \in 1..k PROVE list'[i] = list[i]
  <2>1. k \in Nat /\ Len(b) \in Nat
    BY <1>1, <1>3
  <2>2. i \in 1..(Len(a) + Len(b)) /\ i <= Len(a)
    BY <1>4, <2>1
  <2> QED BY <1>4, <1>6, <2>2
<1>9. ASSUME NEW i \in (k + 1)..(Len(list) - 1) PROVE list'[i] = list[i + 1]
  <2>1. i \in 1..(Len(a) + Len(b)) /\ ~(i <= Len(a)) /\ i - Len(a) \in 1..(Len(list) - (k + 1))
        /\ k + 1 + (i - Len(a)) = i + 1
    BY <1>1, <1>3, <1>4, <1>9
  <2> QED BY <1>3, <1>6, <2>1
<1> QED BY <1>1, <1>3, <1>6, <1>7, <1>8, <1>9

-----------------------------------------------------------------------------
LEMMA CollectorTyped == ASSUME HInv, Collector \/ Shutdown PROVE Typed'
<1> USE DEF HInv
<1> DEFINE Operands == \A u \in Thread : /\ th[u].pc = "pushOld" => th[u].old \in Object
                                         /\ th[u].pc = "pushNew" => th[u].new \in Object
                                         /\ th[u].pc = "pushDirect" => th[u].obj \in Object
<1>0. /\ Typed /\ Operands /\ Null \in Ptr /\ Object \subseteq Ptr /\ Null \notin Object
      /\ gc \in CollectorState /\ gc.pc \in CollectorPcs /\ gc.obj \in Ptr /\ gc.prev \in Ptr
  BY GCAssumption DEF Typed, CollectorState, Ptr
<1> USE DEF heapVars, flagVars
<1>1. CASE Shutdown
  BY <1>0, <1>1 DEF Typed, Shutdown
<1>2. CASE CheckRunning
  <2>1. "exchange" \in CollectorPcs /\ "exited" \in CollectorPcs
    BY DEF CollectorPcs, Cycle
  <2>2. gc' \in CollectorState /\ gc'.pc \in {"exchange", "exited"}
    BY <1>0, <1>2, <2>1, CollectorAtIs DEF CheckRunning
  <2> QED BY <1>0, <1>2, <2>2 DEF Typed, CheckRunning, Marking
<1>3. CASE TakeRequest
  <2>1. "start" \in CollectorPcs /\ "check" \in CollectorPcs
    BY DEF CollectorPcs, Cycle
  <2>2. gc' \in CollectorState /\ gc'.pc \in {"start", "check"}
    BY <1>0, <1>3, <2>1, CollectorAtIs DEF TakeRequest
  <2> QED BY <1>0, <1>3, <2>2 DEF Typed, TakeRequest, Marking
<1>4. CASE StartMark
  <2>1. gc' \in CollectorState /\ gc'.pc = "pop"
    BY <1>0, <1>4 DEF StartMark, CollectorState, CollectorPcs, Cycle, Marking
  <2> QED BY <1>0, <1>4, <2>1 DEF Typed, StartMark, Marking
<1>5. CASE PopGray
  <2>1. Head(queue) \in Object /\ queue' \in Seq(Object)
    BY <1>0, <1>5, HeadTailProperties DEF Typed, PopGray
  <2>2. gc' \in CollectorState /\ gc'.pc = "blacken" /\ gc'.obj \in Object
    BY <1>0, <1>5, <2>1 DEF PopGray, CollectorState, CollectorPcs, Cycle, Marking
  <2> QED BY <1>0, <1>5, <2>1, <2>2 DEF Typed, PopGray, Marking
<1>6. CASE EndDrain
  <2>1. gc' \in CollectorState /\ gc'.pc \in {"pop", "endMark"}
    BY <1>0, <1>6 DEF EndDrain, CollectorState, CollectorPcs, Cycle, Marking
  <2> QED BY <1>0, <1>6, <2>1 DEF Typed, EndDrain, Marking
<1>7. CASE Blacken
  <2>1. color' \in [Object -> Colors]
    BY <1>0, <1>7 DEF Blacken, Typed, Colors
  <2>2. "scan" \in CollectorPcs /\ "pop" \in CollectorPcs /\ gc.obj \in Object
    BY <1>0, <1>7 DEF CollectorPcs, Cycle, Marking, Blacken, Typed
  <2>3. gc' \in CollectorState /\ gc'.obj \in Object
    BY <1>0, <1>7, <2>2, CollectorAtIs DEF Blacken
  <2> QED BY <1>0, <1>7, <2>1, <2>3 DEF Typed, Blacken
<1>8. CASE ScanField
  <2>1. gc' \in CollectorState /\ ((gc'.pc = "shade" /\ gc'.obj \in Object) \/ gc'.pc = "pop")
    <3>1. CASE field[gc.obj] \in alive
      <4>1. gc' = [gc EXCEPT !.pc = "shade", !.obj = field[gc.obj]] /\ field[gc.obj] \in Object
        BY <1>0, <1>8, <3>1 DEF ScanField, CollectorState, Typed
      <4> QED BY <1>0, <4>1 DEF CollectorState, CollectorPcs, Cycle, Marking
    <3>2. CASE field[gc.obj] \notin alive
      BY <1>0, <1>8, <3>2 DEF ScanField, CollectorState, CollectorPcs, Cycle, Marking
    <3> QED BY <3>1, <3>2
  <2> QED BY <1>0, <1>8, <2>1 DEF Typed, ScanField, Marking
<1>9. CASE ShadeChild
  <2>1. color' \in [Object -> Colors]
    BY <1>0, <1>9 DEF ShadeChild, Typed, Colors
  <2>2. "push" \in CollectorPcs /\ "pop" \in CollectorPcs /\ gc.obj \in Object
    BY <1>0, <1>9 DEF CollectorPcs, Cycle, Marking, ShadeChild, Typed
  <2>3. gc' \in CollectorState /\ gc'.obj \in Object
    BY <1>0, <1>9, <2>2, CollectorAtIs DEF ShadeChild
  <2> QED BY <1>0, <1>9, <2>1, <2>3 DEF Typed, ShadeChild
<1>10. CASE PushChild
  <2>1. "pop" \in CollectorPcs /\ gc.obj \in Object
    BY <1>0, <1>10 DEF CollectorPcs, Cycle, Marking, PushChild, Typed
  <2>2. gc' \in CollectorState /\ gc'.pc = "pop" /\ queue' \in Seq(Object)
    BY <1>0, <1>10, <2>1, CollectorAtIs, PushTyped DEF PushChild
  <2> QED BY <1>0, <1>10, <2>2 DEF Typed, PushChild, Marking
<1>11. CASE StartSweep
  <2>1. "lock" \in CollectorPcs
    BY DEF CollectorPcs, Cycle
  <2>2. gc' \in CollectorState /\ gc'.pc = "lock"
    BY <1>0, <1>11, <2>1, CollectorAtIs DEF StartSweep
  <2> QED BY <1>0, <1>11, <2>2 DEF Typed, StartSweep, Marking
<1>12. CASE LockList
  <2>1. First(list) \in Ptr
    BY <1>0, HeadTailProperties DEF First, Typed
  <2>2. gc' \in CollectorState /\ gc'.pc = "sweep"
    BY <1>0, <1>12, <2>1 DEF LockList, CollectorState, CollectorPcs, Cycle, Sweeping
  <2> QED BY <1>0, <1>12, <2>2 DEF Typed, LockList, Marking
<1>13. CASE UnlockList
  <2>1. "unlocked" \in CollectorPcs
    BY DEF CollectorPcs, Cycle
  <2>2. gc' \in CollectorState /\ gc'.pc = "unlocked"
    BY <1>0, <1>13, <2>1, CollectorAtIs DEF UnlockList
  <2> QED BY <1>0, <1>13, <2>2 DEF Typed, UnlockList, Marking
<1>14. CASE EndSweep
  <2>1. "down" \in CollectorPcs /\ "announce" \in CollectorPcs
    BY DEF CollectorPcs, Cycle
  <2>2. gc' \in CollectorState /\ gc'.pc \in {"down", "announce"}
    BY <1>0, <1>14, <2>1, CollectorAtIs DEF EndSweep
  <2> QED BY <1>0, <1>14, <2>2 DEF Typed, EndSweep, Marking
<1>15. CASE Announce
  <2>1. "check" \in CollectorPcs
    BY DEF CollectorPcs
  <2>2. gc' \in CollectorState /\ gc'.pc = "check"
    BY <1>0, <1>15, <2>1, CollectorAtIs DEF Announce
  <2> QED BY <1>0, <1>15, <2>2 DEF Typed, Announce, Marking
<1>16. CASE FinalSweep
  <2>1. gc' \in CollectorState /\ gc'.pc = "endMark"
    BY <1>0, <1>16 DEF FinalSweep, CollectorState, CollectorPcs, Cycle
  <2> QED BY <1>0, <1>16, <2>1 DEF Typed, FinalSweep, Marking
<1>17. CASE SweepVisit \/ SweepFree
  <2>1. PICK k \in 0..Len(list) : SweepAt(k)
    BY <1>17 DEF SweepVisit, SweepFree, Sweeping, Listed
  <2>2. gc.obj # Null
    BY <1>0, <1>17 DEF SweepVisit, SweepFree, Typed
  <2>3. gc.obj \in alive /\ gc.obj \in Object /\ First(After(gc.obj)) \in Ptr
    <3>1. list \in [1..Len(list) -> Object] /\ alive \subseteq Object /\ Len(list) \in Nat
      BY <1>0, LenProperties DEF Typed
    <3>2. /\ gc.obj \in alive
          /\ First(After(gc.obj)) = IF k + 1 < Len(list) THEN list[k + 2] ELSE Null
      BY <1>0, <2>1, <2>2, SweepNode
    <3>3. k + 1 < Len(list) => k + 2 \in 1..Len(list)
      BY <3>1
    <3> QED BY <1>0, <3>1, <3>2, <3>3
  <2>4. gc' \in CollectorState /\ gc'.pc \in Sweeping /\ (gc'.pc = "free" => gc'.obj \in Object)
    <3>1. CASE SweepVisit /\ color[gc.obj] = "white"
      <4>1. "free" \in CollectorPcs /\ CollectorAt("free")
        BY <3>1 DEF SweepVisit, CollectorPcs, Cycle, Sweeping
      <4> QED BY <1>0, <2>3, <4>1, CollectorAtIs DEF Sweeping
    <3>2. CASE SweepVisit /\ color[gc.obj] # "white"
      BY <1>0, <2>3, <3>2 DEF SweepVisit, CollectorState, Sweeping
    <3>3. CASE SweepFree
      BY <1>0, <2>3, <3>3 DEF SweepFree, CollectorState, CollectorPcs, Cycle, Sweeping
    <3> QED BY <1>17, <3>1, <3>2, <3>3
  <2>5. color' \in [Object -> Colors] /\ field' \in [Object -> Ptr] /\ alive' \subseteq Object
    BY <1>0, <1>17, <2>3 DEF SweepVisit, SweepFree, Typed, Colors
  <2>6. list' \in Seq(Object)
    BY <1>0, <1>17, <2>1, SweepFreeIs DEF SweepVisit, Typed
  <2>7. UNCHANGED <<phase, queue, flagVars, th, roots, begun, served>>
    BY <1>17 DEF SweepVisit, SweepFree
  <2> QED BY <1>0, <2>4, <2>5, <2>6, <2>7 DEF Typed, Marking, Sweeping
<1> QED BY <1>1, <1>2, <1>3, <1>4, <1>5, <1>6, <1>7, <1>8, <1>9, <1>10, <1>11, <1>12, <1>13, <1>14,
           <1>15, <1>16, <1>17 DEF Collector

-----------------------------------------------------------------------------
(* Flags and Listed, step by step. *)

LEMMA FlagsKeep == ASSUME HInv, [Next]_vars PROVE Flags'
<1> USE DEF HInv
<1>0. /\ Typed /\ Flags /\ gc \in CollectorState
  BY DEF Typed
<1>1. CASE UNCHANGED vars
  BY <1>0, <1>1 DEF Flags, vars, flagVars
<1>2. CASE Shutdown
  BY <1>0, <1>2 DEF Flags, Shutdown
<1>3. ASSUME NEW t \in Thread, Begin(t) \/ Continue(t) PROVE Flags'
  <2>1. UNCHANGED <<phase, gc, running>>
    BY <1>3 DEF Begin, Continue, Alloc, Load, Forget, Barrier, ReadOld, ShadeOld,
        PushOld, ShadeNew, PushNew, Store, DirectShade, PushDirect, CollectClear, CollectRequest,
        CollectReturn, flagVars
  <2>2. running
    BY <1>0, <1>3 DEF Flags, Begin, Continue, Alloc, Load, Forget, Barrier, ReadOld, ShadeOld, PushOld,
        ShadeNew, PushNew, Store, DirectShade, PushDirect, CollectClear, CollectRequest, CollectReturn,
        Mutating, Ready
  <2> QED BY <1>0, <2>1, <2>2 DEF Flags
<1>4. CASE Collector
  <2>1. UNCHANGED <<running, th>>
    BY <1>4 DEF Collector, CheckRunning, TakeRequest, StartMark, PopGray, EndDrain, Blacken, ScanField,
        ShadeChild, PushChild, StartSweep, LockList, SweepVisit, SweepFree, UnlockList, EndSweep, Announce,
        FinalSweep, flagVars
  <2> DEFINE P == /\ phase' = "mark" <=> gc'.pc \in Marking \/ (gc'.pc = "endMark" /\ ~gc'.final)
                  /\ gc'.pc \in {"exited", "down"} \/ gc'.final => ~running
                  /\ gc'.final => gc'.pc \in Sweeping \cup {"endMark", "lock", "unlocked", "down"}
  <2> SUFFICES P
    BY <1>0, <2>1 DEF Flags
  <2> USE <1>0 DEF CollectorAt, CollectorState, Flags, Marking, Sweeping
  <2>2. CASE CheckRunning
    BY <2>2 DEF CheckRunning
  <2>3. CASE TakeRequest
    BY <2>3 DEF TakeRequest
  <2>4. CASE StartMark
    BY <2>4 DEF StartMark
  <2>5. CASE PopGray
    BY <2>5 DEF PopGray
  <2>6. CASE EndDrain
    <3>1. CASE gc.pass = 1
      BY <2>6, <3>1 DEF EndDrain
    <3>2. CASE gc.pass # 1
      BY <2>6, <3>2 DEF EndDrain
    <3> QED BY <3>1, <3>2
  <2>7. CASE Blacken
    BY <2>7 DEF Blacken
  <2>8. CASE ScanField
    BY <2>8 DEF ScanField
  <2>9. CASE ShadeChild
    BY <2>9 DEF ShadeChild
  <2>10. CASE PushChild
    BY <2>10 DEF PushChild
  <2>11. CASE StartSweep
    BY <2>11 DEF StartSweep
  <2>12. CASE LockList
    BY <2>12 DEF LockList
  <2>13. CASE SweepVisit
    BY <2>13 DEF SweepVisit
  <2>14. CASE SweepFree
    BY <2>14 DEF SweepFree
  <2>15. CASE UnlockList
    BY <2>15 DEF UnlockList
  <2>16. CASE EndSweep
    BY <2>16 DEF EndSweep
  <2>17. CASE Announce
    BY <2>17 DEF Announce
  <2>18. CASE FinalSweep
    BY <2>18 DEF FinalSweep
  <2> QED BY <1>4, <2>2, <2>3, <2>4, <2>5, <2>6, <2>7, <2>8, <2>9, <2>10, <2>11, <2>12, <2>13, <2>14,
             <2>15, <2>16, <2>17, <2>18 DEF Collector
<1> QED BY <1>1, <1>2, <1>3, <1>4 DEF Next

\* A step that leaves the list alone, and does not sweep.
LEMMA ListKept ==
  ASSUME Listed, UNCHANGED <<alive, list>>, UNCHANGED gc \/ gc'.pc \notin Sweeping
  PROVE  Listed'
BY DEF Listed, Injective, SweepAt

LEMMA AllocListed ==
  ASSUME HInv, NEW t \in Thread, NEW o \in Object, Alloc(t, o)
  PROVE  Listed'
<1>1. /\ Len(list) \in Nat /\ DOMAIN list = 1..Len(list) /\ list \in Seq(Object)
      /\ Listed /\ o \notin alive /\ alive' = alive \cup {o} /\ list' = <<o>> \o list
      /\ gc.pc \notin Sweeping /\ UNCHANGED gc
  BY LenProperties DEF HInv, Typed, Alloc
<1>2. /\ DOMAIN list' = 1..(Len(list) + 1) /\ list'[1] = o
      /\ \A i \in 1..Len(list) : list'[i + 1] = list[i]
  BY <1>1, ConcatProperties
<1>3. \A i \in 1..(Len(list) + 1) : i = 1 \/ (i - 1 \in 1..Len(list) /\ list'[i] = list[i - 1])
  BY <1>1, <1>2
<1>4. {list'[i] : i \in DOMAIN list'} = alive'
  <2>1. \A i \in DOMAIN list' : list'[i] \in alive'
    BY <1>1, <1>2, <1>3 DEF Listed
  <2>2. ASSUME NEW x \in alive' PROVE \E i \in DOMAIN list' : list'[i] = x
    <3>1. CASE x = o
      BY <1>1, <1>2, <3>1
    <3>2. CASE x \in alive
      <4>1. PICK i \in 1..Len(list) : list[i] = x
        BY <1>1, <3>2 DEF Listed
      <4>2. i + 1 \in DOMAIN list' /\ list'[i + 1] = x
        BY <1>1, <1>2, <4>1
      <4> QED BY <4>2
    <3> QED BY <1>1, <3>1, <3>2
  <2> QED BY <2>1, <2>2
<1>5. Injective'
  <2> SUFFICES ASSUME NEW i \in DOMAIN list', NEW j \in DOMAIN list', list'[i] = list'[j]
               PROVE  i = j
    BY DEF Injective
  <2>1. \A x \in 1..Len(list) : list[x] # o
    BY <1>1 DEF Listed
  <2>2. CASE i = 1 \/ j = 1
    BY <1>1, <1>2, <1>3, <2>1, <2>2
  <2>3. CASE i # 1 /\ j # 1
    <3>1. /\ i - 1 \in 1..Len(list) /\ j - 1 \in 1..Len(list) /\ list[i - 1] = list[j - 1]
          /\ i \in Nat /\ j \in Nat
      BY <1>2, <1>3, <2>3
    <3>2. i - 1 = j - 1
      BY <1>1, <3>1 DEF Listed, Injective
    <3> QED BY <3>1, <3>2
  <2> QED BY <2>2, <2>3
<1> QED BY <1>1, <1>4, <1>5 DEF Listed

LEMMA SweepVisitListed == ASSUME HInv, SweepVisit PROVE Listed'
<1>1. /\ Typed /\ Listed /\ gc \in CollectorState /\ gc.obj # Null /\ gc.pc = "sweep" /\ UNCHANGED <<alive, list>>
      /\ Null \notin Object
  BY GCAssumption DEF HInv, Typed, SweepVisit
<1>2. PICK k \in 0..Len(list) : SweepAt(k)
  BY <1>1 DEF Listed, Sweeping
<1>3. /\ Len(list) \in Nat /\ k + 1 \in 1..Len(list) /\ gc.obj = list[k + 1] /\ gc.obj \in alive
      /\ First(After(gc.obj)) = IF k + 1 < Len(list) THEN list[k + 2] ELSE Null
  BY <1>1, <1>2, SweepNode
<1>4. CASE color[gc.obj] = "white"
  <2>1. gc'.pc = "free" /\ gc'.obj = gc.obj /\ gc'.prev = gc.prev
    BY <1>1, <1>4 DEF SweepVisit, CollectorAt, CollectorState
  <2>2. SweepAt(k)'
    BY <1>1, <1>2, <1>3, <2>1 DEF SweepAt
  <2> QED BY <1>1, <1>2, <2>2 DEF Listed, Injective
<1>5. CASE color[gc.obj] # "white"
  <2>1. gc'.pc = "sweep" /\ gc'.obj = First(After(gc.obj)) /\ gc'.prev = gc.obj
    BY <1>1, <1>5 DEF SweepVisit, CollectorState
  <2>2. k + 1 \in 0..Len(list) /\ k + 1 # 0 /\ k + 1 + 1 = k + 2
    BY <1>3
  <2>3. SweepAt(k + 1)'
    BY <1>1, <1>3, <2>1, <2>2 DEF SweepAt
  <2> QED BY <1>1, <2>2, <2>3 DEF Listed, Injective
<1> QED BY <1>4, <1>5

LEMMA SweepFreeListed == ASSUME HInv, SweepFree PROVE Listed'
<1>1. /\ Typed /\ Listed /\ gc \in CollectorState /\ gc.obj \in Object /\ gc.obj # Null /\ gc.pc = "free"
      /\ Null \notin Object
  BY GCAssumption DEF HInv, Typed, SweepFree
<1>2. PICK k \in 0..Len(list) : SweepAt(k)
  BY <1>1 DEF Listed, Sweeping
<1> DEFINE n == Len(list)
<1>3. /\ k + 1 \in 1..n /\ gc.obj = list[k + 1] /\ gc.obj \in alive
      /\ First(After(gc.obj)) = IF k + 1 < n THEN list[k + 2] ELSE Null
  BY <1>1, <1>2, SweepNode
<1>4. /\ list' \in Seq(Object) /\ Len(list') = n - 1 /\ n \in Nat /\ k \in Nat /\ k < n
      /\ \A i \in 1..k : list'[i] = list[i]
      /\ \A i \in (k + 1)..(n - 1) : list'[i] = list[i + 1]
  BY <1>1, <1>2, SweepFreeIs
<1>5. DOMAIN list = 1..n /\ DOMAIN list' = 1..(n - 1)
  BY <1>1, <1>4, LenProperties DEF Typed
<1>6. /\ alive' = alive \ {gc.obj} /\ gc'.pc = "sweep" /\ gc'.prev = gc.prev
      /\ gc'.obj = First(After(gc.obj))
  BY <1>1 DEF SweepFree, CollectorState
<1> HIDE DEF n
\* Where a node of the new list was in the old one, and the other way round.
<1> DEFINE Old(i) == IF i <= k THEN i ELSE i + 1
<1>7. ASSUME NEW i \in 1..(n - 1)
      PROVE  Old(i) \in 1..n /\ Old(i) # k + 1 /\ list'[i] = list[Old(i)]
  <2>1. CASE i <= k
    BY <1>4, <2>1
  <2>2. CASE ~(i <= k)
    <3>1. i \in (k + 1)..(n - 1) /\ i + 1 \in 1..n /\ i + 1 # k + 1 /\ Old(i) = i + 1
      BY <1>4, <2>2
    <3> QED BY <1>4, <3>1
  <2> QED BY <2>1, <2>2
<1>8. ASSUME NEW j \in 1..n, j # k + 1 PROVE \E i \in 1..(n - 1) : Old(i) = j
  <2>1. CASE j <= k
    <3>1. j \in 1..(n - 1) /\ Old(j) = j
      BY <1>4, <2>1
    <3> QED BY <3>1
  <2>2. CASE ~(j <= k)
    <3>1. j - 1 \in 1..(n - 1) /\ Old(j - 1) = j
      BY <1>4, <1>8, <2>2
    <3> QED BY <3>1
  <2> QED BY <2>1, <2>2
<1>9. \A i, j \in 1..(n - 1) : Old(i) = Old(j) => i = j
  BY <1>4
<1> HIDE DEF Old
<1>10. Injective'
  BY <1>1, <1>5, <1>7, <1>9 DEF Injective, Listed
<1>11. {list'[i] : i \in DOMAIN list'} = alive'
  <2>1. ASSUME NEW i \in 1..(n - 1) PROVE list'[i] \in alive'
    <3>1. list'[i] = list[Old(i)] /\ list[Old(i)] \in alive
      BY <1>1, <1>5, <1>7 DEF Listed
    <3>2. list[Old(i)] # list[k + 1]
      BY <1>1, <1>3, <1>5, <1>7 DEF Listed, Injective
    <3> QED BY <1>3, <1>6, <3>1, <3>2
  <2>2. ASSUME NEW x \in alive' PROVE \E i \in 1..(n - 1) : list'[i] = x
    <3>1. PICK j \in 1..n : list[j] = x
      BY <1>1, <1>5, <1>6 DEF Listed
    <3>2. j # k + 1
      BY <1>3, <1>6, <3>1
    <3> QED BY <1>7, <1>8, <3>1, <3>2
  <2> QED BY <1>5, <2>1, <2>2
<1>12. SweepAt(k)'
  <2>1. k # 0 => list'[k] = list[k]
    BY <1>4
  <2>2. k < n - 1 <=> k + 1 < n
    BY <1>4
  <2>3. k < n - 1 => list'[k + 1] = list[k + 2]
    <3>1. k < n - 1 => k + 1 \in (k + 1)..(n - 1) /\ k + 1 + 1 = k + 2
      BY <1>4
    <3> QED BY <1>4, <3>1
  <2>4. gc.prev = IF k = 0 THEN Null ELSE list[k]
    BY <1>2 DEF SweepAt
  <2> QED BY <1>3, <1>4, <1>6, <2>1, <2>2, <2>3, <2>4 DEF SweepAt
<1>13. k \in 0..Len(list')
  BY <1>4
<1> QED BY <1>10, <1>11, <1>12, <1>13 DEF Listed

LEMMA ListedKeep == ASSUME HInv, [Next]_vars PROVE Listed'
<1>0. Typed /\ Listed /\ gc \in CollectorState
  BY DEF HInv, Typed
<1>1. CASE UNCHANGED vars
  BY <1>0, <1>1, ListKept DEF vars, heapVars
<1>2. CASE Shutdown
  BY <1>0, <1>2, ListKept DEF Shutdown, heapVars
<1>3. ASSUME NEW t \in Thread, Begin(t) \/ Continue(t) PROVE Listed'
  <2>1. CASE \E o \in Object : Alloc(t, o)
    BY <2>1, AllocListed
  <2>2. CASE ~(\E o \in Object : Alloc(t, o))
    <3>1. UNCHANGED <<alive, list, gc>>
      BY <1>3, <2>2 DEF Begin, Continue, Load, Forget, Barrier, ReadOld, ShadeOld,
        PushOld, ShadeNew, PushNew, Store, DirectShade, PushDirect, CollectClear, CollectRequest,
        CollectReturn, heapVars
    <3> QED BY <1>0, <3>1, ListKept
  <2> QED BY <2>1, <2>2
<1>4. CASE LockList
  <2>1. /\ gc'.pc = "sweep" /\ gc'.obj = First(list) /\ gc'.prev = Null /\ UNCHANGED <<alive, list>>
    BY <1>0, <1>4 DEF LockList, CollectorState, heapVars
  <2>2. Len(list) \in Nat /\ list \in Seq(Object)
    BY <1>0, LenProperties DEF Typed
  <2>3. First(list) = IF 0 < Len(list) THEN list[0 + 1] ELSE Null
    BY <2>2, EmptySeq, HeadTailProperties DEF First
  <2>4. SweepAt(0)'
    BY <2>1, <2>3 DEF SweepAt
  <2>5. 0 \in 0..Len(list)
    BY <2>2
  <2> QED BY <1>0, <2>1, <2>4, <2>5 DEF Listed, Injective
<1>5. CASE Collector /\ ~LockList /\ ~SweepVisit /\ ~SweepFree
  <2>1. UNCHANGED <<alive, list>> /\ gc'.pc \notin Sweeping
    BY <1>0, <1>5 DEF Collector, CheckRunning, TakeRequest, StartMark, PopGray, EndDrain, Blacken, ScanField,
        ShadeChild, PushChild, StartSweep, UnlockList, EndSweep, Announce,
        FinalSweep, heapVars, CollectorAt, CollectorState, Sweeping
  <2> QED BY <1>0, <2>1, ListKept
<1> QED BY <1>1, <1>2, <1>3, <1>4, <1>5, SweepVisitListed, SweepFreeListed DEF Next, Collector

LEMMA NextHInv == HInv /\ [Next]_vars => HInv'
<1> SUFFICES ASSUME HInv, [Next]_vars PROVE HInv'
  OBVIOUS
<1>1. Typed'
  <2>1. CASE UNCHANGED vars
    BY <2>1 DEF HInv, Typed, vars, heapVars, flagVars
  <2> QED BY <2>1, CollectorTyped, ThreadTyped DEF Next
<1> QED BY <1>1, FlagsKeep, ListedKeep DEF HInv

LEMMA HInvHolds == Spec => []HInv
BY InitHInv, NextHInv, PTL DEF Spec

\* The allocation list and the heap agree, whatever the threads and the sweep do.
THEOREM GCHeapIsConsistent == Spec => []HeapIsConsistent
<1>1. ASSUME HInv PROVE TypeOK
  BY <1>1 DEF HInv, Typed, TypeOK, CollectorState, ThreadState
<1>2. ASSUME HInv PROVE ListExact
  <2>1. Len(list) \in Nat /\ DOMAIN list = 1..Len(list) /\ Listed
    BY <1>2, LenProperties DEF HInv, Typed
  <2>2. list \in Bijection(1..Len(list), alive)
    <3>1. list \in [1..Len(list) -> alive]
      BY <1>2, <2>1, LenProperties DEF Listed, HInv, Typed
    <3>2. \A o \in alive : \E i \in 1..Len(list) : list[i] = o
      BY <2>1 DEF Listed
    <3>3. IsInjective(list)
      BY <2>1 DEF Listed, Injective, IsInjective
    <3> QED BY <3>1, <3>2, <3>3 DEF Bijection, Injection, Surjection
  <2>3. ExistsBijection(1..Len(list), alive)
    BY <2>2 DEF ExistsBijection
  <2>4. Cardinality(alive) = Len(list)
    BY <2>1, <2>3, FS_CountingElements
  <2> QED BY <2>1, <2>4 DEF ListExact, Listed
<1>3. HInv => HeapIsConsistent
  BY <1>1, <1>2 DEF HeapIsConsistent
<1> QED BY <1>3, HInvHolds, PTL

-----------------------------------------------------------------------------
(* No gray object is forgotten, if the queue can grow. *)

Pushing(t, o) == \/ th[t].pc = "pushOld" /\ th[t].old = o
                 \/ th[t].pc = "pushNew" /\ th[t].new = o
                 \/ th[t].pc = "pushDirect" /\ th[t].obj = o
Queued(o) == \E i \in DOMAIN queue : queue[i] = o
InHand(o) == gc.pc \in {"blacken", "push"} /\ gc.obj = o
Pending(o) == Queued(o) \/ InHand(o) \/ \E t \in Thread : Pushing(t, o)

LEMMA GrayIsPendingIs == GrayIsPending <=> \A o \in alive : color[o] = "gray" => Pending(o)
BY DEF GrayIsPending, Pending, Queued, InHand, Pushing

LEMMA PushQueues ==
  ASSUME QueueGrows, Typed, NEW o \in Object, Push(o)
  PROVE  \A x \in Object : Queued(x)' <=> Queued(x) \/ x = o
<1>1. queue' = Append(queue, o) /\ queue \in Seq(Object)
  BY DEF QueueGrows, Push, Typed
<1>2. /\ Len(queue) \in Nat /\ DOMAIN queue = 1..Len(queue) /\ DOMAIN queue' = 1..(Len(queue) + 1)
      /\ \A i \in 1..Len(queue) : queue'[i] = queue[i]
      /\ queue'[Len(queue) + 1] = o
  BY <1>1, AppendProperties, LenProperties
<1>3. \A i \in 1..(Len(queue) + 1) : i \in 1..Len(queue) \/ i = Len(queue) + 1
  BY <1>2
<1>4. \A i \in 1..Len(queue) : i \in 1..(Len(queue) + 1)
  BY <1>2
<1>5. Len(queue) + 1 \in 1..(Len(queue) + 1)
  BY <1>2
<1> QED BY <1>2, <1>3, <1>4, <1>5 DEF Queued

\* A thread that is pushing nothing takes a step that shades nothing.
LEMMA StepPushesNothing ==
  ASSUME Typed, GrayIsPending, NEW t \in Thread, UNCHANGED <<queue, gc>>,
         \A o \in alive' : color'[o] = "gray" => o \in alive /\ color[o] = "gray",
         \A u \in Thread \ {t} : th'[u] = th[u],
         th[t].pc \notin {"pushOld", "pushNew", "pushDirect"}
  PROVE  GrayIsPending'
<1> SUFFICES ASSUME NEW o \in alive', color'[o] = "gray" PROVE Pending(o)'
  BY DEF GrayIsPending, Pending, Queued, InHand, Pushing
<1>1. Pending(o)
  BY GrayIsPendingIs
<1>2. \A u \in Thread : Pushing(u, o) => u # t
  BY DEF Pushing
<1> QED BY <1>1, <1>2 DEF Pending, Queued, InHand, Pushing

\* A thread shades an object and is about to push it.
LEMMA StepShades ==
  ASSUME Typed, GrayIsPending, NEW t \in Thread, NEW x \in Object, UNCHANGED <<queue, gc, alive>>,
         color' = [color EXCEPT ![x] = "gray"],
         \A u \in Thread \ {t} : th'[u] = th[u],
         th[t].pc \notin {"pushOld", "pushNew", "pushDirect"},
         Pushing(t, x)'
  PROVE  GrayIsPending'
<1> SUFFICES ASSUME NEW o \in alive', color'[o] = "gray" PROVE Pending(o)'
  BY DEF GrayIsPending, Pending, Queued, InHand, Pushing
<1>1. CASE o = x
  BY <1>1 DEF Pending
<1>2. CASE o # x
  <2>1. color[o] = "gray"
    BY <1>2 DEF Typed
  <2>2. Pending(o)
    BY <2>1, GrayIsPendingIs
  <2>3. \A u \in Thread : Pushing(u, o) => u # t
    BY DEF Pushing
  <2> QED BY <2>2, <2>3 DEF Pending, Queued, InHand, Pushing
<1> QED BY <1>1, <1>2

\* A thread pushes what it has shaded.
LEMMA StepPushes ==
  ASSUME QueueGrows, Typed, GrayIsPending, NEW t \in Thread, NEW x \in Object, Push(x),
         UNCHANGED <<gc, alive, color>>,
         \A u \in Thread \ {t} : th'[u] = th[u],
         \A o \in Object : Pushing(t, o) => o = x
  PROVE  GrayIsPending'
<1> SUFFICES ASSUME NEW o \in alive', color'[o] = "gray" PROVE Pending(o)'
  BY DEF GrayIsPending, Pending, Queued, InHand, Pushing
<1>1. Pending(o) /\ o \in Object
  BY GrayIsPendingIs DEF Typed
<1>2. Queued(o)' <=> Queued(o) \/ o = x
  BY <1>1, PushQueues
<1>3. CASE \E u \in Thread : Pushing(u, o) /\ u # t
  BY <1>3 DEF Pending, Pushing
<1>4. CASE InHand(o)
  BY <1>4 DEF Pending, InHand
<1> QED BY <1>1, <1>2, <1>3, <1>4 DEF Pending

LEMMA ThreadGray ==
  ASSUME QueueGrows, HInv, GrayIsPending, NEW t \in Thread, Begin(t) \/ Continue(t)
  PROVE  GrayIsPending'
<1>0. /\ Typed /\ th[t] \in ThreadState /\ Null \notin Object /\ th \in [Thread -> ThreadState]
      /\ color \in [Object -> Colors]
      /\ th[t].old \in Ptr /\ th[t].new \in Ptr /\ th[t].obj \in Ptr
  BY GCAssumption DEF HInv, Typed, ThreadState
<1> DEFINE Elsewhere == \A u \in Thread \ {t} : th'[u] = th[u]
           Busy == th[t].pc \in {"pushOld", "pushNew", "pushDirect"}
<1>1. ASSUME NEW o \in Object, Alloc(t, o) PROVE GrayIsPending'
  <2>1. \A x \in alive' : color'[x] = "gray" => x \in alive /\ color[x] = "gray"
    BY <1>0, <1>1 DEF Alloc
  <2>2. UNCHANGED <<queue, gc, th>> /\ ~Busy
    BY <1>1 DEF Alloc, Mutating, Ready
  <2> QED BY <1>0, <2>1, <2>2, StepPushesNothing
<1>2. ASSUME UNCHANGED <<queue, gc, alive, color>>, Elsewhere, ~Busy PROVE GrayIsPending'
  BY <1>0, <1>2, StepPushesNothing
<1>3. ASSUME NEW o \in Object, Load(t, o) \/ Forget(t, o) PROVE GrayIsPending'
  <2>1. UNCHANGED <<queue, gc, alive, color, th>> /\ ~Busy
    BY <1>3 DEF Load, Forget, Mutating, Ready, heapVars
  <2> QED BY <1>2, <2>1
<1>4. ASSUME NEW o \in Object, NEW new \in Ptr, Barrier(t, o, new) PROVE GrayIsPending'
  <2>1. UNCHANGED <<queue, gc, alive, color>> /\ ~Busy /\ Elsewhere
    BY <1>0, <1>4 DEF Barrier, Mutating, Ready, heapVars
  <2> QED BY <1>2, <2>1
<1>5. CASE ReadOld(t) \/ Store(t)
  <2>1. UNCHANGED <<queue, gc, alive, color>> /\ ~Busy /\ Elsewhere
    BY <1>0, <1>5 DEF ReadOld, Store, heapVars
  <2> QED BY <1>2, <2>1
<1>6. CASE CollectClear(t) \/ CollectRequest(t) \/ CollectReturn(t)
  <2>1. UNCHANGED <<queue, gc, alive, color>> /\ ~Busy
    BY <1>6 DEF CollectClear, CollectRequest, CollectReturn, Ready, heapVars
  <2>2. Elsewhere
    BY <1>0, <1>6 DEF CollectClear, CollectRequest, CollectReturn, Goto
  <2> QED BY <1>2, <2>1, <2>2
<1>7. ASSUME NEW x \in Ptr, NEW pushAt \in {"pushOld", "pushNew"}, NEW doneAt \in {"shadeNew", "store"},
             Shade(t, x, pushAt, doneAt), UNCHANGED <<alive, queue, gc>>, ~Busy,
             pushAt = "pushOld" => th[t].old = x, pushAt = "pushNew" => th[t].new = x
      PROVE  GrayIsPending'
  <2>0. pushAt \in ThreadPcs /\ doneAt \in ThreadPcs
    BY DEF ThreadPcs
  <2>1. CASE x # Null /\ color[x] = "white"
    <3>1. x \in Object /\ color' = [color EXCEPT ![x] = "gray"] /\ Goto(t, pushAt)
      BY <1>7, <2>1 DEF Shade, Ptr
    <3>2. Elsewhere /\ Pushing(t, x)'
      BY <1>0, <1>7, <2>0, <3>1, GotoIs DEF Pushing
    <3> QED BY <1>0, <1>7, <3>1, <3>2, StepShades
  <2>2. CASE ~(x # Null /\ color[x] = "white")
    <3>1. UNCHANGED color /\ Goto(t, doneAt)
      BY <1>7, <2>2 DEF Shade
    <3>2. Elsewhere
      BY <1>0, <2>0, <3>1, GotoIs
    <3> QED BY <1>2, <1>7, <3>1, <3>2
  <2> QED BY <2>1, <2>2
<1>8. CASE ShadeOld(t)
  BY <1>0, <1>7, <1>8 DEF ShadeOld
<1>9. CASE ShadeNew(t)
  BY <1>0, <1>7, <1>9 DEF ShadeNew
<1>10. ASSUME NEW o \in Object, DirectShade(t, o) PROVE GrayIsPending'
  <2>1. Elsewhere /\ th'[t].pc = "pushDirect" /\ th'[t].obj = o
    BY <1>0, <1>10 DEF DirectShade, IdleThread
  <2>2. UNCHANGED <<queue, gc, alive>> /\ ~Busy /\ color' = [color EXCEPT ![o] = "gray"]
    BY <1>10 DEF DirectShade, Mutating, Ready
  <2> QED BY <1>0, <2>1, <2>2, StepShades DEF Pushing
<1>11. ASSUME NEW x \in Object, Push(x), UNCHANGED <<gc, alive, color>>, Elsewhere,
              \A o \in Object : Pushing(t, o) => o = x
       PROVE  GrayIsPending'
  BY <1>0, <1>11, StepPushes
<1>12. CASE PushOld(t)
  <2>1. th[t].old \in Object /\ \A o \in Object : Pushing(t, o) => o = th[t].old
    BY <1>0, <1>12 DEF PushOld, Pushing, Typed
  <2>2. Push(th[t].old) /\ UNCHANGED <<gc, alive, color>> /\ Elsewhere
    BY <1>0, <1>12 DEF PushOld, Goto, heapVars
  <2> QED BY <1>11, <2>1, <2>2
<1>13. CASE PushNew(t)
  <2>1. th[t].new \in Object /\ \A o \in Object : Pushing(t, o) => o = th[t].new
    BY <1>0, <1>13 DEF PushNew, Pushing, Typed
  <2>2. Push(th[t].new) /\ UNCHANGED <<gc, alive, color>> /\ Elsewhere
    BY <1>0, <1>13 DEF PushNew, Goto, heapVars
  <2> QED BY <1>11, <2>1, <2>2
<1>14. CASE PushDirect(t)
  <2>1. th[t].obj \in Object /\ \A o \in Object : Pushing(t, o) => o = th[t].obj
    BY <1>0, <1>14 DEF PushDirect, Pushing, Typed
  <2>2. Push(th[t].obj) /\ UNCHANGED <<gc, alive, color>> /\ Elsewhere
    BY <1>0, <1>14 DEF PushDirect, heapVars
  <2> QED BY <1>11, <2>1, <2>2
<1> QED BY <1>1, <1>3, <1>4, <1>5, <1>6, <1>8, <1>9, <1>10, <1>12, <1>13, <1>14 DEF Begin, Continue

LEMMA CollectorGray ==
  ASSUME QueueGrows, HInv, GrayIsPending, Collector
  PROVE  GrayIsPending'
<1>0. Typed /\ gc \in CollectorState /\ color \in [Object -> Colors] /\ alive \subseteq Object
  BY DEF HInv, Typed
<1> SUFFICES ASSUME NEW o \in alive', color'[o] = "gray" PROVE Pending(o)'
  BY DEF GrayIsPending, Pending, Queued, InHand, Pushing
<1>1. UNCHANGED th /\ alive' \subseteq alive /\ o \in alive /\ o \in Object
  BY <1>0 DEF Collector, CheckRunning, TakeRequest, StartMark, PopGray, EndDrain, Blacken, ScanField,
        ShadeChild, PushChild, StartSweep, LockList, SweepVisit, SweepFree, UnlockList, EndSweep, Announce,
        FinalSweep, heapVars
<1>2. ASSUME NEW u \in Thread, Pushing(u, o) PROVE Pending(o)'
  BY <1>1, <1>2 DEF Pending, Pushing
<1>3. color[o] = "gray" => Pending(o)
  BY <1>1, GrayIsPendingIs
<1>4. CASE PopGray
  <2>1. color[o] = "gray" /\ ~InHand(o)
    BY <1>4 DEF PopGray, InHand, heapVars
  <2>2. ASSUME Queued(o) PROVE Pending(o)'
    <3>1. PICK i \in DOMAIN queue : queue[i] = o
      BY <2>2 DEF Queued
    <3>2. /\ queue \in Seq(Object) /\ queue # << >> /\ queue' = Tail(queue) /\ Len(queue) \in Nat
          /\ DOMAIN queue = 1..Len(queue) /\ gc'.pc = "blacken" /\ gc'.obj = Head(queue)
          /\ Head(queue) = queue[1]
      BY <1>0, <1>4, LenProperties DEF Typed, PopGray, CollectorState
    <3>3. CASE i = 1
      BY <3>1, <3>2, <3>3 DEF Pending, InHand
    <3>4. CASE i # 1
      <4>1. /\ Tail(queue) \in Seq(Object) /\ Len(Tail(queue)) = Len(queue) - 1
            /\ \A j \in 1..Len(Tail(queue)) : Tail(queue)[j] = queue[j + 1]
        BY <3>2, HeadTailProperties
      <4>2. i - 1 \in 1..Len(Tail(queue)) /\ i - 1 + 1 = i
        BY <3>1, <3>2, <3>4, <4>1
      <4>3. i - 1 \in DOMAIN queue' /\ queue'[i - 1] = o
        BY <3>1, <3>2, <4>1, <4>2, LenProperties
      <4> QED BY <4>3 DEF Pending, Queued
    <3> QED BY <3>3, <3>4
  <2> QED BY <1>2, <1>3, <2>1, <2>2 DEF Pending
<1>5. CASE Blacken
  <2>1. color[o] = "gray" /\ o # gc.obj /\ UNCHANGED queue
    BY <1>0, <1>1, <1>5 DEF Blacken
  <2> QED BY <1>2, <1>3, <2>1 DEF Pending, InHand, Queued
<1>6. CASE ShadeChild
  <2>1. CASE color[gc.obj] = "white" /\ o = gc.obj
    BY <1>0, <1>6, <2>1 DEF ShadeChild, CollectorAt, CollectorState, Pending, InHand
  <2>2. CASE ~(color[gc.obj] = "white" /\ o = gc.obj)
    <3>1. color[o] = "gray" /\ UNCHANGED queue /\ ~InHand(o)
      BY <1>0, <1>1, <1>6, <2>2 DEF ShadeChild, InHand
    <3> QED BY <1>2, <1>3, <3>1 DEF Pending, Queued
  <2> QED BY <2>1, <2>2
<1>7. CASE PushChild
  <2>1. color[o] = "gray" /\ gc.obj \in Object /\ Push(gc.obj)
    BY <1>0, <1>7 DEF PushChild, Typed, Marking, heapVars
  <2>2. Queued(o)' <=> Queued(o) \/ o = gc.obj
    BY <1>0, <1>1, <2>1, PushQueues
  <2> QED BY <1>2, <1>3, <2>1, <2>2 DEF Pending, InHand
<1>8. CASE SweepVisit \/ SweepFree
  <2>1. color[o] = "gray" /\ UNCHANGED queue /\ ~InHand(o)
    BY <1>0, <1>1, <1>8 DEF SweepVisit, SweepFree, InHand
  <2> QED BY <1>2, <1>3, <2>1 DEF Pending, Queued
<1>9. CASE ~(PopGray \/ Blacken \/ ShadeChild \/ PushChild \/ SweepVisit \/ SweepFree)
  <2>1. UNCHANGED <<color, queue>> /\ ~InHand(o)
    BY <1>9 DEF Collector, CheckRunning, TakeRequest, StartMark, EndDrain, ScanField,
        StartSweep, LockList, UnlockList, EndSweep, Announce, FinalSweep, heapVars, InHand
  <2> QED BY <1>2, <1>3, <2>1 DEF Pending, Queued
<1> QED BY <1>4, <1>5, <1>6, <1>7, <1>8, <1>9

LEMMA NextGray ==
  ASSUME QueueGrows
  PROVE  HInv /\ GrayIsPending /\ [Next]_vars => GrayIsPending'
<1> SUFFICES ASSUME HInv, GrayIsPending, [Next]_vars PROVE GrayIsPending'
  OBVIOUS
<1>1. CASE UNCHANGED vars \/ Shutdown
  <2>1. UNCHANGED <<alive, color, queue, gc, th>>
    BY <1>1 DEF vars, heapVars, Shutdown
  <2> QED BY <2>1 DEF GrayIsPending
<1> QED BY <1>1, ThreadGray, CollectorGray DEF Next

\* If mi_realloc never fails, an object turned gray by a thread or by the collector
\* stays in the queue or in the hands of one of them until it is scanned or swept.
THEOREM GCGrayIsPending ==
  ASSUME QueueGrows
  PROVE  Spec => []GrayIsPending
<1>1. Init => GrayIsPending
  BY DEF Init, GrayIsPending
<1> QED BY <1>1, HInvHolds, NextGray, PTL DEF Spec

-----------------------------------------------------------------------------
(* Any threads: what is black, and which stores expose a white object. *)

\* What a thread's step does to the heap: it allocates white objects, turns white ones
\* gray, or stores what the barrier was called with.
LEMMA ThreadHeap ==
  ASSUME HInv, NEW t \in Thread, Begin(t) \/ Continue(t)
  PROVE  /\ UNCHANGED <<phase, gc>> /\ running /\ ~gc.final
         /\ alive \subseteq alive' /\ begun' \in {begun, begun \ {t}}
         /\ \A u \in Thread \ {t} : th'[u] = th[u]
         /\ \A o \in alive : color'[o] = color[o] \/ (color[o] = "white" /\ color'[o] = "gray")
         /\ \A o \in alive' \ alive : color'[o] = "white" /\ field'[o] = Null
         /\ gc.pc \in Sweeping => UNCHANGED <<alive, list>>
         /\ \A o \in alive : field'[o] = field[o]
                             \/ (Store(t) /\ th[t].obj = o /\ field'[o] = th[t].new)
<1>0. /\ Typed /\ alive \subseteq Object /\ color \in [Object -> Colors] /\ field \in [Object -> Ptr]
      /\ Null \notin Object /\ th \in [Thread -> ThreadState]
  BY GCAssumption DEF HInv, Typed
<1>1. UNCHANGED <<phase, gc>> /\ running
  BY DEF HInv, Flags, Begin, Continue, Alloc, Load, Forget, Barrier, ReadOld, ShadeOld, PushOld, ShadeNew,
        PushNew, Store, DirectShade, PushDirect, CollectClear, CollectRequest, CollectReturn, Mutating, Ready
<1>2. ~gc.final
  BY <1>1 DEF HInv, Flags
<1>3. begun' \in {begun, begun \ {t}}
  BY DEF Begin, Continue, Alloc, Load, Forget, Barrier, ReadOld, ShadeOld, PushOld, ShadeNew, PushNew, Store,
        DirectShade, PushDirect, CollectClear, CollectRequest, CollectReturn
<1>4. \A u \in Thread \ {t} : th'[u] = th[u]
  <2>1. \/ UNCHANGED th \/ (\E r : th' = [th EXCEPT ![t] = r]) \/ (\E pc : Goto(t, pc))
        \/ th' = [th EXCEPT ![t].pc = "shadeOld", ![t].old = field[th[t].obj]]
    BY DEF Begin, Continue, Alloc, Load, Forget, Barrier, ReadOld, ShadeOld, PushOld, ShadeNew, PushNew, Store,
        DirectShade, PushDirect, CollectClear, CollectRequest, CollectReturn, Shade
  <2> QED BY <1>0, <2>1 DEF Goto
<1>5. CASE \E o \in Object : Alloc(t, o)
  BY <1>0, <1>1, <1>2, <1>3, <1>4, <1>5 DEF Alloc
<1>6. CASE Store(t)
  BY <1>0, <1>1, <1>2, <1>3, <1>4, <1>6 DEF Store
<1>7. CASE ~Store(t) /\ ~\E o \in Object : Alloc(t, o)
  <2>1. UNCHANGED <<alive, list, field>>
    BY <1>7 DEF Begin, Continue, Load, Forget, Barrier, ReadOld, ShadeOld, PushOld, ShadeNew, PushNew,
        DirectShade, PushDirect, CollectClear, CollectRequest, CollectReturn, heapVars
  <2>2. UNCHANGED color \/ \E o : color[o] = "white" /\ color' = [color EXCEPT ![o] = "gray"]
    BY <1>7 DEF Begin, Continue, Load, Forget, Barrier, ReadOld, ShadeOld, PushOld, ShadeNew, PushNew,
        DirectShade, PushDirect, CollectClear, CollectRequest, CollectReturn, heapVars, Shade
  <2>3. \A o \in alive : color'[o] = color[o] \/ (color[o] = "white" /\ color'[o] = "gray")
    BY <1>0, <2>2
  <2> QED BY <1>1, <1>2, <1>3, <1>4, <2>1, <2>3
<1> QED BY <1>5, <1>6, <1>7

\* What a step of the collector does while it marks.
LEMMA CollectorHeap ==
  ASSUME HInv, Collector
  PROVE  /\ UNCHANGED th
         /\ ~(LockList \/ SweepVisit \/ SweepFree) => UNCHANGED <<alive, list, field>>
         /\ phase' = "mark" => /\ ~(LockList \/ SweepVisit \/ SweepFree \/ UnlockList)
                               /\ \A o \in alive : color[o] # "white" => color'[o] # "white"
         /\ phase' = "mark" /\ ~StartMark => phase = "mark" /\ UNCHANGED begun
<1>0. /\ Typed /\ Flags /\ alive \subseteq Object /\ color \in [Object -> Colors]
  BY DEF HInv, Typed
<1>1. UNCHANGED th
  BY DEF Collector, CheckRunning, TakeRequest, StartMark, PopGray, EndDrain, Blacken, ScanField, ShadeChild,
        PushChild, StartSweep, LockList, SweepVisit, SweepFree, UnlockList, EndSweep, Announce, FinalSweep
<1>2. ~(LockList \/ SweepVisit \/ SweepFree) => UNCHANGED <<alive, list, field>>
  BY DEF Collector, CheckRunning, TakeRequest, StartMark, PopGray, EndDrain, Blacken, ScanField, ShadeChild,
        PushChild, StartSweep, UnlockList, EndSweep, Announce, FinalSweep, heapVars
<1>3. phase' = "mark" => ~(LockList \/ SweepVisit \/ SweepFree \/ UnlockList)
  BY <1>0 DEF LockList, SweepVisit, SweepFree, UnlockList, Flags, Marking
<1>4. phase' = "mark" => \A o \in alive : color[o] # "white" => color'[o] # "white"
  <2>1. SUFFICES ASSUME phase' = "mark" PROVE \A o \in alive : color[o] # "white" => color'[o] # "white"
    OBVIOUS
  <2>2. CASE Blacken \/ ShadeChild
    BY <1>0, <2>2 DEF Blacken, ShadeChild
  <2>3. CASE ~Blacken /\ ~ShadeChild
    <3>1. UNCHANGED color
      BY <1>3, <2>1, <2>3 DEF Collector, CheckRunning, TakeRequest, StartMark, PopGray, EndDrain, ScanField,
        PushChild, StartSweep, EndSweep, Announce, FinalSweep, heapVars
    <3> QED BY <3>1
  <2> QED BY <2>2, <2>3
<1>5. phase' = "mark" /\ ~StartMark => phase = "mark" /\ UNCHANGED begun
  BY DEF Collector, CheckRunning, TakeRequest, PopGray, EndDrain, Blacken, ScanField, ShadeChild,
        PushChild, StartSweep, LockList, SweepVisit, SweepFree, UnlockList, EndSweep, Announce, FinalSweep
<1> QED BY <1>1, <1>2, <1>3, <1>4, <1>5

LEMMA SeenIs ==
  ASSUME Typed, Listed, NEW k \in 0..Len(list), SweepAt(k)
  PROVE  Seen = {list[i] : i \in 1..k}
<1>1. Len(list) \in Nat /\ DOMAIN list = 1..Len(list) /\ list \in [1..Len(list) -> Object]
  BY LenProperties DEF Typed
<1>2. CASE k = 0
  BY <1>2 DEF SweepAt, Seen
<1>3. CASE k # 0
  <2>1. k \in DOMAIN list /\ gc.prev = list[k] /\ gc.prev # Null
    BY <1>1, <1>3, GCAssumption DEF SweepAt
  <2>2. Position(gc.prev) = k
    BY <2>1, PositionIs DEF Listed
  <2> QED BY <2>1, <2>2 DEF Seen
<1> QED BY <1>2, <1>3

\* The sweep passes the objects one by one, and ends when it has passed all of them.
LEMMA SweepMoves ==
  ASSUME HInv, HInv'
  PROVE  /\ LockList => Seen' = {}
         /\ UnlockList => Seen = alive /\ Seen' = Seen
         /\ SweepVisit \/ SweepFree => gc.obj \in alive \ Seen /\ Seen \subseteq alive
         /\ SweepVisit => Seen' = IF color[gc.obj] = "white" THEN Seen ELSE Seen \cup {gc.obj}
         /\ SweepFree => Seen' = Seen
<1>0. /\ Typed /\ Listed /\ gc \in CollectorState
      /\ alive \subseteq Object /\ color \in [Object -> Colors] /\ field \in [Object -> Ptr]
      /\ Null \notin Object /\ Typed' /\ Listed'
      /\ Len(list) \in Nat /\ DOMAIN list = 1..Len(list) /\ {list[i] : i \in 1..Len(list)} = alive
  BY GCAssumption, LenProperties DEF HInv, Typed, Listed
<1>1. ASSUME LockList PROVE Seen' = {}
  BY <1>0, <1>1 DEF LockList, CollectorState, heapVars, Seen
<1>2. ASSUME UnlockList PROVE Seen = alive /\ Seen' = Seen
  <2>1. /\ gc.pc = "sweep" /\ gc.obj = Null /\ UNCHANGED list /\ gc'.prev = gc.prev
    BY <1>0, <1>2 DEF UnlockList, CollectorAt, CollectorState, heapVars
  <2>2. PICK k \in 0..Len(list) : SweepAt(k)
    BY <1>0, <2>1 DEF Listed, Sweeping
  <2>3. k = Len(list)
    <3>1. k < Len(list) => k + 1 \in 1..Len(list)
      BY <1>0
    <3>2. k + 1 \in 1..Len(list) => list[k + 1] \in alive
      BY <1>0
    <3>3. ~(k < Len(list))
      BY <1>0, <2>1, <2>2, <3>1, <3>2 DEF SweepAt
    <3>4. Len(list) \in Nat
      BY <1>0
    <3> QED BY <3>3, <3>4
  <2>4. Seen = alive
    BY <1>0, <2>2, <2>3, SeenIs
  <2> QED BY <2>1, <2>4 DEF Seen, Position
<1>3. ASSUME SweepVisit \/ SweepFree
      PROVE  /\ gc.obj \in alive \ Seen /\ Seen \subseteq alive
             /\ SweepVisit => Seen' = IF color[gc.obj] = "white" THEN Seen ELSE Seen \cup {gc.obj}
             /\ SweepFree => Seen' = Seen
  <2>1. gc.pc \in Sweeping /\ gc.obj # Null
    BY <1>0, <1>3 DEF SweepVisit, SweepFree, Sweeping, Typed
  <2>2. PICK k \in 0..Len(list) : SweepAt(k)
    BY <1>0, <2>1 DEF Listed
  <2>3. k + 1 \in 1..Len(list) /\ gc.obj = list[k + 1] /\ gc.obj \in alive
    BY <1>0, <2>1, <2>2, SweepNode
  <2>4. Seen = {list[i] : i \in 1..k}
    BY <1>0, <2>2, SeenIs
  <2>5. gc.obj \notin Seen /\ Seen \subseteq alive
    <3>1. \A i \in 1..k : i \in 1..Len(list) /\ i # k + 1
      BY <1>0
    <3> QED BY <1>0, <2>3, <2>4, <3>1 DEF Listed, Injective
  <2>6. ASSUME SweepVisit, color[gc.obj] = "white" PROVE Seen' = Seen
    <3>1. gc'.prev = gc.prev /\ UNCHANGED list
      BY <1>0, <2>6 DEF SweepVisit, CollectorAt, CollectorState
    <3> QED BY <3>1 DEF Seen, Position
  <2>7. ASSUME SweepVisit, color[gc.obj] # "white" PROVE Seen' = Seen \cup {gc.obj}
    <3>1. gc'.prev = gc.obj /\ UNCHANGED list
      BY <1>0, <2>7 DEF SweepVisit, CollectorState
    <3>2. Position(gc.obj) = k + 1
      BY <1>0, <2>3, PositionIs DEF Listed
    <3>3. Seen' = {list[i] : i \in 1..(k + 1)}
      BY <2>1, <3>1, <3>2 DEF Seen, Position
    <3>4. \A i \in 1..(k + 1) : i \in 1..k \/ i = k + 1
      BY <1>0
    <3>5. \A i \in 1..k : i \in 1..(k + 1)
      BY <1>0
    <3>6. k + 1 \in 1..(k + 1)
      BY <1>0
    <3> QED BY <2>3, <2>4, <3>3, <3>4, <3>5, <3>6
  <2>8. ASSUME SweepFree PROVE Seen' = Seen
    <3>1. gc'.prev = gc.prev
      BY <1>0, <2>8 DEF SweepFree, CollectorState
    <3>2. /\ \A i \in 1..k : list'[i] = list[i]
          /\ Len(list') = Len(list) - 1 /\ k < Len(list)
      BY <1>0, <2>2, <2>8, SweepFreeIs
    <3>3. CASE gc.prev = Null
      BY <3>1, <3>3 DEF Seen
    <3>4. CASE gc.prev # Null
      <4>1. k # 0 /\ k \in 1..Len(list) /\ gc.prev = list[k] /\ k \in 1..k
        BY <1>0, <2>2, <3>4 DEF SweepAt
      <4>2. k \in DOMAIN list' /\ list'[k] = gc.prev
        BY <1>0, <3>2, <4>1, LenProperties DEF Typed
      <4>3. Position(gc.prev)' = k
        BY <1>0, <3>1, <4>2 DEF Position, Listed, Injective
      <4>4. Seen' = {list'[i] : i \in 1..k}
        BY <3>1, <3>4, <4>3 DEF Seen
      <4> QED BY <2>4, <3>2, <4>4
    <3> QED BY <3>3, <3>4
  <2> QED BY <2>3, <2>5, <2>6, <2>7, <2>8
<1> QED BY <1>1, <1>2, <1>3

LEMMA InitBInv == Init => BInv
BY DEF Init, IdleThread, BInv, Blacks, Spared, NoneIs, Marking, Sweeping

LEMMA ThreadBInv ==
  ASSUME HInv, BInv, NEW t \in Thread, Begin(t) \/ Continue(t)
  PROVE  BInv'
<1>0. /\ Typed /\ alive \subseteq Object /\ color \in [Object -> Colors] /\ Null \notin Object
      /\ th \in [Thread -> ThreadState]
  BY GCAssumption DEF HInv, Typed
<1>1. /\ UNCHANGED <<phase, gc>>
      /\ alive \subseteq alive' /\ begun' \in {begun, begun \ {t}}
      /\ \A u \in Thread \ {t} : th'[u] = th[u]
      /\ \A o \in alive : color'[o] = color[o] \/ (color[o] = "white" /\ color'[o] = "gray")
      /\ \A o \in alive' \ alive : color'[o] = "white"
      /\ gc.pc \in Sweeping => UNCHANGED <<alive, list>>
  BY ThreadHeap
<1>2. Marked \subseteq Marked'
  BY <1>1 DEF Marked
<1>3. Blacks'
  <2>1. NoneIs("black", alive) => NoneIs("black", alive)'
    BY <1>1 DEF NoneIs
  <2>2. gc.pc \in Sweeping /\ Seen \subseteq alive /\ NoneIs("black", Seen) => NoneIs("black", Seen)'
    <3>1. gc.pc \in Sweeping => Seen' = Seen
      BY <1>1 DEF Seen, Position
    <3> QED BY <1>1, <3>1 DEF NoneIs
  <2>3. gc.pc \in Sweeping => Seen \subseteq alive
    <3>1. SUFFICES ASSUME gc.pc \in Sweeping PROVE Seen \subseteq alive
      OBVIOUS
    <3>2. PICK k \in 0..Len(list) : SweepAt(k)
      BY <3>1 DEF HInv, Listed
    <3>3. Len(list) \in Nat /\ DOMAIN list = 1..Len(list)
      BY LenProperties, <1>0 DEF Typed
    <3>4. Seen = {list[i] : i \in 1..k} /\ 1..k \subseteq DOMAIN list
      BY <3>2, <3>3, SeenIs DEF HInv
    <3> QED BY <3>4 DEF HInv, Listed
  <2> QED BY <1>1, <2>1, <2>2, <2>3 DEF BInv, Blacks
<1>4. Spared'
  <2>1. SUFFICES ASSUME phase = "mark", t \notin begun', th'[t].pc \in {"pushNew", "store"}
                 PROVE  th'[t].new \in Marked' \cup {Null}
    BY <1>1, <1>2 DEF BInv, Spared
  <2>2. CASE ShadeNew(t)
    <3>1. th[t].new \in alive \cup {Null} /\ Shade(t, th[t].new, "pushNew", "store") /\ UNCHANGED alive
      BY <2>2 DEF ShadeNew
    <3>2. th'[t].new = th[t].new
      BY <1>0, <3>1 DEF Shade, Goto, ThreadState
    <3>3. CASE th[t].new # Null /\ color[th[t].new] = "white"
      BY <1>0, <3>1, <3>2, <3>3 DEF Shade, Marked
    <3>4. CASE ~(th[t].new # Null /\ color[th[t].new] = "white")
      BY <1>0, <3>1, <3>2, <3>4 DEF Shade, Marked
    <3> QED BY <3>3, <3>4
  <2>3. CASE PushNew(t)
    <3>1. th[t].pc = "pushNew" /\ th'[t].new = th[t].new /\ UNCHANGED begun
      BY <1>0, <2>3 DEF PushNew, Goto, ThreadState
    <3> QED BY <1>2, <2>1, <3>1 DEF BInv, Spared
  <2>4. CASE \E o \in Object : Alloc(t, o) \/ Load(t, o) \/ Forget(t, o)
    <3>1. UNCHANGED <<th, begun>>
      BY <2>4 DEF Alloc, Load, Forget
    <3> QED BY <1>2, <2>1, <3>1 DEF BInv, Spared
  <2>5. ~\E o \in Object, new \in Ptr : Barrier(t, o, new)
    BY <1>0, <2>1 DEF Barrier
  <2>6. ~(\E o \in Object : DirectShade(t, o)) /\ ~ReadOld(t)
    <3>1. ASSUME NEW o \in Object, DirectShade(t, o) PROVE FALSE
      <4>1. th'[t] = [IdleThread EXCEPT !.pc = "pushDirect", !.obj = o]
        BY <1>0, <3>1 DEF DirectShade
      <4> QED BY <2>1, <4>1 DEF IdleThread
    <3>2. ASSUME ReadOld(t) PROVE FALSE
      BY <1>0, <2>1, <3>2 DEF ReadOld, ThreadState
    <3> QED BY <3>1, <3>2
  <2>7. ~Store(t) /\ ~PushDirect(t)
    BY <1>0, <2>1 DEF Store, PushDirect, IdleThread
  <2>8. ~ShadeOld(t) /\ ~PushOld(t)
    BY <1>0, <2>1 DEF ShadeOld, PushOld, Shade, Goto, ThreadState
  <2>9. ~CollectClear(t) /\ ~CollectRequest(t) /\ ~CollectReturn(t)
    BY <1>0, <2>1 DEF CollectClear, CollectRequest, CollectReturn, Goto, ThreadState
  <2> QED BY <2>2, <2>3, <2>4, <2>5, <2>6, <2>7, <2>8, <2>9 DEF Begin, Continue
<1> QED BY <1>3, <1>4 DEF BInv

LEMMA CollectorBInv ==
  ASSUME HInv, HInv', BInv, Collector
  PROVE  BInv'
<1>0. /\ Typed /\ Flags /\ alive \subseteq Object /\ color \in [Object -> Colors] /\ gc \in CollectorState
  BY DEF HInv, Typed
<1>1. /\ UNCHANGED th
      /\ ~(LockList \/ SweepVisit \/ SweepFree) => UNCHANGED <<alive, list, field>>
      /\ phase' = "mark" => \A o \in alive : color[o] # "white" => color'[o] # "white"
      /\ phase' = "mark" /\ ~StartMark => phase = "mark" /\ UNCHANGED begun
      /\ phase' = "mark" => ~(LockList \/ SweepVisit \/ SweepFree \/ UnlockList)
  BY CollectorHeap
<1>2. Spared'
  <2>1. CASE StartMark
    <3>1. \A t \in Thread \ begun' : th'[t].pc = "idle"
      BY <1>1, <2>1 DEF StartMark
    <3> QED BY <3>1 DEF Spared
  <2>2. CASE phase' = "mark" /\ ~StartMark
    <3>1. phase = "mark" /\ UNCHANGED <<begun, th>> /\ Marked \subseteq Marked'
      BY <1>1, <2>2 DEF Marked
    <3> QED BY <3>1 DEF BInv, Spared
  <2> QED BY <2>1, <2>2 DEF Spared
<1>3. CASE LockList
  <2>1. Seen' = {} /\ gc'.pc = "sweep"
    BY <1>0, <1>3, SweepMoves DEF LockList, CollectorState
  <2> QED BY <1>2, <2>1 DEF BInv, Blacks, NoneIs, Sweeping
<1>4. CASE UnlockList
  <2>1. gc.pc = "sweep" /\ gc'.pc = "unlocked" /\ Seen = alive /\ UNCHANGED <<alive, color>>
    BY <1>0, <1>4, SweepMoves DEF UnlockList, CollectorAt, CollectorState, heapVars
  <2> QED BY <1>2, <2>1 DEF BInv, Blacks, NoneIs, Sweeping, Marking
<1>5. CASE SweepVisit
  <2>1. /\ gc.pc = "sweep" /\ gc'.pc \in Sweeping /\ gc.obj \in alive \ Seen /\ Seen \subseteq alive
        /\ Seen' = IF color[gc.obj] = "white" THEN Seen ELSE Seen \cup {gc.obj}
        /\ color' = IF color[gc.obj] = "white" THEN color ELSE [color EXCEPT ![gc.obj] = "white"]
    BY <1>0, <1>5, SweepMoves DEF SweepVisit, CollectorAt, CollectorState, Sweeping
  <2>2. NoneIs("black", Seen)
    BY <2>1 DEF BInv, Blacks, Sweeping
  <2>3. NoneIs("black", Seen)'
    BY <1>0, <2>1, <2>2 DEF NoneIs
  <2> QED BY <1>2, <2>1, <2>3 DEF BInv, Blacks, Sweeping
<1>6. CASE SweepFree
  <2>1. gc.pc = "free" /\ gc'.pc = "sweep" /\ Seen' = Seen /\ UNCHANGED color
    BY <1>0, <1>6, SweepMoves DEF SweepFree, CollectorState
  <2> QED BY <1>2, <2>1 DEF BInv, Blacks, NoneIs, Sweeping
<1>7. CASE StartMark \/ PopGray \/ EndDrain \/ Blacken \/ ScanField \/ ShadeChild \/ PushChild \/ StartSweep \/ FinalSweep
  <2>1. gc'.pc \in Marking \cup {"endMark", "lock"}
    BY <1>0, <1>7 DEF StartMark, PopGray, EndDrain, Blacken, ScanField, ShadeChild, PushChild, StartSweep,
        FinalSweep, CollectorAt, CollectorState, Marking
  <2> QED BY <1>2, <2>1 DEF BInv, Blacks, Marking, Sweeping
<1>8. CASE CheckRunning \/ TakeRequest \/ EndSweep \/ Announce
  <2>1. /\ gc.pc \in {"check", "exchange", "unlocked", "announce"} /\ UNCHANGED <<alive, color>>
        /\ gc'.pc \in {"check", "exchange", "exited", "start", "down", "announce"}
    BY <1>0, <1>8 DEF CheckRunning, TakeRequest, EndSweep, Announce, CollectorAt, CollectorState, heapVars
  <2> QED BY <1>2, <2>1 DEF BInv, Blacks, NoneIs, Marking, Sweeping
<1> QED BY <1>3, <1>4, <1>5, <1>6, <1>7, <1>8 DEF Collector

LEMMA NextBInv == HInv /\ HInv' /\ BInv /\ [Next]_vars => BInv'
<1> SUFFICES ASSUME HInv, HInv', BInv, [Next]_vars PROVE BInv'
  OBVIOUS
<1>1. CASE UNCHANGED vars \/ Shutdown
  <2>1. UNCHANGED <<phase, gc, th, alive, list, color, begun>>
    BY <1>1 DEF vars, heapVars, Shutdown
  <2> QED BY <2>1 DEF BInv, Blacks, Spared, NoneIs, Seen, Position, Marked
<1> QED BY <1>1, ThreadBInv, CollectorBInv DEF Next

\* While marking, whatever the threads do and however many they are, no step makes a
\* black object point to a white one but the store of a thread that has been in the
\* barrier since before marking began; and a pointer that dangled already.
THEOREM GCExposedByStaleStores == Spec => ExposedByStaleStores
<1>1. ASSUME HInv, BInv, [Next]_vars
      PROVE  [phase' = "mark" => \A o \in Exposed' :
                 \/ o \in Exposed /\ field'[o] = field[o]
                 \/ field'[o] \notin alive
                 \/ \E t \in Thread : StaleStore(t) /\ th[t].obj = o]_vars
  <2> SUFFICES ASSUME ~UNCHANGED vars, phase' = "mark", NEW o \in Exposed', field'[o] \in alive,
                      ~\E t \in Thread : StaleStore(t) /\ th[t].obj = o
               PROVE  o \in Exposed /\ field'[o] = field[o]
    OBVIOUS
  <2>0. /\ Typed /\ Flags /\ gc \in CollectorState /\ alive \subseteq Object /\ Null \notin Object
        /\ color \in [Object -> Colors] /\ field \in [Object -> Ptr]
    BY <1>1, GCAssumption DEF HInv, Typed
  <2>1. /\ o \in alive' /\ color'[o] = "black" /\ ~(gc'.pc = "scan" /\ gc'.obj = o)
        /\ field'[o] # Null /\ color'[field'[o]] = "white" /\ ~(gc'.pc = "shade" /\ gc'.obj = field'[o])
    BY DEF Exposed
  <2>2. ASSUME NEW t \in Thread, Begin(t) \/ Continue(t) PROVE o \in Exposed /\ field'[o] = field[o]
    <3>1. /\ UNCHANGED <<phase, gc>>
          /\ \A p \in alive : color'[p] = color[p] \/ (color[p] = "white" /\ color'[p] = "gray")
          /\ \A p \in alive' \ alive : color'[p] = "white"
          /\ \A p \in alive : field'[p] = field[p]
                             \/ (Store(t) /\ th[t].obj = p /\ field'[p] = th[t].new)
      BY <1>1, <2>2, ThreadHeap
    <3>2. o \in alive /\ color[o] = "black" /\ color[field'[o]] = "white"
      BY <2>1, <3>1
    <3>3. CASE field'[o] = field[o]
      BY <2>1, <3>1, <3>2, <3>3 DEF Exposed
    <3>4. CASE Store(t) /\ th[t].obj = o /\ field'[o] = th[t].new
      <4>1. t \notin begun /\ th[t].pc = "store" /\ phase = "mark"
        BY <3>1, <3>4 DEF StaleStore, Store
      <4>2. th[t].new \in Marked
        BY <1>1, <2>1, <3>4, <4>1 DEF BInv, Spared
      <4> QED BY <3>2, <3>4, <4>2 DEF Marked
    <3> QED BY <3>1, <3>2, <3>3, <3>4
  <2>3. CASE Shutdown
    <3>1. UNCHANGED <<gc, alive, color, field>>
      BY <2>3 DEF Shutdown, heapVars
    <3> QED BY <2>1, <3>1 DEF Exposed
  <2>4. CASE Collector
    <3>1. UNCHANGED <<alive, field>>
      BY <1>1, <2>4, CollectorHeap
    <3>2. ~StartMark
      <4>1. SUFFICES ASSUME StartMark PROVE FALSE
        OBVIOUS
      <4>2. gc.pc = "start" /\ UNCHANGED color
        BY <4>1 DEF StartMark, heapVars
      <4> QED BY <1>1, <2>1, <3>1, <4>2 DEF BInv, Blacks, NoneIs, Marking, Sweeping
    <3>3. phase = "mark"
      BY <1>1, <2>4, <3>2, CollectorHeap
    <3>4. CASE Blacken
      <4>1. o # gc.obj /\ gc.pc = "blacken"
        BY <2>0, <2>1, <3>1, <3>4 DEF Blacken, CollectorAt, CollectorState
      <4>2. color[o] = "black" /\ color[field'[o]] = "white"
        BY <2>0, <2>1, <3>1, <3>4, <4>1 DEF Blacken
      <4> QED BY <2>1, <3>1, <4>1, <4>2 DEF Exposed
    <3>5. CASE ScanField
      <4>1. gc.pc = "scan" /\ UNCHANGED color
        BY <3>5 DEF ScanField, heapVars
      <4>2. o # gc.obj
        BY <2>0, <2>1, <3>1, <3>5 DEF ScanField, CollectorState
      <4> QED BY <2>1, <3>1, <4>1, <4>2 DEF Exposed
    <3>6. CASE ShadeChild
      <4>1. gc.pc = "shade" /\ gc.obj \in Object
        BY <2>0, <3>6 DEF ShadeChild, Typed, Marking
      <4>2. color[o] = "black" /\ color[field'[o]] = "white" /\ field'[o] # gc.obj
        BY <2>0, <2>1, <3>1, <3>6, <4>1 DEF ShadeChild
      <4> QED BY <2>1, <3>1, <4>1, <4>2 DEF Exposed
    <3>7. CASE PopGray \/ EndDrain \/ PushChild
      <4>1. gc.pc \in {"pop", "push"} /\ UNCHANGED color
        BY <3>7 DEF PopGray, EndDrain, PushChild, heapVars
      <4> QED BY <2>1, <3>1, <4>1 DEF Exposed
    <3>8. ~(CheckRunning \/ TakeRequest \/ StartSweep \/ LockList \/ SweepVisit \/ SweepFree \/ UnlockList
            \/ EndSweep \/ Announce \/ FinalSweep)
      BY <2>0, <3>3 DEF Flags, Marking, CheckRunning, TakeRequest, StartSweep, LockList, SweepVisit, SweepFree,
        UnlockList, EndSweep, Announce, FinalSweep
    <3> QED BY <2>4, <3>2, <3>4, <3>5, <3>6, <3>7, <3>8 DEF Collector
  <2> QED BY <1>1, <2>2, <2>3, <2>4 DEF Next
<1> QED BY <1>1, InitBInv, NextBInv, HInvHolds, PTL DEF Spec, ExposedByStaleStores

-----------------------------------------------------------------------------
(* Any threads that keep the handshake: what is kept points to what is kept. *)

LEMMA InitSound == Init => Sound
BY DEF Init, IdleThread, Sound, Stores, NoDangling, Between, Marking, Sweeping

\* At the ends of marking and in the sweep, no thread stores or shades.
LEMMA ThreadQuiet ==
  ASSUME HInv, Handshake, Handshake', NEW t \in Thread, Begin(t) \/ Continue(t),
         gc.pc \in {"start", "endMark", "lock"} \cup Sweeping
  PROVE  /\ \A o \in alive : color'[o] = color[o] /\ field'[o] = field[o]
         /\ ~Store(t)
<1>0. /\ Typed /\ color \in [Object -> Colors] /\ field \in [Object -> Ptr] /\ alive \subseteq Object
      /\ th \in [Thread -> ThreadState]
  BY DEF HInv, Typed
<1>1. /\ th[t].pc \in Between /\ UNCHANGED gc
  BY ThreadHeap DEF Handshake
<1>2. th'[t].pc \in Between
  BY <1>1 DEF Handshake
<1>3. ~(ReadOld(t) \/ ShadeOld(t) \/ PushOld(t) \/ ShadeNew(t) \/ PushNew(t) \/ Store(t) \/ PushDirect(t))
  BY <1>1 DEF Between, ReadOld, ShadeOld, PushOld, ShadeNew, PushNew, Store, PushDirect
<1>4. ~\E o \in Object : DirectShade(t, o)
  <2>1. ASSUME NEW o \in Object, DirectShade(t, o) PROVE FALSE
    <3>1. th'[t] = [IdleThread EXCEPT !.pc = "pushDirect", !.obj = o]
      BY <1>0, <2>1 DEF DirectShade
    <3> QED BY <1>2, <3>1 DEF IdleThread, Between
  <2> QED BY <2>1
<1>5. CASE \E o \in Object : Alloc(t, o)
  BY <1>0, <1>3, <1>5 DEF Alloc
<1>6. CASE ~\E o \in Object : Alloc(t, o)
  <2>1. UNCHANGED <<color, field>>
    BY <1>3, <1>4, <1>6 DEF Begin, Continue, Load, Forget, Barrier, CollectClear, CollectRequest,
        CollectReturn, heapVars
  <2> QED BY <1>3, <2>1
<1> QED BY <1>5, <1>6

LEMMA ThreadStores ==
  ASSUME HInv, Stores, NEW t \in Thread, Begin(t) \/ Continue(t)
  PROVE  Stores'
<1>0. /\ Typed /\ th \in [Thread -> ThreadState] /\ Null \notin Object
  BY GCAssumption DEF HInv, Typed
<1>1. /\ UNCHANGED phase /\ alive \subseteq alive' /\ begun' \in {begun, begun \ {t}}
      /\ \A u \in Thread \ {t} : th'[u] = th[u]
  BY ThreadHeap
<1>2. ASSUME th'[t].pc \notin Between \cup {"pushDirect"} => th'[t].new \in alive \cup {Null},
             phase = "mark" /\ t \in begun' => th'[t].pc \in Between
      PROVE  Stores'
  <2>1. ASSUME NEW u \in Thread, th'[u].pc \notin Between \cup {"pushDirect"} PROVE th'[u].new \in alive' \cup {Null}
    BY <1>1, <1>2, <2>1 DEF Stores
  <2>2. ASSUME phase' = "mark", NEW u \in begun' PROVE th'[u].pc \in Between
    <3>1. CASE u = t
      BY <1>1, <1>2, <2>2, <3>1
    <3>2. CASE u # t
      <4>1. u \in begun /\ u \in Thread \ {t}
        BY <1>0, <1>1, <2>2, <3>2 DEF Typed
      <4> QED BY <1>1, <2>2, <4>1 DEF Stores
    <3> QED BY <3>1, <3>2
  <2> QED BY <2>1, <2>2 DEF Stores
<1>3. CASE \E o \in Object : Alloc(t, o) \/ Load(t, o) \/ Forget(t, o)
  <2>1. UNCHANGED <<th, begun>>
    BY <1>3 DEF Alloc, Load, Forget
  <2> QED BY <1>0, <1>2, <2>1 DEF Stores, Typed
<1>4. ASSUME NEW o \in Object, NEW new \in Ptr, Barrier(t, o, new) PROVE Stores'
  <2>1. th'[t].new = new /\ new \in alive \cup {Null} /\ t \notin begun'
    BY <1>0, <1>4 DEF Barrier
  <2> QED BY <1>2, <2>1
<1>5. ASSUME NEW o \in Object, DirectShade(t, o) PROVE Stores'
  <2>1. th'[t] = [IdleThread EXCEPT !.pc = "pushDirect", !.obj = o] /\ t \notin begun'
    BY <1>0, <1>5 DEF DirectShade
  <2>2. th'[t].pc = "pushDirect"
    BY <2>1 DEF IdleThread
  <2> QED BY <1>2, <2>1, <2>2
<1>6. CASE CollectClear(t) \/ CollectRequest(t) \/ CollectReturn(t)
  <2>1. th'[t].pc \in Between
    BY <1>0, <1>6 DEF CollectClear, CollectRequest, CollectReturn, Goto, ThreadState, Between
  <2> QED BY <1>2, <2>1
<1>7. CASE Store(t) \/ PushDirect(t)
  <2>1. th'[t].pc \in Between
    BY <1>0, <1>7 DEF Store, PushDirect, IdleThread, Between
  <2> QED BY <1>2, <2>1
<1>8. CASE ReadOld(t) \/ ShadeOld(t) \/ PushOld(t) \/ ShadeNew(t) \/ PushNew(t)
  <2>1. th'[t].new = th[t].new /\ begun' = begun /\ th[t].pc \notin Between \cup {"pushDirect"}
    <3>1. CASE ReadOld(t)
      BY <1>0, <3>1 DEF ReadOld, ThreadState, Between
    <3>2. CASE PushOld(t) \/ PushNew(t)
      BY <1>0, <3>2 DEF PushOld, PushNew, Goto, ThreadState, Between
    <3>3. CASE ShadeOld(t) \/ ShadeNew(t)
      <4>1. \E pc : Goto(t, pc)
        BY <3>3 DEF ShadeOld, ShadeNew, Shade
      <4>2. th'[t].new = th[t].new
        BY <1>0, <4>1 DEF Goto, ThreadState
      <4> QED BY <3>3, <4>2 DEF ShadeOld, ShadeNew, Between
    <3> QED BY <1>8, <3>1, <3>2, <3>3
  <2> QED BY <1>2, <2>1 DEF Stores
<1> QED BY <1>3, <1>4, <1>5, <1>6, <1>7, <1>8 DEF Begin, Continue

LEMMA ThreadSound ==
  ASSUME HInv, BInv, Handshake, Handshake', Sound, NEW t \in Thread, Begin(t) \/ Continue(t)
  PROVE  Sound'
<1>0. /\ Typed /\ Flags /\ alive \subseteq Object /\ Null \notin Object /\ field \in [Object -> Ptr]
      /\ color \in [Object -> Colors] /\ th \in [Thread -> ThreadState]
  BY GCAssumption DEF HInv, Typed
<1>1. /\ UNCHANGED <<phase, gc>> /\ ~gc.final
      /\ alive \subseteq alive'
      /\ \A o \in alive : color'[o] = color[o] \/ (color[o] = "white" /\ color'[o] = "gray")
      /\ \A o \in alive' \ alive : color'[o] = "white" /\ field'[o] = Null
      /\ gc.pc \in Sweeping => UNCHANGED <<alive, list>>
      /\ \A o \in alive : field'[o] = field[o]
                             \/ (Store(t) /\ th[t].obj = o /\ field'[o] = th[t].new)
  BY ThreadHeap
<1>2. Stores /\ Stores'
  BY <1>1, ThreadStores DEF Sound
<1>3. ASSUME gc.pc \in {"start", "endMark", "lock"} \cup Sweeping
      PROVE  (\A o \in alive : color'[o] = color[o] /\ field'[o] = field[o]) /\ ~Store(t)
  BY <1>3, ThreadQuiet
<1>4. ASSUME gc.pc \notin Sweeping PROVE NoDangling'
  <2>1. NoDangling
    BY <1>1, <1>4 DEF Sound
  <2>2. Store(t) => th[t].new \in alive \cup {Null}
    BY <1>2 DEF Stores, Store, Between
  <2> QED BY <1>1, <2>1, <2>2 DEF NoDangling
<1>5. ASSUME gc.pc \in Marking \cup {"endMark", "lock"} PROVE BlackIsScanned'
  <2>1. BlackIsScanned /\ NoDangling
    BY <1>1, <1>5 DEF Sound, Marking, Sweeping
  <2>2. SUFFICES ASSUME NEW o \in alive', color'[o] = "black", ~(gc.pc = "scan" /\ gc.obj = o) PROVE Scanned(o)'
    BY <1>1 DEF BlackIsScanned
  <2>3. o \in alive /\ color[o] = "black"
    BY <1>1, <2>2
  <2>4. CASE field'[o] = field[o]
    <3>1. Scanned(o) /\ field[o] \in alive \cup {Null}
      BY <2>1, <2>2, <2>3 DEF BlackIsScanned, NoDangling
    <3> QED BY <1>1, <2>4, <3>1 DEF Scanned
  <2>5. CASE Store(t) /\ th[t].obj = o /\ field'[o] = th[t].new
    <3>1. th[t].pc = "store" /\ phase = "mark"
      BY <1>0, <1>1, <1>3, <1>5, <2>5 DEF Store, Flags, Marking
    <3>2. t \notin begun
      BY <1>2, <3>1 DEF Stores, Between
    <3>3. th[t].new \in Marked \cup {Null}
      BY <3>1, <3>2 DEF BInv, Spared
    <3> QED BY <1>1, <2>5, <3>3 DEF Scanned, Marked
  <2> QED BY <1>1, <2>3, <2>4, <2>5
<1>6. ASSUME gc.pc \in {"endMark", "lock"} PROVE NoneIs("gray", alive)'
  <2>1. NoneIs("gray", alive)
    BY <1>1, <1>6 DEF Sound
  <2> QED BY <1>1, <1>3, <1>6, <2>1 DEF NoneIs
<1>7. ASSUME gc.pc \in Sweeping PROVE Closed(Kept)'
  <2>1. /\ Closed(Kept) /\ UNCHANGED <<alive, list>> /\ \A o \in alive : color'[o] = color[o] /\ field'[o] = field[o]
    BY <1>1, <1>3, <1>7 DEF Sound
  <2>2. Seen' = Seen /\ Seen \subseteq alive
    <3>1. PICK k \in 0..Len(list) : SweepAt(k)
      BY <1>7 DEF HInv, Listed
    <3>2. Len(list) \in Nat /\ DOMAIN list = 1..Len(list)
      BY LenProperties, <1>0 DEF Typed
    <3>3. Seen = {list[i] : i \in 1..k} /\ 1..k \subseteq DOMAIN list
      BY <3>1, <3>2, SeenIs DEF HInv
    <3>4. Seen' = Seen
      BY <1>1, <2>1 DEF Seen, Position
    <3> QED BY <3>3, <3>4 DEF HInv, Listed
  <2>3. Kept' = Kept
    BY <2>1, <2>2 DEF Kept
  <2>4. Kept \subseteq alive
    BY <2>2 DEF Kept
  <2> QED BY <2>1, <2>3, <2>4 DEF Closed
<1>8. gc.pc = "free" => color'[gc.obj] = "white"
  <2>1. SUFFICES ASSUME gc.pc = "free" PROVE color'[gc.obj] = "white"
    OBVIOUS
  <2>2. gc.pc \in Sweeping /\ color[gc.obj] = "white"
    BY <1>1, <2>1 DEF Sound, Sweeping
  <2>3. PICK k \in 0..Len(list) : SweepAt(k)
    BY <2>2 DEF HInv, Listed
  <2>4. gc.obj # Null
    BY <1>0, <2>1 DEF Typed
  <2>5. gc.obj \in alive
    BY <1>0, <2>3, <2>4, SweepNode DEF HInv
  <2> QED BY <1>3, <2>2, <2>5
<1> QED BY <1>1, <1>2, <1>4, <1>5, <1>6, <1>7, <1>8 DEF Sound

\* Marking.
LEMMA MarkSound ==
  ASSUME HInv, BInv, GrayIsPending, Handshake, Handshake', Sound, ~gc.final,
         StartMark \/ PopGray \/ EndDrain \/ Blacken \/ ScanField \/ ShadeChild \/ PushChild
  PROVE  Sound'
<1>0. /\ Typed /\ Flags /\ gc \in CollectorState /\ Stores /\ NoDangling
      /\ gc.pc \in Marking => BlackIsScanned
      /\ alive \subseteq Object /\ color \in [Object -> Colors] /\ field \in [Object -> Ptr]
      /\ Null \notin Object
  BY GCAssumption DEF HInv, Typed, Sound, Marking, Sweeping, StartMark, PopGray, EndDrain, Blacken, ScanField, ShadeChild,
        PushChild
<1>1. UNCHANGED <<alive, field, th>>
  BY DEF StartMark, PopGray, EndDrain, Blacken, ScanField, ShadeChild, PushChild, heapVars
<1>2. Stores' /\ NoDangling'
  <2>1. CASE StartMark
    <3>1. gc.pc = "start" /\ \A t \in Thread : th[t].pc \in Between
      BY <2>1 DEF Handshake, StartMark
    <3>2. begun' \subseteq Thread
      BY <2>1 DEF StartMark
    <3> QED BY <1>0, <1>1, <3>1, <3>2 DEF Stores, NoDangling
  <2>2. CASE ~StartMark
    <3>1. UNCHANGED <<phase, begun>>
      BY <2>2 DEF PopGray, EndDrain, Blacken, ScanField, ShadeChild, PushChild
    <3> QED BY <1>0, <1>1, <3>1 DEF Stores, NoDangling
  <2> QED BY <2>1, <2>2
<1>3. ASSUME gc'.pc \in Marking, BlackIsScanned' PROVE Sound'
  BY <1>2, <1>3 DEF Sound, Marking, Sweeping
<1>4. CASE StartMark
  <2>1. gc'.pc = "pop" /\ UNCHANGED color /\ NoneIs("black", alive)
    BY <1>0, <1>4 DEF StartMark, CollectorState, heapVars, BInv, Blacks, Marking, Sweeping
  <2> QED BY <1>1, <1>3, <2>1 DEF BlackIsScanned, NoneIs, Marking
<1>5. CASE PopGray
  <2>1. gc.pc = "pop" /\ gc'.pc = "blacken" /\ UNCHANGED color
    BY <1>0, <1>5 DEF PopGray, CollectorState, heapVars
  <2> QED BY <1>0, <1>1, <1>3, <2>1 DEF BlackIsScanned, Scanned, Marking
<1>6. CASE EndDrain
  <2>1. gc.pc = "pop" /\ queue = << >> /\ UNCHANGED color /\ gc'.pc \in {"pop", "endMark"}
    BY <1>0, <1>6 DEF EndDrain, CollectorState, heapVars
  <2>2. BlackIsScanned'
    BY <1>0, <1>1, <2>1 DEF BlackIsScanned, Scanned, Marking
  <2>3. CASE gc'.pc = "pop"
    BY <1>3, <2>2, <2>3 DEF Marking
  <2>4. CASE gc'.pc = "endMark"
    <3>1. \A t \in Thread : th[t].pc \in Between
      BY <1>1, <2>4 DEF Handshake
    <3>2. NoneIs("gray", alive)
      BY <2>1, <3>1 DEF GrayIsPending, NoneIs, Between
    <3>3. NoneIs("gray", alive)'
      BY <1>1, <2>1, <3>2 DEF NoneIs
    <3> QED BY <1>2, <2>2, <2>4, <3>3 DEF Sound, Marking, Sweeping
  <2> QED BY <2>1, <2>3, <2>4
<1>7. CASE Blacken
  <2>1. gc.pc = "blacken" /\ gc'.obj = gc.obj
    BY <1>0, <1>7 DEF Blacken, CollectorAt, CollectorState
  <2>2. CASE gc.obj \in alive
    <3>1. gc'.pc = "scan" /\ color' = [color EXCEPT ![gc.obj] = "black"]
      BY <1>0, <1>7, <2>2 DEF Blacken, CollectorAt, CollectorState
    <3>2. BlackIsScanned'
      <4> SUFFICES ASSUME NEW o \in alive, color'[o] = "black", o # gc.obj PROVE Scanned(o)'
        BY <1>1, <2>1, <3>1 DEF BlackIsScanned
      <4>1. Scanned(o) /\ field[o] \in alive \cup {Null} /\ field'[o] = field[o]
        BY <1>0, <1>1, <2>1, <3>1 DEF BlackIsScanned, Marking, NoDangling
      <4>2. field[o] = Null \/ (field[o] \in Object /\ color[field[o]] # "white")
        BY <1>0, <2>1, <4>1 DEF Scanned
      <4> QED BY <1>0, <3>1, <4>1, <4>2 DEF Scanned
    <3> QED BY <1>3, <3>1, <3>2 DEF Marking
  <2>3. CASE gc.obj \notin alive
    <3>1. gc'.pc = "pop" /\ UNCHANGED color
      BY <1>0, <1>7, <2>3 DEF Blacken, CollectorAt, CollectorState
    <3> QED BY <1>0, <1>1, <1>3, <2>1, <3>1 DEF BlackIsScanned, Scanned, Marking
  <2> QED BY <2>2, <2>3
<1>8. CASE ScanField
  <2>1. gc.pc = "scan" /\ UNCHANGED color
    BY <1>8 DEF ScanField, heapVars
  <2>2. CASE field[gc.obj] \in alive
    <3>1. gc'.pc = "shade" /\ gc'.obj = field[gc.obj]
      BY <1>0, <1>8, <2>2 DEF ScanField, CollectorState
    <3>2. BlackIsScanned'
      <4> SUFFICES ASSUME NEW o \in alive, color[o] = "black" PROVE Scanned(o)'
        BY <1>1, <2>1, <3>1 DEF BlackIsScanned
      <4> QED BY <1>0, <1>1, <2>1, <3>1 DEF BlackIsScanned, Scanned, Marking
    <3> QED BY <1>3, <3>1, <3>2 DEF Marking
  <2>3. CASE field[gc.obj] \notin alive
    <3>1. gc'.pc = "pop"
      BY <1>0, <1>8, <2>3 DEF ScanField, CollectorState
    <3>2. BlackIsScanned'
      <4> SUFFICES ASSUME NEW o \in alive, color[o] = "black" PROVE Scanned(o)'
        BY <1>1, <2>1, <3>1 DEF BlackIsScanned
      <4>1. CASE o = gc.obj
        BY <1>0, <1>1, <2>3, <4>1 DEF NoDangling, Scanned
      <4>2. CASE o # gc.obj
        BY <1>0, <1>1, <2>1, <3>1, <4>2 DEF BlackIsScanned, Scanned, Marking
      <4> QED BY <4>1, <4>2
    <3> QED BY <1>3, <3>1, <3>2 DEF Marking
  <2> QED BY <2>2, <2>3
<1>9. CASE ShadeChild
  <2>1. gc.pc = "shade" /\ gc'.pc \in {"push", "pop"} /\ gc.obj \in Object
    BY <1>0, <1>9 DEF ShadeChild, CollectorAt, CollectorState, Typed, Marking
  <2>2. color' \in [Object -> Colors] /\ color'[gc.obj] # "white"
    BY <1>0, <1>9, <2>1 DEF ShadeChild, Colors
  <2>3. \A o \in Object : /\ color'[o] = "black" => color[o] = "black"
                          /\ color[o] # "white" => color'[o] # "white"
    BY <1>0, <1>9 DEF ShadeChild
  <2>4. BlackIsScanned'
    <3> SUFFICES ASSUME NEW o \in alive, color'[o] = "black" PROVE Scanned(o)'
      BY <1>1, <2>1 DEF BlackIsScanned
    <3>1. Scanned(o) /\ field[o] \in alive \cup {Null} /\ field'[o] = field[o]
      BY <1>0, <1>1, <2>1, <2>3 DEF BlackIsScanned, Marking, NoDangling
    <3> QED BY <1>0, <2>1, <2>2, <2>3, <3>1 DEF Scanned
  <2> QED BY <1>3, <2>1, <2>4 DEF Marking
<1>10. CASE PushChild
  <2>1. gc.pc = "push" /\ gc'.pc = "pop" /\ UNCHANGED color
    BY <1>0, <1>10 DEF PushChild, CollectorAt, CollectorState, heapVars
  <2> QED BY <1>0, <1>1, <1>3, <2>1 DEF BlackIsScanned, Scanned, Marking
<1> QED BY <1>4, <1>5, <1>6, <1>7, <1>8, <1>9, <1>10

\* Sweeping.
LEMMA SweepSound ==
  ASSUME HInv, HInv', Handshake, Sound, ~gc.final,
         LockList \/ SweepVisit \/ SweepFree \/ UnlockList
  PROVE  Sound'
<1>0. /\ Typed /\ gc \in CollectorState
      /\ alive \subseteq Object /\ color \in [Object -> Colors] /\ field \in [Object -> Ptr]
      /\ Null \notin Object
  BY GCAssumption DEF HInv, Typed
<1>1. /\ UNCHANGED <<phase, th, begun>> /\ gc.pc \in Sweeping \cup {"lock"}
  BY DEF LockList, SweepVisit, SweepFree, UnlockList, Sweeping
<1>2. \A t \in Thread : th[t].pc \in Between
  BY <1>1 DEF Handshake
<1>3. Stores'
  BY <1>0, <1>1, <1>2 DEF Stores, Typed
<1>4. ASSUME gc'.pc \in Sweeping, Closed(Kept)', gc'.pc = "free" => color'[gc'.obj] = "white"
      PROVE  Sound'
  BY <1>3, <1>4 DEF Sound, Marking, Sweeping
<1>5. CASE LockList
  <2>1. /\ gc.pc = "lock" /\ gc'.pc = "sweep" /\ UNCHANGED <<alive, list, field, color>>
    BY <1>0, <1>5 DEF LockList, CollectorState, heapVars
  <2>2. Seen' = {}
    BY <1>5, SweepMoves
  <2>3. NoDangling /\ BlackIsScanned /\ NoneIs("gray", alive)
    BY <2>1 DEF Sound, Sweeping
  <2>4. Kept' = {o \in alive : color[o] # "white"}
    BY <2>1, <2>2 DEF Kept
  <2>5. \A o \in alive : color[o] # "white" => field[o] = Null \/ (field[o] \in alive /\ color[field[o]] # "white")
    BY <1>0, <2>1, <2>3 DEF NoDangling, BlackIsScanned, NoneIs, Scanned, Colors
  <2>6. Closed(Kept)'
    BY <2>1, <2>4, <2>5 DEF Closed
  <2> QED BY <1>4, <2>1, <2>6 DEF Sweeping
<1>6. CASE UnlockList
  <2>1. /\ gc.pc = "sweep" /\ gc'.pc = "unlocked" /\ UNCHANGED <<alive, list, field, color>>
    BY <1>0, <1>6 DEF UnlockList, CollectorAt, CollectorState, heapVars
  <2>2. Kept = alive
    BY <1>6, SweepMoves DEF Kept
  <2>3. NoDangling'
    BY <2>1, <2>2 DEF Sound, NoDangling, Closed, Sweeping
  <2> QED BY <1>3, <2>1, <2>3 DEF Sound, Marking, Sweeping
<1>7. CASE SweepVisit \/ SweepFree
  <2>1. /\ gc.obj \in alive \ Seen /\ Seen \subseteq alive /\ Closed(Kept)
        /\ SweepVisit => Seen' = IF color[gc.obj] = "white" THEN Seen ELSE Seen \cup {gc.obj}
        /\ SweepFree => Seen' = Seen
    BY <1>7, SweepMoves DEF SweepVisit, SweepFree, Sound, Sweeping
  <2>2. CASE SweepVisit /\ color[gc.obj] = "white"
    <3>1. /\ gc'.pc = "free" /\ gc'.obj = gc.obj /\ UNCHANGED <<alive, list, field, color>> /\ Seen' = Seen
      BY <1>0, <2>1, <2>2 DEF SweepVisit, CollectorAt, CollectorState
    <3>2. Kept' = Kept
      BY <3>1 DEF Kept
    <3> QED BY <1>4, <2>1, <2>2, <3>1, <3>2 DEF Closed, Sweeping
  <2>3. CASE SweepVisit /\ color[gc.obj] # "white"
    <3>1. /\ gc'.pc = "sweep" /\ Seen' = Seen \cup {gc.obj}
          /\ UNCHANGED <<alive, list, field>> /\ color' = [color EXCEPT ![gc.obj] = "white"]
      BY <1>0, <2>1, <2>3 DEF SweepVisit, CollectorState
    <3>2. Kept' = Kept
      <4>1. \A o \in alive : color'[o] = IF o = gc.obj THEN "white" ELSE color[o]
        BY <1>0, <3>1
      <4> QED BY <2>1, <2>3, <3>1, <4>1 DEF Kept
    <3>3. Closed(Kept)'
      BY <2>1, <3>1, <3>2 DEF Closed
    <3> QED BY <1>4, <3>1, <3>3 DEF Sweeping
  <2>4. CASE SweepFree
    <3>1. /\ gc.pc = "free" /\ gc'.pc = "sweep" /\ UNCHANGED color /\ Seen' = Seen
          /\ alive' = alive \ {gc.obj} /\ field' = [field EXCEPT ![gc.obj] = Null]
      BY <1>0, <2>1, <2>4 DEF SweepFree, CollectorState
    <3>2. color[gc.obj] = "white"
      BY <3>1 DEF Sound
    <3>3. Kept' = Kept /\ gc.obj \notin Kept
      BY <2>1, <3>1, <3>2 DEF Kept
    <3>4. Kept \subseteq Object
      BY <1>0, <2>1 DEF Kept
    <3>5. Closed(Kept)'
      BY <1>0, <2>1, <3>1, <3>3, <3>4 DEF Closed
    <3> QED BY <1>4, <3>1, <3>5 DEF Sweeping
  <2> QED BY <1>7, <2>2, <2>3, <2>4
<1> QED BY <1>5, <1>6, <1>7

LEMMA NextSound ==
  HInv /\ HInv' /\ BInv /\ GrayIsPending /\ Handshake /\ Handshake' /\ Sound /\ [Next]_vars => Sound'
<1> SUFFICES ASSUME HInv, HInv', BInv, GrayIsPending, Handshake, Handshake', Sound, [Next]_vars PROVE Sound'
  OBVIOUS
<1>0. gc \in CollectorState /\ Flags
  BY DEF HInv, Typed
<1>1. CASE UNCHANGED vars \/ Shutdown
  <2>1. UNCHANGED <<phase, gc, th, alive, list, color, field, begun>>
    BY <1>1 DEF vars, heapVars, Shutdown
  <2> QED BY <2>1 DEF Sound, Stores, NoDangling, NoneIs, BlackIsScanned, Scanned, Closed, Kept, Seen, Position
<1>2. CASE Collector
  <2>1. CASE gc.final \/ FinalSweep
    <3>1. gc'.final
      BY <1>0, <1>2, <2>1 DEF Collector, CheckRunning, TakeRequest, StartMark, PopGray, EndDrain, Blacken,
        ScanField, ShadeChild, PushChild, StartSweep, LockList, SweepVisit, SweepFree, UnlockList, EndSweep,
        Announce, FinalSweep, CollectorAt, CollectorState
    <3> QED BY <3>1 DEF Sound
  <2>2. CASE ~gc.final /\ (CheckRunning \/ TakeRequest \/ EndSweep \/ Announce)
    <3>1. /\ UNCHANGED <<th, alive, field>> /\ phase' # "mark"
          /\ gc.pc \in {"check", "exchange", "unlocked", "announce"}
          /\ gc'.pc \in {"check", "exchange", "exited", "start", "down", "announce"}
      BY <1>0, <2>2 DEF CheckRunning, TakeRequest, EndSweep, Announce, CollectorAt, CollectorState, heapVars,
        Flags, Marking
    <3>2. Stores /\ NoDangling
      BY <2>2, <3>1 DEF Sound, Marking, Sweeping
    <3>3. Stores' /\ NoDangling'
      BY <3>1, <3>2 DEF Stores, NoDangling
    <3> QED BY <3>1, <3>3 DEF Sound, Marking, Sweeping
  <2>3. CASE ~gc.final /\ StartSweep
    <3>1. /\ UNCHANGED <<th, alive, field, color>> /\ gc.pc = "endMark" /\ gc'.pc = "lock" /\ phase' # "mark"
      BY <1>0, <2>3 DEF StartSweep, CollectorAt, CollectorState, heapVars
    <3>2. Stores /\ NoDangling /\ NoneIs("gray", alive) /\ BlackIsScanned
      BY <2>3, <3>1 DEF Sound, Sweeping
    <3>3. Stores' /\ NoDangling' /\ NoneIs("gray", alive)' /\ BlackIsScanned'
      BY <3>1, <3>2 DEF Stores, NoDangling, NoneIs, BlackIsScanned, Scanned
    <3> QED BY <3>1, <3>3 DEF Sound, Marking, Sweeping
  <2> QED BY <1>2, <2>1, <2>2, <2>3, MarkSound, SweepSound DEF Collector
<1> QED BY <1>1, <1>2, ThreadSound DEF Next

LEMMA SoundHolds ==
  ASSUME QueueGrows
  PROVE  Spec /\ []Handshake => [](HInv /\ BInv /\ Sound)
<1>1. Init => GrayIsPending
  BY DEF Init, GrayIsPending
<1> QED BY <1>1, InitBInv, InitSound, HInvHolds, NextGray, NextBInv, NextSound, PTL DEF Spec

\* What Sound says of a state.
LEMMA SoundGives ==
  ASSUME HInv, Sound
  PROVE  Tricolor /\ (running => NoDanglingField)
<1>1. Tricolor
  <2>1. SUFFICES ASSUME phase = "mark" PROVE Exposed = {}
    BY DEF Tricolor
  <2>2. BlackIsScanned
    BY <2>1 DEF HInv, Flags, Sound, Marking, Sweeping
  <2> QED BY <2>2 DEF Exposed, BlackIsScanned, Scanned
<1>2. running => NoDanglingField
  BY DEF HInv, Flags, Sound, NoDangling, NoDanglingField
<1> QED BY <1>1, <1>2

\* For any number of threads: if none is in the barrier or in a direct shade when marking
\* begins, when it ends, or in the sweep, the tricolor invariant holds, however the
\* barriers interleave with the marking between the two.
THEOREM GCTricolor ==
  ASSUME QueueGrows
  PROVE  Spec /\ []Handshake => []Tricolor
<1>1. HInv /\ Sound => Tricolor
  BY SoundGives
<1> QED BY <1>1, SoundHolds, PTL

\* And then the collector frees nothing that an object it keeps points to, until the
\* program shuts it down.
THEOREM GCLeavesNothingDangling ==
  ASSUME QueueGrows
  PROVE  Spec /\ []Handshake => [](running => NoDanglingField)
<1>1. HInv /\ Sound => (running => NoDanglingField)
  BY SoundGives
<1> QED BY <1>1, SoundHolds, PTL

-----------------------------------------------------------------------------
(* With the handshake, what is queued is marked, and marking is exact. *)

\* What a pointer pointed to when marking began is marked before it is overwritten.
Overwriting == {"shadeOld", "pushOld", "shadeNew", "pushNew", "store"}
Snapshot == phase = "mark" => \A t \in Thread :
    /\ th[t].pc \in Overwriting \cup {"readOld"} => th[t].obj \in alive
    /\ th[t].pc \in Overwriting =>
           \/ field[th[t].obj] \in Marked \cup {Null}
           \/ th[t].pc = "shadeOld" /\ th[t].old = field[th[t].obj]

Held == ~gc.final =>
    /\ \A i \in DOMAIN queue : queue[i] \in Marked
    /\ gc.pc \in {"blacken", "scan", "push"} => gc.obj \in Marked
    /\ gc.pc = "shade" => gc.obj \in Marked \/ \E o \in Marked : field[o] = gc.obj
    /\ \A t \in Thread : /\ th[t].pc = "pushOld" => th[t].old \in Marked
                         /\ th[t].pc = "pushNew" => th[t].new \in Marked
                         /\ th[t].pc = "pushDirect" => th[t].obj \in Marked
    /\ gc.pc \in Sweeping \cup {"endMark", "lock"} => queue = << >>
    /\ Snapshot

LEMMA PushKeepsMarked ==
  ASSUME Typed, \A i \in DOMAIN queue : queue[i] \in Marked, NEW o \in Object, o \in Marked, Push(o)
  PROVE  \A i \in DOMAIN queue' : queue'[i] \in Marked
<1>1. CASE queue' = Append(queue, o)
  <2>1. /\ Len(queue) \in Nat /\ DOMAIN queue = 1..Len(queue) /\ DOMAIN queue' = 1..(Len(queue) + 1)
        /\ \A i \in 1..Len(queue) : queue'[i] = queue[i]
        /\ queue'[Len(queue) + 1] = o
    BY <1>1, AppendProperties, LenProperties DEF Typed
  <2>2. \A i \in 1..(Len(queue) + 1) : i \in 1..Len(queue) \/ i = Len(queue) + 1
    BY <2>1
  <2> QED BY <2>1, <2>2
<1>2. CASE UNCHANGED queue
  BY <1>2
<1> QED BY <1>1, <1>2 DEF Push

\* While marking, a thread that stores has marked the pointer it overwrites and the one
\* it stores.
LEMMA StoreIsMarked ==
  ASSUME HInv, BInv, Sound, Held, ~gc.final, phase = "mark", NEW t \in Thread, Store(t)
  PROVE  th[t].new \in Marked \cup {Null} /\ field[th[t].obj] \in Marked \cup {Null}
<1>1. th[t].pc = "store"
  BY DEF Store
<1>2. t \notin begun
  BY <1>1 DEF Sound, Stores, Between
<1> QED BY <1>1, <1>2 DEF BInv, Spared, Held, Snapshot, Overwriting

LEMMA ThreadSnapshot ==
  ASSUME HInv, BInv, Sound, Held, ~gc.final, NEW t \in Thread, Begin(t) \/ Continue(t)
  PROVE  Snapshot'
<1>0. /\ Typed /\ alive \subseteq Object /\ Null \notin Object /\ field \in [Object -> Ptr]
      /\ color \in [Object -> Colors] /\ th \in [Thread -> ThreadState]
  BY GCAssumption DEF HInv, Typed
<1>1. /\ UNCHANGED <<phase, gc>> /\ alive \subseteq alive'
      /\ \A u \in Thread \ {t} : th'[u] = th[u]
      /\ \A o \in alive : color'[o] = color[o] \/ (color[o] = "white" /\ color'[o] = "gray")
      /\ \A o \in alive : field'[o] = field[o]
                             \/ (Store(t) /\ th[t].obj = o /\ field'[o] = th[t].new)
  BY ThreadHeap
<1>2. Marked \subseteq Marked'
  BY <1>1 DEF Marked
<1>3. SUFFICES ASSUME phase = "mark" PROVE Snapshot'
  BY <1>1 DEF Snapshot
<1>4. Snapshot /\ NoDangling
  <2>1. gc.pc \notin Sweeping
    BY <1>3 DEF HInv, Flags, Marking, Sweeping
  <2> QED BY <2>1 DEF Held, Sound
<1>5. ASSUME NEW o \in alive, field[o] \in Marked \cup {Null} PROVE field'[o] \in Marked' \cup {Null}
  BY <1>1, <1>2, <1>3, <1>5, StoreIsMarked
<1>6. ASSUME NEW u \in Thread \ {t}
      PROVE  /\ th'[u].pc \in Overwriting \cup {"readOld"} => th'[u].obj \in alive'
             /\ th'[u].pc \in Overwriting =>
                    \/ field'[th'[u].obj] \in Marked' \cup {Null}
                    \/ th'[u].pc = "shadeOld" /\ th'[u].old = field'[th'[u].obj]
  <2>1. th'[u] = th[u] /\ (th[u].pc \in Overwriting \cup {"readOld"} => th[u].obj \in alive)
    BY <1>1, <1>3, <1>4 DEF Snapshot
  <2>2. SUFFICES ASSUME th[u].pc \in Overwriting
                 PROVE  \/ field'[th[u].obj] \in Marked' \cup {Null}
                        \/ th[u].pc = "shadeOld" /\ th[u].old = field'[th[u].obj]
    BY <1>1, <2>1
  <2>3. th[u].obj \in alive
    BY <2>1, <2>2
  <2>4. CASE field[th[u].obj] \in Marked \cup {Null}
    BY <1>5, <2>3, <2>4
  <2>5. CASE th[u].pc = "shadeOld" /\ th[u].old = field[th[u].obj]
    <3>1. CASE field'[th[u].obj] = field[th[u].obj]
      BY <2>5, <3>1
    <3>2. CASE Store(t) /\ field'[th[u].obj] = th[t].new
      BY <1>2, <1>3, <3>2, StoreIsMarked
    <3> QED BY <1>1, <2>3, <3>1, <3>2
  <2> QED BY <1>3, <1>4, <2>2, <2>4, <2>5 DEF Snapshot
<1>7. ASSUME th'[t].pc \in Overwriting \cup {"readOld"} => th'[t].obj \in alive,
             th'[t].pc \in Overwriting => \/ field'[th'[t].obj] \in Marked' \cup {Null}
                                          \/ th'[t].pc = "shadeOld" /\ th'[t].old = field'[th'[t].obj]
      PROVE  Snapshot'
  BY <1>1, <1>6, <1>7 DEF Snapshot
<1>8. ASSUME th'[t].pc \notin Overwriting \cup {"readOld"} PROVE Snapshot'
  BY <1>7, <1>8
<1>9. CASE \E o \in Object : Alloc(t, o) \/ Load(t, o) \/ Forget(t, o)
  <2>1. th'[t].pc = "idle"
    BY <1>9 DEF Alloc, Load, Forget, Mutating, Ready
  <2> QED BY <1>8, <2>1 DEF Overwriting
<1>10. ASSUME NEW o \in Object, NEW new \in Ptr, Barrier(t, o, new) PROVE Snapshot'
  <2>1. th'[t].obj = o /\ o \in alive /\ th'[t].pc = "readOld"
    BY <1>0, <1>3, <1>10 DEF Barrier
  <2> QED BY <1>7, <2>1 DEF Overwriting
<1>11. ASSUME NEW o \in Object, DirectShade(t, o) PROVE Snapshot'
  <2>1. th'[t] = [IdleThread EXCEPT !.pc = "pushDirect", !.obj = o]
    BY <1>0, <1>11 DEF DirectShade
  <2> QED BY <1>8, <2>1 DEF IdleThread, Overwriting
<1>12. CASE CollectClear(t) \/ CollectRequest(t) \/ CollectReturn(t)
  <2>1. th'[t].pc \in Between
    BY <1>0, <1>12 DEF CollectClear, CollectRequest, CollectReturn, Goto, ThreadState, Between
  <2> QED BY <1>8, <2>1 DEF Overwriting, Between
<1>13. CASE Store(t) \/ PushDirect(t)
  <2>1. th'[t].pc = "idle"
    BY <1>0, <1>13 DEF Store, PushDirect, IdleThread
  <2> QED BY <1>8, <2>1 DEF Overwriting
<1>14. CASE ReadOld(t)
  <2>1. /\ th[t].obj \in alive /\ th'[t].obj = th[t].obj /\ th'[t].pc = "shadeOld"
        /\ th'[t].old = field[th[t].obj] /\ UNCHANGED field
    BY <1>0, <1>14 DEF ReadOld, ThreadState, heapVars
  <2> QED BY <1>7, <2>1
<1>15. CASE PushOld(t) \/ ShadeNew(t) \/ PushNew(t)
  <2>1. th[t].pc \in Overwriting /\ th[t].pc # "shadeOld" /\ UNCHANGED field
    BY <1>15 DEF PushOld, ShadeNew, PushNew, Overwriting, heapVars
  <2>2. \E pc : Goto(t, pc)
    BY <1>15 DEF PushOld, ShadeNew, PushNew, Shade
  <2>3. th'[t].obj = th[t].obj
    BY <1>0, <2>2 DEF Goto, ThreadState
  <2>4. th[t].obj \in alive /\ field[th[t].obj] \in Marked \cup {Null}
    BY <1>3, <1>4, <2>1 DEF Snapshot
  <2> QED BY <1>2, <1>7, <2>1, <2>3, <2>4
<1>16. CASE ShadeOld(t)
  <2>1. /\ th[t].pc = "shadeOld" /\ UNCHANGED <<field, alive>> /\ Shade(t, th[t].old, "pushOld", "shadeNew")
        /\ th[t].old \in alive \cup {Null}
    BY <1>16 DEF ShadeOld
  <2>2. th'[t].obj = th[t].obj
    <3>1. \E pc : Goto(t, pc)
      BY <2>1 DEF Shade
    <3> QED BY <1>0, <3>1 DEF Goto, ThreadState
  <2>3. /\ th[t].obj \in alive
        /\ field[th[t].obj] \in Marked \cup {Null} \/ th[t].old = field[th[t].obj]
    BY <1>3, <1>4, <2>1 DEF Snapshot, Overwriting
  <2>4. th[t].old \in Marked' \cup {Null}
    <3>1. CASE th[t].old # Null /\ color[th[t].old] = "white"
      BY <1>0, <2>1, <3>1 DEF Shade, Marked
    <3>2. CASE ~(th[t].old # Null /\ color[th[t].old] = "white")
      BY <1>0, <2>1, <3>2 DEF Shade, Marked
    <3> QED BY <3>1, <3>2
  <2> QED BY <1>2, <1>7, <2>1, <2>2, <2>3, <2>4
<1> QED BY <1>9, <1>10, <1>11, <1>12, <1>13, <1>14, <1>15, <1>16 DEF Begin, Continue

LEMMA ThreadHeld ==
  ASSUME HInv, BInv, Sound, Handshake, Handshake', Held, NEW t \in Thread, Begin(t) \/ Continue(t)
  PROVE  Held'
<1>0. /\ Typed /\ Flags /\ alive \subseteq Object /\ Null \notin Object /\ field \in [Object -> Ptr]
      /\ color \in [Object -> Colors] /\ th \in [Thread -> ThreadState]
  BY GCAssumption DEF HInv, Typed
<1>1. /\ UNCHANGED <<phase, gc>> /\ ~gc.final /\ alive \subseteq alive'
      /\ \A u \in Thread \ {t} : th'[u] = th[u]
      /\ \A o \in alive : color'[o] = color[o] \/ (color[o] = "white" /\ color'[o] = "gray")
      /\ \A o \in alive : field'[o] = field[o]
                             \/ (Store(t) /\ th[t].obj = o /\ field'[o] = th[t].new)
  BY ThreadHeap
<1>2. Marked \subseteq Marked'
  BY <1>1 DEF Marked
<1>3. Snapshot'
  BY <1>1, ThreadSnapshot
<1>4. gc.pc = "shade" => gc.obj \in Marked' \/ \E o \in Marked' : field'[o] = gc.obj
  <2>1. SUFFICES ASSUME gc.pc = "shade" PROVE gc.obj \in Marked' \/ \E o \in Marked' : field'[o] = gc.obj
    OBVIOUS
  <2>2. gc.obj \in Marked \/ \E o \in Marked : field[o] = gc.obj
    BY <1>1, <2>1 DEF Held
  <2>3. ASSUME NEW o \in Marked, field[o] = gc.obj PROVE gc.obj \in Marked' \/ \E p \in Marked' : field'[p] = gc.obj
    <3>1. phase = "mark" /\ gc.obj # Null
      BY <1>0, <1>1, <2>1 DEF Flags, Marking, Typed
    <3>2. o \in alive
      BY DEF Marked
    <3>3. CASE field'[o] = field[o]
      BY <1>2, <2>3, <3>3
    <3>4. CASE Store(t) /\ th[t].obj = o
      <4>1. field[o] \in Marked \cup {Null}
        BY <1>1, <3>1, <3>4, StoreIsMarked
      <4> QED BY <1>2, <2>3, <3>1, <4>1
    <3> QED BY <1>1, <3>2, <3>3, <3>4
  <2> QED BY <1>2, <2>2, <2>3
<1>5. ASSUME \A i \in DOMAIN queue' : queue'[i] \in Marked',
             th'[t].pc = "pushOld" => th'[t].old \in Marked',
             th'[t].pc = "pushNew" => th'[t].new \in Marked',
             th'[t].pc = "pushDirect" => th'[t].obj \in Marked',
             gc.pc \in Sweeping \cup {"endMark", "lock"} => UNCHANGED queue
      PROVE  Held'
  <2>1. ASSUME NEW u \in Thread
        PROVE  /\ th'[u].pc = "pushOld" => th'[u].old \in Marked'
               /\ th'[u].pc = "pushNew" => th'[u].new \in Marked'
               /\ th'[u].pc = "pushDirect" => th'[u].obj \in Marked'
    BY <1>1, <1>2, <1>5 DEF Held
  <2>2. gc.pc \in {"blacken", "scan", "push"} => gc.obj \in Marked'
    BY <1>1, <1>2 DEF Held
  <2>3. gc.pc \in Sweeping \cup {"endMark", "lock"} => queue' = << >>
    BY <1>1, <1>5 DEF Held
  <2> QED BY <1>1, <1>3, <1>4, <1>5, <2>1, <2>2, <2>3 DEF Held
<1>6. /\ \A i \in DOMAIN queue : queue[i] \in Marked
      /\ th[t].pc = "pushOld" => th[t].old \in Marked
      /\ th[t].pc = "pushNew" => th[t].new \in Marked
      /\ th[t].pc = "pushDirect" => th[t].obj \in Marked
  BY <1>1 DEF Held
<1>7. ASSUME UNCHANGED queue, th'[t].pc \notin {"pushOld", "pushNew", "pushDirect"} PROVE Held'
  BY <1>2, <1>5, <1>6, <1>7
<1>8. CASE \E o \in Object : Alloc(t, o) \/ Load(t, o) \/ Forget(t, o)
  <2>1. UNCHANGED <<queue, th>> /\ th[t].pc = "idle"
    BY <1>8 DEF Alloc, Load, Forget, Mutating, Ready
  <2> QED BY <1>7, <2>1
<1>9. ASSUME NEW o \in Object, DirectShade(t, o) PROVE Held'
  <2>1. UNCHANGED <<queue, alive>> /\ color' = [color EXCEPT ![o] = "gray"] /\ o \in alive
    BY <1>9 DEF DirectShade
  <2>2. o \in Marked'
    BY <1>0, <2>1 DEF Marked
  <2>3. th'[t] = [IdleThread EXCEPT !.pc = "pushDirect", !.obj = o]
    BY <1>0, <1>9 DEF DirectShade
  <2>4. th'[t].obj = o /\ th'[t].pc = "pushDirect"
    BY <2>3 DEF IdleThread
  <2> QED BY <1>2, <1>5, <1>6, <2>1, <2>2, <2>4
<1>10. ASSUME NEW o \in Object, Push(o), o \in Marked, th[t].pc \notin Between,
              th'[t].pc \notin {"pushOld", "pushNew", "pushDirect"}
       PROVE  Held'
  <2>1. \A i \in DOMAIN queue' : queue'[i] \in Marked
    BY <1>0, <1>6, <1>10, PushKeepsMarked
  <2>2. gc.pc \notin Sweeping \cup {"endMark", "lock"}
    BY <1>10 DEF Handshake
  <2> QED BY <1>2, <1>5, <1>10, <2>1, <2>2
<1>11. CASE PushDirect(t)
  <2>1. th[t].pc = "pushDirect" /\ Push(th[t].obj) /\ th'[t].pc = "idle"
    BY <1>0, <1>11 DEF PushDirect, IdleThread
  <2>2. th[t].obj \in Object /\ th[t].obj \in Marked
    BY <1>0, <1>6, <2>1 DEF Typed
  <2> QED BY <1>10, <2>1, <2>2 DEF Between
<1>12. CASE PushOld(t)
  <2>1. th[t].pc = "pushOld" /\ Push(th[t].old) /\ th'[t].pc = "shadeNew"
    BY <1>0, <1>12 DEF PushOld, Goto, ThreadState
  <2>2. th[t].old \in Object /\ th[t].old \in Marked
    BY <1>0, <1>6, <2>1 DEF Typed
  <2> QED BY <1>10, <2>1, <2>2 DEF Between
<1>13. CASE PushNew(t)
  <2>1. th[t].pc = "pushNew" /\ Push(th[t].new) /\ th'[t].pc = "store"
    BY <1>0, <1>13 DEF PushNew, Goto, ThreadState
  <2>2. th[t].new \in Object /\ th[t].new \in Marked
    BY <1>0, <1>6, <2>1 DEF Typed
  <2> QED BY <1>10, <2>1, <2>2 DEF Between
<1>14. CASE ShadeOld(t)
  <2>1. /\ UNCHANGED <<queue, alive>> /\ Shade(t, th[t].old, "pushOld", "shadeNew")
        /\ th[t].old \in alive \cup {Null}
    BY <1>14 DEF ShadeOld
  <2>2. CASE th[t].old # Null /\ color[th[t].old] = "white"
    <3>1. th'[t].pc = "pushOld" /\ th'[t].old = th[t].old /\ color' = [color EXCEPT ![th[t].old] = "gray"]
      BY <1>0, <2>1, <2>2 DEF Shade, Goto, ThreadState
    <3>2. th[t].old \in Marked'
      BY <1>0, <2>1, <2>2, <3>1 DEF Marked
    <3> QED BY <1>2, <1>5, <1>6, <2>1, <3>1, <3>2
  <2>3. CASE ~(th[t].old # Null /\ color[th[t].old] = "white")
    <3>1. th'[t].pc = "shadeNew"
      BY <1>0, <2>1, <2>3 DEF Shade, Goto, ThreadState
    <3> QED BY <1>7, <2>1, <3>1
  <2> QED BY <2>2, <2>3
<1>15. CASE ShadeNew(t)
  <2>1. /\ UNCHANGED <<queue, alive>> /\ Shade(t, th[t].new, "pushNew", "store")
        /\ th[t].new \in alive \cup {Null}
    BY <1>15 DEF ShadeNew
  <2>2. CASE th[t].new # Null /\ color[th[t].new] = "white"
    <3>1. th'[t].pc = "pushNew" /\ th'[t].new = th[t].new /\ color' = [color EXCEPT ![th[t].new] = "gray"]
      BY <1>0, <2>1, <2>2 DEF Shade, Goto, ThreadState
    <3>2. th[t].new \in Marked'
      BY <1>0, <2>1, <2>2, <3>1 DEF Marked
    <3> QED BY <1>2, <1>5, <1>6, <2>1, <3>1, <3>2
  <2>3. CASE ~(th[t].new # Null /\ color[th[t].new] = "white")
    <3>1. th'[t].pc = "store"
      BY <1>0, <2>1, <2>3 DEF Shade, Goto, ThreadState
    <3> QED BY <1>7, <2>1, <3>1
  <2> QED BY <2>2, <2>3
<1>16. CASE Store(t)
  <2>1. UNCHANGED queue /\ th'[t].pc = "idle"
    BY <1>0, <1>16 DEF Store, IdleThread
  <2> QED BY <1>7, <2>1
<1>17. ASSUME NEW o \in Object, NEW new \in Ptr, Barrier(t, o, new) PROVE Held'
  <2>1. UNCHANGED queue /\ th'[t].pc \in {"readOld", "store"}
    BY <1>0, <1>17 DEF Barrier
  <2> QED BY <1>7, <2>1
<1>18. CASE ReadOld(t)
  <2>1. UNCHANGED queue /\ th'[t].pc = "shadeOld"
    BY <1>0, <1>18 DEF ReadOld, ThreadState
  <2> QED BY <1>7, <2>1
<1>19. CASE CollectClear(t) \/ CollectRequest(t) \/ CollectReturn(t)
  <2>1. UNCHANGED queue /\ th'[t].pc \in Between
    BY <1>0, <1>19 DEF CollectClear, CollectRequest, CollectReturn, Goto, ThreadState, Between
  <2> QED BY <1>7, <2>1 DEF Between
<1> QED BY <1>8, <1>9, <1>11, <1>12, <1>13, <1>14, <1>15, <1>16, <1>17, <1>18, <1>19 DEF Begin, Continue

\* What a step of the collector does to the marked objects before it sweeps.
LEMMA MarkedIs ==
  ASSUME HInv, Sound, Held, ~gc.final,
         Collector, ~LockList, ~SweepVisit, ~SweepFree
  PROVE  /\ UNCHANGED <<alive, field, th>>
         /\ Marked' = Marked \/ (gc.pc = "shade" /\ gc.obj \in alive /\ Marked' = Marked \cup {gc.obj})
<1>0. /\ Typed /\ alive \subseteq Object /\ color \in [Object -> Colors] /\ Null \notin Object
  BY GCAssumption DEF HInv, Typed
<1>1. UNCHANGED <<alive, field, th>>
  BY CollectorHeap
<1>2. CASE Blacken
  <2>1. gc.obj \in Marked
    BY <1>2 DEF Held, Blacken
  <2> QED BY <1>0, <1>1, <1>2, <2>1 DEF Blacken, Marked
<1>3. CASE ShadeChild
  <2>1. gc.obj \in alive
    <3>1. CASE gc.obj \in Marked
      BY <3>1 DEF Marked
    <3>2. CASE gc.obj \notin Marked
      <4>1. PICK o \in Marked : field[o] = gc.obj
        BY <1>3, <3>2 DEF Held, ShadeChild
      <4>2. gc.obj \in Object /\ NoDangling
        BY <1>0, <1>3 DEF Typed, Sound, ShadeChild, Marking, Sweeping
      <4> QED BY <1>0, <4>1, <4>2 DEF NoDangling, Marked
    <3> QED BY <3>1, <3>2
  <2> QED BY <1>0, <1>1, <1>3, <2>1 DEF ShadeChild, Marked
<1>4. CASE ~Blacken /\ ~ShadeChild
  <2>1. UNCHANGED color
    BY <1>4 DEF Collector, CheckRunning, TakeRequest, StartMark, PopGray, EndDrain,
        ScanField, PushChild, StartSweep, UnlockList, EndSweep, Announce, FinalSweep, heapVars
  <2> QED BY <1>1, <2>1 DEF Marked
<1> QED BY <1>1, <1>2, <1>3, <1>4

LEMMA CollectorHeld ==
  ASSUME HInv, HInv', Sound, Handshake, Held, Collector
  PROVE  Held'
<1>0. Typed /\ Flags /\ gc \in CollectorState /\ queue \in Seq(Object)
  BY DEF HInv, Typed
<1>1. CASE gc.final \/ FinalSweep
  <2>1. gc'.final
    BY <1>0, <1>1 DEF Collector, CheckRunning, TakeRequest, StartMark, PopGray, EndDrain, Blacken,
        ScanField, ShadeChild, PushChild, StartSweep, LockList, SweepVisit, SweepFree, UnlockList, EndSweep,
        Announce, FinalSweep, CollectorAt, CollectorState
  <2> QED BY <2>1 DEF Held
<1>2. CASE ~gc.final /\ (LockList \/ SweepVisit \/ SweepFree)
  <2>1. /\ gc.pc \in Sweeping \cup {"lock"} /\ gc'.pc \in Sweeping /\ UNCHANGED <<queue, th, phase>>
    BY <1>0, <1>2 DEF LockList, SweepVisit, SweepFree, CollectorAt, CollectorState, Sweeping
  <2>2. queue = << >> /\ phase # "mark" /\ \A t \in Thread : th[t].pc \in Between
    BY <1>0, <1>2, <2>1 DEF Held, Handshake, Flags, Marking, Sweeping
  <2>3. Snapshot'
    BY <2>1, <2>2 DEF Snapshot
  <2> QED BY <2>1, <2>2, <2>3 DEF Held, Sweeping, Between
<1>3. ASSUME ~gc.final, ~FinalSweep, ~LockList, ~SweepVisit, ~SweepFree PROVE Held'
  <2>1. UNCHANGED <<alive, field, th>> /\ Marked \subseteq Marked'
    BY <1>3, MarkedIs
  <2>2. /\ \A i \in DOMAIN queue : queue[i] \in Marked
        /\ \A t \in Thread : /\ th[t].pc = "pushOld" => th[t].old \in Marked
                             /\ th[t].pc = "pushNew" => th[t].new \in Marked
                             /\ th[t].pc = "pushDirect" => th[t].obj \in Marked
    BY <1>3 DEF Held
  <2>3. Snapshot'
    <3>1. CASE StartMark
      <4>1. \A t \in Thread : th[t].pc \in Between
        BY <3>1 DEF StartMark, Handshake
      <4> QED BY <2>1, <4>1 DEF Snapshot, Between, Overwriting
    <3>2. CASE ~StartMark
      <4>1. phase' = "mark" => phase = "mark"
        BY <1>3, <3>2, CollectorHeap
      <4>2. Snapshot
        BY <1>3 DEF Held
      <4> QED BY <2>1, <4>1, <4>2 DEF Snapshot
    <3> QED BY <3>1, <3>2
  <2>4. CASE PopGray
    <3>1. /\ gc'.pc = "blacken" /\ gc'.obj = Head(queue) /\ queue' = Tail(queue) /\ queue # << >>
      BY <1>0, <2>4 DEF PopGray, CollectorState
    <3>2. /\ Len(queue) \in Nat /\ DOMAIN queue = 1..Len(queue) /\ Head(queue) = queue[1] /\ 1 \in DOMAIN queue
          /\ Tail(queue) \in Seq(Object) /\ Len(Tail(queue)) = Len(queue) - 1
          /\ \A j \in 1..Len(Tail(queue)) : Tail(queue)[j] = queue[j + 1]
      BY <1>0, <3>1, HeadTailProperties, LenProperties, EmptySeq
    <3>3. \A j \in 1..Len(Tail(queue)) : j + 1 \in DOMAIN queue
      BY <3>2
    <3>4. \A j \in DOMAIN queue' : queue'[j] \in Marked
      BY <2>2, <3>1, <3>2, <3>3, LenProperties
    <3> QED BY <2>1, <2>2, <2>3, <3>1, <3>2, <3>4 DEF Held, Sweeping
  <2>5. CASE PushChild
    <3>1. gc'.pc = "pop" /\ Push(gc.obj) /\ gc.obj \in Object /\ gc.obj \in Marked
      BY <1>0, <1>3, <2>5 DEF PushChild, CollectorAt, CollectorState, Typed, Marking, Held
    <3>2. \A j \in DOMAIN queue' : queue'[j] \in Marked
      BY <1>0, <2>2, <3>1, PushKeepsMarked
    <3> QED BY <2>1, <2>2, <2>3, <3>1, <3>2 DEF Held, Sweeping
  <2>6. ASSUME UNCHANGED queue,
               gc'.pc \in {"blacken", "scan", "push"} => gc'.obj \in Marked',
               gc'.pc = "shade" => \E o \in Marked : field[o] = gc'.obj,
               gc'.pc \in Sweeping \cup {"endMark", "lock"} => queue = << >>
        PROVE  Held'
    BY <2>1, <2>2, <2>3, <2>6 DEF Held
  <2>7. CASE Blacken
    <3>1. UNCHANGED queue /\ gc'.pc \in {"scan", "pop"} /\ gc'.obj = gc.obj /\ gc.obj \in Marked
      BY <1>0, <1>3, <2>7 DEF Blacken, CollectorAt, CollectorState, Held
    <3> QED BY <2>1, <2>6, <3>1 DEF Sweeping
  <2>8. CASE ScanField
    <3>1. /\ UNCHANGED queue /\ gc.obj \in Marked
          /\ (gc'.pc = "shade" /\ gc'.obj = field[gc.obj]) \/ gc'.pc = "pop"
      BY <1>0, <1>3, <2>8 DEF ScanField, CollectorState, Held
    <3> QED BY <2>6, <3>1 DEF Sweeping
  <2>9. CASE ShadeChild
    <3>1. /\ UNCHANGED queue /\ gc'.pc \in {"push", "pop"} /\ gc'.obj = gc.obj
          /\ gc'.pc = "push" => color'[gc.obj] = "gray"
      BY <1>0, <2>9 DEF ShadeChild, CollectorAt, CollectorState, Typed, Marking
    <3>2. gc'.pc = "push" => gc.obj \in Marked'
      <4>1. CASE gc.obj \in Marked
        BY <2>1, <4>1
      <4>2. CASE gc.obj \notin Marked
        <5>1. PICK o \in Marked : field[o] = gc.obj
          BY <1>3, <2>9, <4>2 DEF Held, ShadeChild
        <5>2. gc.obj \in Object /\ NoDangling /\ Null \notin Object
          BY <1>0, <1>3, <2>9, GCAssumption DEF Typed, Sound, ShadeChild, Marking, Sweeping
        <5>3. gc.obj \in alive
          BY <5>1, <5>2 DEF NoDangling, Marked
        <5> QED BY <2>1, <3>1, <5>3 DEF Marked
      <4> QED BY <4>1, <4>2
    <3> QED BY <2>6, <3>1, <3>2 DEF Sweeping
  <2>10. CASE EndDrain
    <3>1. UNCHANGED queue /\ queue = << >> /\ gc'.pc \in {"pop", "endMark"}
      BY <1>0, <2>10 DEF EndDrain, CollectorState
    <3> QED BY <2>6, <3>1
  <2>11. CASE CheckRunning \/ TakeRequest \/ StartMark \/ UnlockList \/ EndSweep \/ Announce
    <3>1. UNCHANGED queue /\ gc'.pc \in {"exchange", "exited", "start", "check", "pop", "unlocked", "down", "announce"}
      BY <1>0, <2>11 DEF CheckRunning, TakeRequest, StartMark, UnlockList, EndSweep, Announce, CollectorAt,
        CollectorState
    <3> QED BY <2>6, <3>1 DEF Sweeping
  <2>12. CASE StartSweep
    <3>1. UNCHANGED queue /\ gc'.pc = "lock" /\ gc.pc = "endMark"
      BY <1>0, <2>12 DEF StartSweep, CollectorAt, CollectorState
    <3>2. queue = << >>
      BY <1>3, <3>1 DEF Held
    <3> QED BY <2>6, <3>1, <3>2
  <2> QED BY <1>3, <2>4, <2>5, <2>7, <2>8, <2>9, <2>10, <2>11, <2>12 DEF Collector
<1> QED BY <1>1, <1>2, <1>3

LEMMA NextHeld ==
  HInv /\ HInv' /\ BInv /\ Sound /\ Handshake /\ Handshake' /\ Held /\ [Next]_vars => Held'
<1> SUFFICES ASSUME HInv, HInv', BInv, Sound, Handshake, Handshake', Held, [Next]_vars PROVE Held'
  OBVIOUS
<1>1. CASE UNCHANGED vars \/ Shutdown
  BY <1>1 DEF vars, heapVars, Shutdown, Held, Snapshot, Marked
<1> QED BY <1>1, ThreadHeld, CollectorHeld DEF Next

\* An object that a marked one points to was reachable from the marked ones.
LEMMA ReachAdd ==
  ASSUME NEW S \in SUBSET alive, NEW o \in S, NEW x \in alive, field[o] = x, x # Null
  PROVE  Reach(S \cup {x}) = Reach(S)
<1>1. \A T \in SUBSET alive : S \subseteq T /\ Closed(T) => S \cup {x} \subseteq T
  BY DEF Closed
<1>2. \A T \in SUBSET alive : S \cup {x} \subseteq T => S \subseteq T
  OBVIOUS
<1> QED BY <1>1, <1>2 DEF Reach

\* With the handshake, no step of the collector changes what is reachable from the marked
\* objects while it marks, even where threads overwrite fields it is about to scan: it
\* neither loses an object it must keep nor spares garbage.
THEOREM GCMarkingIsExact ==
  ASSUME QueueGrows
  PROVE  Spec /\ []Handshake => MarkingIsExact
<1>1. Init => Held
  BY DEF Init, Held, Snapshot, IdleThread, Sweeping
<1>2. Spec /\ []Handshake => []Held
  BY <1>1, SoundHolds, NextHeld, PTL DEF Spec
<1>3. ASSUME HInv, HInv', Sound, Held, [Next]_vars
      PROVE  [phase' = "mark" /\ Collector => Reach(Marked)' = Reach(Marked)]_vars
  <2> SUFFICES ASSUME phase' = "mark", Collector PROVE Reach(Marked)' = Reach(Marked)
    OBVIOUS
  <2>0. gc \in CollectorState /\ Null \notin Object /\ alive \subseteq Object
    BY <1>3, GCAssumption DEF HInv, Typed
  <2>1. gc'.pc \in Marking \cup {"endMark"} /\ ~gc'.final
    BY <1>3 DEF HInv, Flags, Marking, Sweeping
  <2>2. ~gc.final /\ ~LockList /\ ~SweepVisit /\ ~SweepFree
    BY <2>0, <2>1 DEF Collector, CheckRunning, TakeRequest, StartMark, PopGray, EndDrain, Blacken,
        ScanField, ShadeChild, PushChild, StartSweep, LockList, SweepVisit, SweepFree, UnlockList, EndSweep,
        Announce, FinalSweep, CollectorAt, CollectorState, Marking, Sweeping
  <2>3. /\ UNCHANGED <<alive, field>>
        /\ Marked' = Marked \/ (gc.pc = "shade" /\ gc.obj \in alive /\ Marked' = Marked \cup {gc.obj})
    BY <1>3, <2>2, MarkedIs
  <2>4. Reach(Marked') = Reach(Marked)
    <3>1. CASE Marked' = Marked
      BY <3>1
    <3>2. CASE Marked' # Marked
      <4>1. gc.pc = "shade" /\ gc.obj \in alive /\ Marked' = Marked \cup {gc.obj} /\ gc.obj \notin Marked
        BY <2>3, <3>2
      <4>2. PICK o \in Marked : field[o] = gc.obj
        BY <1>3, <2>2, <4>1 DEF Held
      <4>3. Marked \in SUBSET alive /\ gc.obj # Null
        BY <2>0, <4>1 DEF Marked
      <4> QED BY <4>1, <4>2, <4>3, ReachAdd
    <3> QED BY <3>1, <3>2
  <2> QED BY <2>3, <2>4 DEF Reach, Closed
<1> QED BY <1>2, <1>3, HInvHolds, SoundHolds, PTL DEF Spec, MarkingIsExact

-----------------------------------------------------------------------------
(* One caller: a cycle runs for the caller that waits for it. *)

LEMMA InitOneCycle == Init => OneCycle
BY DEF Init, IdleThread, OneCycle, CollectIsSynchronous, Cycle, Marking, Sweeping

\* A step that leaves the flags, the collector and the calls of ul_gc_collect alone.
LEMMA CycleKept ==
  ASSUME OneCycle, UNCHANGED <<flagVars, gc, served>>,
         \A t \in Thread : /\ th'[t].pc \in {"request", "wait"} => th'[t].pc = th[t].pc
                           /\ th[t].pc = "wait" => th'[t].pc = "wait"
                           /\ th[t].pc = "wait" /\ t \in begun => t \in begun'
  PROVE  OneCycle'
BY DEF OneCycle, CollectIsSynchronous, flagVars

LEMMA ThreadCycle ==
  ASSUME OneCaller, HInv, OneCycle, NEW t \in Thread, Begin(t) \/ Continue(t)
  PROVE  OneCycle'
<1>0. /\ Typed /\ OneCycle /\ th \in [Thread -> ThreadState] /\ th[t] \in ThreadState
  BY DEF HInv, Typed
<1>1. \A u, v \in Thread : th[u].pc \in {"request", "wait"} /\ th[v].pc \in {"request", "wait"} => u = v
  BY <1>0 DEF OneCycle, OneCaller
<1>2. ASSUME UNCHANGED <<flagVars, gc, served>>, \A u \in Thread \ {t} : th'[u] = th[u],
             th[t].pc # "wait", th'[t].pc \notin {"request", "wait"}, begun' \in {begun, begun \ {t}}
      PROVE  OneCycle'
  <2>1. ASSUME NEW u \in Thread
        PROVE  /\ th'[u].pc \in {"request", "wait"} => th'[u].pc = th[u].pc
               /\ th[u].pc = "wait" => th'[u].pc = "wait"
               /\ th[u].pc = "wait" /\ u \in begun => u \in begun'
    BY <1>2
  <2> QED BY <1>2, <2>1, CycleKept
<1>3. CASE \E o \in Object : Alloc(t, o) \/ Load(t, o) \/ Forget(t, o)
  <2>1. UNCHANGED <<flagVars, gc, begun, served, th>>
    BY <1>3 DEF Alloc, Load, Forget
  <2> QED BY <2>1, CycleKept
<1>4. CASE \E o \in Object : DirectShade(t, o) \/ \E new \in Ptr : Barrier(t, o, new)
  <2>1. /\ UNCHANGED <<flagVars, gc, served>> /\ begun' = begun \ {t} /\ th[t].pc = "idle"
    BY <1>4 DEF DirectShade, Barrier, Mutating, Ready
  <2>2. \A u \in Thread \ {t} : th'[u] = th[u]
    BY <1>0, <1>4 DEF DirectShade, Barrier
  <2>3. th'[t].pc \in {"pushDirect", "readOld", "store"}
    <3>1. CASE \E o \in Object : DirectShade(t, o)
      BY <1>0, <3>1 DEF DirectShade, IdleThread
    <3>2. CASE \E o \in Object, new \in Ptr : Barrier(t, o, new)
      BY <1>0, <3>2 DEF Barrier
    <3> QED BY <1>4, <3>1, <3>2
  <2> QED BY <1>2, <2>1, <2>2, <2>3
<1>5. CASE ReadOld(t) \/ Store(t) \/ PushDirect(t)
  <2>1. /\ UNCHANGED <<flagVars, gc, begun, served>> /\ th[t].pc # "wait"
    BY <1>5 DEF ReadOld, Store, PushDirect
  <2>2. \A u \in Thread \ {t} : th'[u] = th[u]
    BY <1>0, <1>5 DEF ReadOld, Store, PushDirect
  <2>3. th'[t].pc \in {"shadeOld", "idle"}
    <3>1. CASE ReadOld(t)
      BY <1>0, <3>1 DEF ReadOld, ThreadState
    <3>2. CASE Store(t) \/ PushDirect(t)
      <4>1. th'[t] = IdleThread
        BY <1>0, <3>2 DEF Store, PushDirect
      <4> QED BY <4>1 DEF IdleThread
    <3> QED BY <1>5, <3>1, <3>2
  <2> QED BY <1>2, <2>1, <2>2, <2>3
<1>6. CASE ShadeOld(t) \/ PushOld(t) \/ ShadeNew(t) \/ PushNew(t)
  <2>1. /\ UNCHANGED <<flagVars, gc, begun, served>> /\ th[t].pc # "wait"
    BY <1>6 DEF ShadeOld, PushOld, ShadeNew, PushNew
  <2>2. \E pc \in {"pushOld", "pushNew", "shadeNew", "store"} : Goto(t, pc)
    BY <1>6 DEF ShadeOld, PushOld, ShadeNew, PushNew, Shade
  <2>3. /\ \A u \in Thread \ {t} : th'[u] = th[u]
        /\ th'[t].pc \in {"pushOld", "pushNew", "shadeNew", "store"}
    BY <1>0, <2>2, GotoIs DEF ThreadPcs
  <2> QED BY <1>2, <2>1, <2>3
<1>7. CASE CollectClear(t)
  <2>1. /\ th[t].pc = "idle" /\ t \in Callers /\ done' = FALSE /\ UNCHANGED <<request, gc>>
        /\ begun' = begun \ {t} /\ served' = served \ {t}
    BY <1>7 DEF CollectClear, Ready
  <2>2. th'[t].pc = "request" /\ \A u \in Thread \ {t} : th'[u] = th[u]
    BY <1>0, <1>7 DEF CollectClear, Goto
  <2> QED BY <1>0, <2>1, <2>2 DEF OneCycle, CollectIsSynchronous
<1>8. CASE CollectRequest(t)
  <2>1. th[t].pc = "request" /\ request' = TRUE /\ UNCHANGED <<done, gc, begun, served>> /\ ~done
    BY <1>0, <1>8 DEF CollectRequest, OneCycle
  <2>2. th'[t].pc = "wait" /\ \A u \in Thread \ {t} : th'[u] = th[u]
    BY <1>0, <1>8 DEF CollectRequest, Goto
  <2>3. ~(gc.pc \in Cycle /\ ~gc.final)
    BY <1>0, <1>1, <2>1 DEF OneCycle
  <2> QED BY <1>0, <2>1, <2>2, <2>3 DEF OneCycle, CollectIsSynchronous
<1>9. CASE CollectReturn(t)
  <2>1. th[t].pc = "wait" /\ done /\ UNCHANGED <<flagVars, gc, begun, served>>
    BY <1>9 DEF CollectReturn
  <2>2. th'[t].pc = "idle" /\ \A u \in Thread \ {t} : th'[u] = th[u]
    BY <1>0, <1>9 DEF CollectReturn, Goto
  <2>3. ~request /\ ~(gc.pc \in Cycle /\ ~gc.final)
    BY <1>0, <2>1 DEF OneCycle
  <2> QED BY <1>0, <2>1, <2>2, <2>3 DEF OneCycle, CollectIsSynchronous, flagVars
<1> QED BY <1>3, <1>4, <1>5, <1>6, <1>7, <1>8, <1>9 DEF Begin, Continue

LEMMA CollectorCycle == ASSUME OneCaller, HInv, OneCycle, Collector PROVE OneCycle'
<1>0. Typed /\ Flags /\ OneCycle /\ gc \in CollectorState
  BY DEF HInv, Typed
<1>1. UNCHANGED th
  BY DEF Collector, CheckRunning, TakeRequest, StartMark, PopGray, EndDrain, Blacken, ScanField,
        ShadeChild, PushChild, StartSweep, LockList, SweepVisit, SweepFree, UnlockList, EndSweep, Announce,
        FinalSweep
<1>2. CASE TakeRequest
  <2>1. /\ request' = FALSE /\ UNCHANGED <<done, begun, served>>
        /\ gc'.pc = (IF request THEN "start" ELSE "check")
    BY <1>0, <1>2 DEF TakeRequest, CollectorAt, CollectorState
  <2> QED BY <1>0, <1>1, <2>1 DEF OneCycle, CollectIsSynchronous, Cycle, Marking, Sweeping
<1>3. CASE StartMark
  <2>1. /\ gc.pc = "start" /\ ~gc.final /\ gc'.final = gc.final
        /\ UNCHANGED <<request, done, served>>
        /\ begun' = {t \in Thread : th[t].pc # "idle"}
    BY <1>0, <1>3 DEF StartMark, CollectorState, flagVars, Flags, Sweeping
  <2> QED BY <1>0, <1>1, <2>1 DEF OneCycle, CollectIsSynchronous, Cycle
<1>4. CASE Announce
  <2>1. /\ gc.pc = "announce" /\ ~gc.final /\ gc'.pc = "check" /\ done' = TRUE
        /\ served' = served \cup begun /\ UNCHANGED <<request, begun>>
    BY <1>0, <1>4 DEF Announce, CollectorAt, CollectorState, Flags, Sweeping
  <2>2. PICK t \in Thread : th[t].pc = "wait" /\ t \in begun
    BY <1>0, <2>1 DEF OneCycle, Cycle
  <2>3. \A u \in Thread : th[u].pc \in {"request", "wait"} => u = t
    BY <1>0, <2>2 DEF OneCycle, OneCaller
  <2>4. ~request
    BY <1>0, <2>1 DEF OneCycle, Cycle
  <2> QED BY <1>0, <1>1, <2>1, <2>2, <2>3, <2>4 DEF OneCycle, CollectIsSynchronous, Cycle, Marking, Sweeping
<1>5. CASE FinalSweep
  <2>1. gc'.final /\ UNCHANGED <<request, done, begun, served>> /\ gc.pc = "exited"
    BY <1>0, <1>5 DEF FinalSweep, CollectorState, flagVars
  <2> QED BY <1>0, <1>1, <2>1 DEF OneCycle, CollectIsSynchronous
<1>6. CASE ~(TakeRequest \/ StartMark \/ Announce \/ FinalSweep)
  <2>1. UNCHANGED <<flagVars, begun, served>>
    BY <1>6 DEF Collector, CheckRunning, PopGray, EndDrain, Blacken, ScanField,
        ShadeChild, PushChild, StartSweep, LockList, SweepVisit, SweepFree, UnlockList, EndSweep
  <2>2. gc'.pc \in Cycle /\ ~gc'.final => gc.pc \in Cycle \ {"start"} /\ ~gc.final
    <3> USE <1>0 DEF CollectorAt, CollectorState, Cycle, Marking, Sweeping
    <3>1. CASE CheckRunning
      BY <3>1 DEF CheckRunning
    <3>2. CASE PopGray
      BY <3>2 DEF PopGray
    <3>3. CASE EndDrain
      <4>1. gc' = [gc EXCEPT !.pass = 2] \/ gc' = [gc EXCEPT !.pc = "endMark"]
        BY <3>3 DEF EndDrain
      <4> QED BY <3>3, <4>1 DEF EndDrain
    <3>4. CASE Blacken
      BY <3>4 DEF Blacken
    <3>5. CASE ScanField
      BY <3>5 DEF ScanField
    <3>6. CASE ShadeChild
      BY <3>6 DEF ShadeChild
    <3>7. CASE PushChild
      BY <3>7 DEF PushChild
    <3>8. CASE StartSweep
      BY <3>8 DEF StartSweep
    <3>9. CASE LockList
      BY <3>9 DEF LockList
    <3>10. CASE SweepVisit
      BY <3>10 DEF SweepVisit
    <3>11. CASE SweepFree
      BY <3>11 DEF SweepFree
    <3>12. CASE UnlockList
      BY <3>12 DEF UnlockList
    <3>13. CASE EndSweep
      BY <3>13 DEF EndSweep
    <3> QED BY <1>6, <3>1, <3>2, <3>3, <3>4, <3>5, <3>6, <3>7, <3>8,
               <3>9, <3>10, <3>11, <3>12, <3>13 DEF Collector
  <2> QED BY <1>0, <1>1, <2>1, <2>2 DEF OneCycle, CollectIsSynchronous, flagVars
<1> QED BY <1>2, <1>3, <1>4, <1>5, <1>6

LEMMA NextOneCycle ==
  ASSUME OneCaller
  PROVE  HInv /\ OneCycle /\ [Next]_vars => OneCycle'
<1> SUFFICES ASSUME HInv, OneCycle, [Next]_vars PROVE OneCycle'
  OBVIOUS
<1>1. CASE UNCHANGED vars
  BY <1>1, CycleKept DEF vars
<1>2. CASE Shutdown
  BY <1>2 DEF Shutdown, OneCycle, CollectIsSynchronous
<1> QED BY <1>1, <1>2, ThreadCycle, CollectorCycle DEF Next

\* With one caller, ul_gc_collect returns only after a mark and sweep that began
\* after the call.
THEOREM GCCollectIsSynchronous ==
  ASSUME OneCaller
  PROVE  Spec => []CollectIsSynchronous
<1>1. OneCycle => CollectIsSynchronous
  BY DEF OneCycle
<1> QED BY <1>1, InitOneCycle, HInvHolds, NextOneCycle, PTL DEF Spec

-----------------------------------------------------------------------------
(* One thread: the world stops for a cycle, and the handshake costs nothing. *)

\* A thread that waits for the cycle, and is alone, keeps the handshake.
LEMMA OneThreadHandshake ==
  ASSUME OneThread
  PROVE  Spec => []Handshake
<1>1. OneCaller
  BY GCAssumption DEF OneThread, OneCaller
<1>2. ASSUME HInv, OneCycle PROVE Handshake
  <2>1. SUFFICES ASSUME gc.pc \in {"start", "endMark", "lock"} \cup Sweeping, NEW t \in Thread
                 PROVE  th[t].pc \in Between
    BY DEF Handshake
  <2>2. CASE gc.final
    BY <1>2, <2>2 DEF HInv, Flags, Between
  <2>3. CASE ~gc.final
    <3>1. PICK u \in Thread : th[u].pc = "wait"
      BY <1>2, <2>1, <2>3 DEF OneCycle, Cycle
    <3> QED BY <3>1 DEF OneThread, Between
  <2> QED BY <2>2, <2>3
<1> QED BY <1>1, <1>2, InitOneCycle, HInvHolds, NextOneCycle, PTL DEF Spec

\* With one thread and a queue that can grow, the collector is the one of a program that
\* stops for each cycle.
THEOREM GCStopsTheWorld ==
  ASSUME OneThread, QueueGrows
  PROVE  Spec => [](Tricolor /\ (running => NoDanglingField)) /\ MarkingIsExact
<1>1. Spec => MarkingIsExact
  BY OneThreadHandshake, GCMarkingIsExact
<1>2. Spec => [](Tricolor /\ (running => NoDanglingField))
  BY OneThreadHandshake, GCTricolor, GCLeavesNothingDangling, PTL
<1> QED BY <1>1, <1>2
=============================================================================
