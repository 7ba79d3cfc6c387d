--------------------------------- MODULE GC ---------------------------------
(***************************************************************************)
(* The concurrent mark-sweep collector of the "memory: gc" mode            *)
(* (Compiler/Runtime/ul_gc.c): the background thread, the threads that     *)
(* allocate, store through the write barrier, shade, request collections   *)
(* and shut the collector down, at the grain of their atomic accesses and  *)
(* critical sections.                                                      *)
(*                                                                         *)
(* gc_mark_roots is a stub that scans nothing, so an object survives a     *)
(* cycle only if it was shaded, by a barrier or by a direct ul_gc_shade    *)
(* (as test_memory.c does), or is reachable from one that was.  The        *)
(* threads of the model follow a pointer only while its object is          *)
(* allocated: what a program does with a dangling one is undefined.        *)
(***************************************************************************)
EXTENDS Naturals, Sequences, FiniteSets

CONSTANTS
    Object,         \* blocks mi_malloc hands out, each with one pointer field
    Thread,         \* the program's threads
    Null,
    Mutators,       \* those that allocate, store and shade
    Callers,        \* those that may call ul_gc_collect
    MayFail,        \* may mi_realloc fail when the gray queue has to grow?
    MayShutdown,    \* may the program call ul_gc_shutdown?
    QueueMax        \* bound: entries the gray queue may hold

ASSUME GCAssumption ==
    /\ Null \notin Object
    /\ Mutators \subseteq Thread /\ Callers \subseteq Thread
    /\ {MayFail, MayShutdown} \subseteq BOOLEAN
    /\ QueueMax \in Nat

VARIABLES
    phase,      \* ul_gc_phase
    alive,      \* objects allocated and not freed
    list,       \* gc_alloc_list, newest first
    color,      \* color[o] in the header
    field,      \* field[o]: the pointer field of o
    queue,      \* gc_gray_queue between head and tail
    running, request, done,     \* gc_running, gc_collect_request, gc_collect_done
    gc,         \* the collector: control point, object at hand, drain pass, sweep's prev
    th,         \* the threads: control point and operands of the call in progress
    roots,      \* roots[t]: pointers in the variables of t
    begun, served   \* history: threads in whose present call the last cycle began; whose
                    \* ul_gc_collect a cycle completed that began in it

heapVars == <<alive, list, color, field>>
flagVars == <<running, request, done>>
vars == <<phase, heapVars, queue, flagVars, gc, th, roots, begun, served>>

Ptr == Object \cup {Null}

\* Control points at which the sweeping thread holds gc_list_mutex.
Sweeping == {"sweep", "free"}

IdleThread == [pc |-> "idle", obj |-> Null, new |-> Null, old |-> Null]

\* t is between calls and the collector has not been shut down.
Ready(t) == th[t].pc = "idle" /\ running
Mutating(t) == Ready(t) /\ t \in Mutators

\* The alloc list around an object: its first node, what follows the object, and
\* what precedes and includes it; the empty list stands before NULL.
First(l) == IF l = << >> THEN Null ELSE Head(l)
Position(o) == CHOOSE i \in DOMAIN list : list[i] = o
After(o) == SubSeq(list, Position(o) + 1, Len(list))
UpTo(o) == IF o = Null THEN << >> ELSE SubSeq(list, 1, Position(o))

Goto(t, pc) == th' = [th EXCEPT ![t].pc = pc]
CollectorAt(pc) == gc' = [gc EXCEPT !.pc = pc]

Init ==
    /\ phase = "idle"
    /\ alive = {} /\ list = << >>
    /\ color = [o \in Object |-> "white"]
    /\ field = [o \in Object |-> Null]
    /\ queue = << >>
    /\ running = TRUE /\ request = FALSE /\ done = FALSE
    /\ gc = [pc |-> "check", obj |-> Null, pass |-> 1, prev |-> Null, final |-> FALSE]
    /\ th = [t \in Thread |-> IdleThread]
    /\ roots = [t \in Thread |-> {}]
    /\ begun = {} /\ served = {}

-----------------------------------------------------------------------------
(* Shading. *)

\* gc_gray_push.  A queue that has to grow and cannot drops the entry.
Push(o) ==
    \/ Len(queue) < QueueMax /\ queue' = Append(queue, o)
    \/ MayFail /\ UNCHANGED queue

\* The compare-exchange of ul_gc_shade by thread t: the winner pushes.
Shade(t, o, pushAt, doneAt) ==
    IF o # Null /\ color[o] = "white"
    THEN color' = [color EXCEPT ![o] = "gray"] /\ Goto(t, pushAt)
    ELSE Goto(t, doneAt) /\ UNCHANGED color

-----------------------------------------------------------------------------
(* The threads of the program. *)

\* Mutant: the list is prepended to without its mutex.
AllocUnlocked(t, o) ==
    /\ Mutating(t) /\ o \notin alive
    /\ alive' = alive \cup {o}
    /\ list' = <<o>> \o list
    /\ color' = [color EXCEPT ![o] = "white"]
    /\ field' = [field EXCEPT ![o] = Null]
    /\ roots' = [roots EXCEPT ![t] = @ \cup {o}]
    /\ UNCHANGED <<phase, queue, flagVars, gc, th, begun, served>>

\* ul_gc_alloc: the new object is white, whatever the phase, and is prepended
\* to the list under gc_list_mutex.  The program initialises the field, before
\* it publishes the pointer, to NULL.
Alloc(t, o) ==
    /\ Mutating(t) /\ o \notin alive
    /\ gc.pc \notin Sweeping
    /\ alive' = alive \cup {o}
    /\ list' = <<o>> \o list
    /\ color' = [color EXCEPT ![o] = "white"]
    /\ field' = [field EXCEPT ![o] = Null]
    /\ roots' = [roots EXCEPT ![t] = @ \cup {o}]
    /\ UNCHANGED <<phase, queue, flagVars, gc, th, begun, served>>

\* The thread reads a field into a variable, or forgets a variable.
Load(t, o) ==
    /\ Mutating(t) /\ o \in roots[t] \cap alive /\ field[o] \in alive
    /\ roots' = [roots EXCEPT ![t] = @ \cup {field[o]}]
    /\ UNCHANGED <<phase, heapVars, queue, flagVars, gc, th, begun, served>>

Forget(t, o) ==
    /\ Mutating(t) /\ o \in roots[t]
    /\ roots' = [roots EXCEPT ![t] = @ \ {o}]
    /\ UNCHANGED <<phase, heapVars, queue, flagVars, gc, th, begun, served>>

\* ul_write_barrier_ptr(&o->field, new), up to its load of the phase.
Barrier(t, o, new) ==
    /\ Mutating(t) /\ o \in roots[t] \cap alive /\ new \in (roots[t] \cap alive) \cup {Null}
    /\ th' = [th EXCEPT ![t] = [pc |-> IF phase = "mark" THEN "readOld" ELSE "store",
                                obj |-> o, new |-> new, old |-> Null]]
    /\ begun' = begun \ {t}
    /\ UNCHANGED <<phase, heapVars, queue, flagVars, gc, roots, served>>

\* The slow path: read the old value, shade it, push it...
ReadOld(t) ==
    /\ th[t].pc = "readOld" /\ th[t].obj \in alive
    /\ th' = [th EXCEPT ![t].pc = "shadeOld", ![t].old = field[th[t].obj]]
    /\ UNCHANGED <<phase, heapVars, queue, flagVars, gc, roots, begun, served>>

ShadeOld(t) ==
    /\ th[t].pc = "shadeOld" /\ th[t].old \in alive \cup {Null}
    /\ Shade(t, th[t].old, "pushOld", "shadeNew")
    /\ UNCHANGED <<phase, alive, list, field, queue, flagVars, gc, roots, begun, served>>

PushOld(t) ==
    /\ th[t].pc = "pushOld"
    /\ Push(th[t].old)
    /\ Goto(t, "shadeNew")
    /\ UNCHANGED <<phase, heapVars, flagVars, gc, roots, begun, served>>

\* Mutant: the barrier shades the old value only.
ShadeNewNever(t) ==
    /\ th[t].pc = "shadeNew" /\ Goto(t, "store")
    /\ UNCHANGED <<phase, heapVars, queue, flagVars, gc, roots, begun, served>>

\* ... the same for the new value...
ShadeNew(t) ==
    /\ th[t].pc = "shadeNew" /\ th[t].new \in alive \cup {Null}
    /\ Shade(t, th[t].new, "pushNew", "store")
    /\ UNCHANGED <<phase, alive, list, field, queue, flagVars, gc, roots, begun, served>>

PushNew(t) ==
    /\ th[t].pc = "pushNew"
    /\ Push(th[t].new)
    /\ Goto(t, "store")
    /\ UNCHANGED <<phase, heapVars, flagVars, gc, roots, begun, served>>

\* ... and the store, which is the fast path's only step.
Store(t) ==
    /\ th[t].pc = "store" /\ th[t].obj \in alive
    /\ field' = [field EXCEPT ![th[t].obj] = th[t].new]
    /\ th' = [th EXCEPT ![t] = IdleThread]
    /\ UNCHANGED <<phase, alive, list, color, queue, flagVars, gc, roots, begun, served>>

\* A direct call of ul_gc_shade.
DirectShade(t, o) ==
    /\ Mutating(t) /\ o \in roots[t] \cap alive /\ color[o] = "white"
    /\ color' = [color EXCEPT ![o] = "gray"]
    /\ th' = [th EXCEPT ![t] = [IdleThread EXCEPT !.pc = "pushDirect", !.obj = o]]
    /\ begun' = begun \ {t}
    /\ UNCHANGED <<phase, alive, list, field, queue, flagVars, gc, roots, served>>

PushDirect(t) ==
    /\ th[t].pc = "pushDirect"
    /\ Push(th[t].obj)
    /\ th' = [th EXCEPT ![t] = IdleThread]
    /\ UNCHANGED <<phase, heapVars, flagVars, gc, roots, begun, served>>

-----------------------------------------------------------------------------
(* ul_gc_collect: clear done, set request, wait for done. *)

\* Mutant: the completion flag of the previous cycle is left standing.
CollectKeepsDone(t) ==
    /\ Ready(t) /\ t \in Callers
    /\ Goto(t, "request")
    /\ begun' = begun \ {t} /\ served' = served \ {t}
    /\ UNCHANGED <<phase, heapVars, queue, flagVars, gc, roots>>

CollectClear(t) ==
    /\ Ready(t) /\ t \in Callers
    /\ done' = FALSE
    /\ Goto(t, "request")
    /\ begun' = begun \ {t} /\ served' = served \ {t}
    /\ UNCHANGED <<phase, heapVars, queue, running, request, gc, roots>>

CollectRequest(t) ==
    /\ th[t].pc = "request"
    /\ request' = TRUE
    /\ Goto(t, "wait")
    /\ UNCHANGED <<phase, heapVars, queue, running, done, gc, roots, begun, served>>

CollectReturn(t) ==
    /\ th[t].pc = "wait" /\ done
    /\ Goto(t, "idle")
    /\ UNCHANGED <<phase, heapVars, queue, flagVars, gc, roots, begun, served>>

-----------------------------------------------------------------------------
(* The collector thread. *)

\* while (gc_running)
CheckRunning ==
    /\ gc.pc = "check"
    /\ CollectorAt(IF running THEN "exchange" ELSE "exited")
    /\ UNCHANGED <<phase, heapVars, queue, flagVars, th, roots, begun, served>>

\* Mutant: the request flag is cleared only after it has been tested again.
TakeRequestLate ==
    /\ gc.pc = "exchange"
    /\ request' = FALSE
    /\ CollectorAt("check")
    /\ UNCHANGED <<phase, heapVars, queue, running, done, th, roots, begun, served>>

\* exchange(&gc_collect_request, 0); without a request, sleep and poll again.
TakeRequest ==
    /\ gc.pc = "exchange"
    /\ request' = FALSE
    /\ CollectorAt(IF request THEN "start" ELSE "check")
    /\ UNCHANGED <<phase, heapVars, queue, running, done, th, roots, begun, served>>

\* Mutant: a cycle starts by whitening every object.
StartMarkAfresh ==
    /\ gc.pc = "start"
    /\ phase' = "mark"
    /\ color' = [o \in Object |-> "white"]
    /\ gc' = [gc EXCEPT !.pc = "pop", !.pass = 1]
    /\ begun' = {t \in Thread : th[t].pc # "idle"}
    /\ UNCHANGED <<alive, list, field, queue, flagVars, th, roots, served>>

\* gc_mark_phase: publish MARK; gc_mark_roots scans nothing.
StartMark ==
    /\ gc.pc = "start"
    /\ phase' = "mark"
    /\ gc' = [gc EXCEPT !.pc = "pop", !.pass = 1]
    /\ begun' = {t \in Thread : th[t].pc # "idle"}
    /\ UNCHANGED <<heapVars, queue, flagVars, th, roots, served>>

\* Mutant: compaction loses the remaining entries.
PopGrayLast ==
    /\ gc.pc = "pop" /\ queue # << >>
    /\ queue' = << >>
    /\ gc' = [gc EXCEPT !.pc = "blacken", !.obj = Head(queue)]
    /\ UNCHANGED <<phase, heapVars, flagVars, th, roots, begun, served>>

\* gc_drain_gray pops an object, or, empty, ends the first or the second drain.
PopGray ==
    /\ gc.pc = "pop" /\ queue # << >>
    /\ queue' = Tail(queue)
    /\ gc' = [gc EXCEPT !.pc = "blacken", !.obj = Head(queue)]
    /\ UNCHANGED <<phase, heapVars, flagVars, th, roots, begun, served>>


EndDrain ==
    /\ gc.pc = "pop" /\ queue = << >>
    /\ gc' = IF gc.pass = 1 THEN [gc EXCEPT !.pass = 2] ELSE [gc EXCEPT !.pc = "endMark"]
    /\ UNCHANGED <<phase, heapVars, queue, flagVars, th, roots, begun, served>>

\* The popped object becomes black, before its fields are read; a write to a
\* block that was freed meanwhile is undefined, and marks nothing here...
Blacken ==
    /\ gc.pc = "blacken"
    /\ IF gc.obj \in alive
       THEN color' = [color EXCEPT ![gc.obj] = "black"] /\ CollectorAt("scan")
       ELSE UNCHANGED color /\ CollectorAt("pop")
    /\ UNCHANGED <<phase, alive, list, field, queue, flagVars, th, roots, begun, served>>

\* Mutant: the pointer field is not scanned.
ScanNothing ==
    /\ gc.pc = "scan"
    /\ CollectorAt("pop")
    /\ UNCHANGED <<phase, heapVars, queue, flagVars, th, roots, begun, served>>

\* ... and then what its field points to is shaded: load, exchange, push.
ScanField ==
    /\ gc.pc = "scan"
    /\ gc' = IF field[gc.obj] \in alive THEN [gc EXCEPT !.pc = "shade", !.obj = field[@]]
                                       ELSE [gc EXCEPT !.pc = "pop"]
    /\ UNCHANGED <<phase, heapVars, queue, flagVars, th, roots, begun, served>>

ShadeChild ==
    /\ gc.pc = "shade"
    /\ IF color[gc.obj] = "white"
       THEN color' = [color EXCEPT ![gc.obj] = "gray"] /\ CollectorAt("push")
       ELSE CollectorAt("pop") /\ UNCHANGED color
    /\ UNCHANGED <<phase, alive, list, field, queue, flagVars, th, roots, begun, served>>

PushChild ==
    /\ gc.pc = "push"
    /\ Push(gc.obj)
    /\ CollectorAt("pop")
    /\ UNCHANGED <<phase, heapVars, flagVars, th, roots, begun, served>>

\* gc_sweep_phase: publish SWEEP, take gc_list_mutex, go to the list's head.
StartSweep ==
    /\ gc.pc = "endMark"
    /\ phase' = "sweep"
    /\ CollectorAt("lock")
    /\ UNCHANGED <<heapVars, queue, flagVars, th, roots, begun, served>>

LockList ==
    /\ gc.pc = "lock"
    /\ gc' = [gc EXCEPT !.pc = "sweep", !.obj = First(list), !.prev = Null]
    /\ UNCHANGED <<phase, heapVars, queue, flagVars, th, roots, begun, served>>

\* Load the color: a white object is to be freed, any other turns white and
\* becomes prev.
SweepVisit ==
    /\ gc.pc = "sweep" /\ gc.obj # Null
    /\ IF color[gc.obj] = "white"
       THEN CollectorAt("free") /\ UNCHANGED color
       ELSE /\ color' = [color EXCEPT ![gc.obj] = "white"]
            /\ gc' = [gc EXCEPT !.prev = gc.obj, !.obj = First(After(gc.obj))]
    /\ UNCHANGED <<phase, alive, list, field, queue, flagVars, th, roots, begun, served>>


\* Unlink the object: prev->next_alloc := next, or gc_alloc_list := next when
\* there is no prev.  Zero its data and mi_free it.
SweepFree ==
    /\ gc.pc = "free"
    /\ alive' = alive \ {gc.obj}
    /\ field' = [field EXCEPT ![gc.obj] = Null]
    /\ list' = UpTo(gc.prev) \o After(gc.obj)
    /\ gc' = [gc EXCEPT !.pc = "sweep", !.obj = First(After(gc.obj))]
    /\ UNCHANGED <<phase, color, queue, flagVars, th, roots, begun, served>>

\* Release the mutex at the end of the list.
UnlockList ==
    /\ gc.pc = "sweep" /\ gc.obj = Null
    /\ CollectorAt("unlocked")
    /\ UNCHANGED <<phase, heapVars, queue, flagVars, th, roots, begun, served>>

EndSweep ==
    /\ gc.pc = "unlocked"
    /\ phase' = "idle"
    /\ CollectorAt(IF gc.final THEN "down" ELSE "announce")
    /\ UNCHANGED <<heapVars, queue, flagVars, th, roots, begun, served>>

\* gc_collect_done := 1, then back to the loop.
Announce ==
    /\ gc.pc = "announce"
    /\ done' = TRUE
    /\ CollectorAt("check")
    /\ served' = served \cup begun
    /\ UNCHANGED <<phase, heapVars, queue, running, request, th, roots, begun>>

-----------------------------------------------------------------------------
(* ul_gc_shutdown, when every other call has returned. *)

Shutdown ==
    /\ MayShutdown /\ running
    /\ \A t \in Thread : th[t].pc = "idle"
    /\ running' = FALSE
    /\ UNCHANGED <<phase, heapVars, queue, request, done, gc, th, roots, begun, served>>

\* After the join, the calling thread runs gc_sweep_phase itself.
FinalSweep ==
    /\ gc.pc = "exited"
    /\ gc' = [gc EXCEPT !.pc = "endMark", !.final = TRUE]
    /\ UNCHANGED <<phase, heapVars, queue, flagVars, th, roots, begun, served>>

-----------------------------------------------------------------------------
Collector ==
    \/ CheckRunning \/ TakeRequest \/ StartMark \/ PopGray \/ EndDrain \/ Blacken
    \/ ScanField \/ ShadeChild \/ PushChild \/ StartSweep \/ LockList \/ SweepVisit \/ SweepFree \/ UnlockList
    \/ EndSweep \/ Announce \/ FinalSweep

\* A call that a thread has begun.
Continue(t) ==
    \/ ReadOld(t) \/ ShadeOld(t) \/ PushOld(t) \/ ShadeNew(t) \/ PushNew(t) \/ Store(t)
    \/ PushDirect(t) \/ CollectRequest(t) \/ CollectReturn(t)

\* A call that a thread begins.
Begin(t) ==
    \/ CollectClear(t)
    \/ \E o \in Object :
          \/ Alloc(t, o) \/ Load(t, o) \/ Forget(t, o) \/ DirectShade(t, o)
          \/ \E new \in Ptr : Barrier(t, o, new)

Next == Collector \/ Shutdown \/ \E t \in Thread : Begin(t) \/ Continue(t)

Spec == Init /\ [][Next]_vars

\* The collector and every thread inside a call are scheduled.
FairSpec ==
    /\ Spec
    /\ WF_vars(Collector)
    /\ \A t \in Thread : WF_vars(Continue(t))

-----------------------------------------------------------------------------
Colors == {"white", "gray", "black"}

TypeOK ==
    /\ phase \in {"idle", "mark", "sweep"}
    /\ alive \subseteq Object
    /\ list \in Seq(Object)
    /\ color \in [Object -> Colors]
    /\ field \in [Object -> Ptr]
    /\ queue \in Seq(Object)
    /\ {running, request, done} \subseteq BOOLEAN
    /\ {gc.obj, gc.prev} \subseteq Ptr /\ gc.pass \in {1, 2}
    /\ \A t \in Thread : {th[t].obj, th[t].new, th[t].old} \subseteq Ptr
    /\ roots \in [Thread -> SUBSET Object]
    /\ begun \subseteq Thread /\ served \subseteq Thread

\* The intrusive list and the heap agree: every allocated object is listed once,
\* and no freed block is still linked.
ListExact ==
    /\ {list[i] : i \in DOMAIN list} = alive
    /\ Len(list) = Cardinality(alive)
HeapIsConsistent == TypeOK /\ ListExact

\* The objects that marking has reached so far.
Marked == {o \in alive : color[o] # "white"}

Closed(S) == \A o \in S : field[o] \in S \cup {Null}

\* The allocated objects a program can reach from S.
Reach(S) == {o \in alive : \A T \in SUBSET alive : S \subseteq T /\ Closed(T) => o \in T}

\* The black objects that point to a white one, unless the collector is about to scan
\* the one or to shade the other.
Exposed == {o \in alive :
    /\ color[o] = "black" /\ ~(gc.pc = "scan" /\ gc.obj = o)
    /\ field[o] # Null /\ color[field[o]] = "white"
    /\ ~(gc.pc = "shade" /\ gc.obj = field[o])}

\* The tricolor invariant: while marking, a black object points to no white one
\* (ul_gc.h: "fully scanned; all children are at least gray").
Tricolor == phase = "mark" => Exposed = {}

\* What breaks it is known: while marking, no other step makes a black object point to a
\* white one than the store of a thread that was in the barrier when marking began, and
\* had read the phase before (ul_write_barrier_ptr reads it once).  Only a pointer that
\* dangled already, to a block the last sweep freed, needs no store to be such a one.
StaleStore(t) == t \in begun /\ Store(t)
ExposedByStaleStores ==
    [][phase' = "mark" => \A o \in Exposed' :
           \/ o \in Exposed /\ field'[o] = field[o]
           \/ field'[o] \notin alive
           \/ \E t \in Thread : StaleStore(t) /\ th[t].obj = o]_vars

\* No gray object is forgotten: it is queued, or in the hands of whoever shaded
\* or popped it.
GrayIsPending ==
    \A o \in alive : color[o] = "gray" =>
        \/ \E i \in DOMAIN queue : queue[i] = o
        \/ gc.pc \in {"blacken", "push"} /\ gc.obj = o
        \/ \E t \in Thread : \/ th[t].pc = "pushOld" /\ th[t].old = o
                             \/ th[t].pc = "pushNew" /\ th[t].new = o
                             \/ th[t].pc = "pushDirect" /\ th[t].obj = o

\* Sweeping frees no object that an object it keeps still points to.
NoDanglingField ==
    gc.pc \notin Sweeping => \A o \in alive : field[o] \in alive \cup {Null}

\* Marking keeps exactly what was reachable from the shaded objects when it
\* began: it neither loses an object nor spares garbage.
MarkingIsExact ==
    [][phase' = "mark" /\ Collector => Reach(Marked)' = Reach(Marked)]_vars

\* ul_gc_collect returns only after a complete mark and sweep that began after
\* the call (ul_gc.h: "Synchronously triggers a complete GC cycle").
CollectIsSynchronous ==
    \A t \in Thread : th[t].pc = "wait" /\ done => t \in served

\* Every requested collection completes and wakes its caller.
CollectReturns == \A t \in Thread : th[t].pc = "wait" ~> th[t].pc = "idle"
=============================================================================
