------------------------------ MODULE RefCount ------------------------------
(***************************************************************************)
(* ARC objects of the "memory: refcount" mode (Compiler/Runtime/           *)
(* ul_refcount.c), under every interleaving of the threads that use them.  *)
(*                                                                         *)
(* The processes are REFERENCES, not threads: a reference is a variable    *)
(* that can hold one counted pointer, and each carries the control state   *)
(* of the library call that is consuming or producing it.  A thread is a   *)
(* sequential program over some references, so every schedule of threads   *)
(* is a behaviour of this module.  An object has one pointer field, itself *)
(* a reference, named by the object: its destructor releases it, as        *)
(* UL_TypeInfo demands, and calls nest along chains of fields.             *)
(***************************************************************************)
EXTENDS Integers, FiniteSets

CONSTANTS
    Object,     \* blocks mi_malloc hands out; an address is reused once freed
    Local,      \* variables of the program's threads that can hold a pointer
    Null,       \* the NULL pointer
    CountMax    \* INT32_MAX: the counts are _Atomic(int32_t)

Ref == Local \cup Object        \* object o, as a reference, is its pointer field

ASSUME RefCountAssumption ==
    /\ IsFiniteSet(Object) /\ IsFiniteSet(Local)
    /\ Object \cap Local = {}
    /\ Null \notin Ref
    /\ CountMax \in Nat
    /\ Cardinality(Ref) < CountMax

VARIABLES
    heap,       \* heap[o]: "free" | "live" | "cleared": free, or what the data is
    strong,     \* strong[o], weak[o]: the two counts of UL_RCHeader
    weak,
    st,         \* st[r]: what r is, or where the call on it stands
    at,         \* at[r]: the object r points to
    lock        \* lock[r]: for a ul_weak_lock into r, its source and `current`

vars == <<heap, strong, weak, st, at, lock>>

\* The control points at which ul_release and ul_weak_release can be preempted.
Dying  == {"destructor", "memset", "sentinel"}
InCall == Dying \cup {"free", "locking"}
State  == {"null", "strong", "weak"} \cup InCall

NoLock == [from |-> Null, current |-> 0]

\* int32_t increment: past INT32_MAX it wraps to INT32_MIN.
Incr(n) == IF n = CountMax THEN -(CountMax + 1) ELSE n + 1

Pointing(kinds, o) == {r \in Ref : st[r] \in kinds /\ at[r] = o}

\* A weak reference a ul_weak_lock is reading from belongs to that call.
Idle(r) == \A s \in Local : lock[s].from # r

\* A variable the running thread may store a new reference in: a local, or the
\* field of an object it holds strongly.
Writable(s) ==
    /\ st[s] = "null"
    /\ s \in Object => \E q \in Local : st[q] = "strong" /\ at[q] = s

Become(r, state, o) == st' = [st EXCEPT ![r] = state] /\ at' = [at EXCEPT ![r] = o]
Consume(r) == Become(r, "null", Null)

-----------------------------------------------------------------------------
Init ==
    /\ heap = [o \in Object |-> "free"]
    /\ strong = [o \in Object |-> 0]
    /\ weak = [o \in Object |-> 0]
    /\ st = [r \in Ref |-> "null"]
    /\ at = [r \in Ref |-> Null]
    /\ lock = [r \in Local |-> NoLock]

\* ul_rc_alloc.  On mi_malloc's failure it returns NULL and changes nothing.
Alloc(r, o) ==
    /\ st[r] = "null" /\ heap[o] = "free"
    /\ heap' = [heap EXCEPT ![o] = "live"]
    /\ strong' = [strong EXCEPT ![o] = 1]
    /\ weak' = [weak EXCEPT ![o] = 1]
    /\ Become(r, "strong", o)
    /\ UNCHANGED lock

\* ul_retain by the holder r of a strong reference; s receives the new one.
Retain(r, s) ==
    /\ st[r] = "strong" /\ Writable(s)
    /\ strong' = [strong EXCEPT ![at[r]] = Incr(@)]
    /\ Become(s, "strong", at[r])
    /\ UNCHANGED <<heap, weak, lock>>

\* ul_release up to its fetch_sub: the last strong reference goes on to destroy.
DecStrong(r) ==
    /\ st[r] = "strong"
    /\ strong' = [strong EXCEPT ![at[r]] = @ - 1]
    /\ IF strong[at[r]] = 1 THEN Become(r, "destructor", at[r]) ELSE Consume(r)
    /\ UNCHANGED <<heap, weak, lock>>

Release(r) == r \in Local /\ DecStrong(r)

\* type->destructor(obj) releases the object's field, waits for that call...
DestructorRelease(r) == st[r] = "destructor" /\ DecStrong(at[r])

\* ... and returns; a type without pointer fields has nothing to release.
DestructorReturn(r) ==
    /\ st[r] = "destructor" /\ st[at[r]] = "null"
    /\ Become(r, "memset", at[r])
    /\ UNCHANGED <<heap, strong, weak, lock>>

\* memset(obj, 0, size)
ClearData(r) ==
    /\ st[r] = "memset"
    /\ heap' = [heap EXCEPT ![at[r]] = "cleared"]
    /\ Become(r, "sentinel", at[r])
    /\ UNCHANGED <<strong, weak, lock>>

\* The weak fetch_sub of ul_release (the sentinel) and of ul_weak_release.
DecWeak(r) ==
    /\ weak' = [weak EXCEPT ![at[r]] = @ - 1]
    /\ IF weak[at[r]] = 1 THEN Become(r, "free", at[r]) ELSE Consume(r)
    /\ UNCHANGED <<heap, strong, lock>>

\* Mutants: the last release frees without asking for weak references, and
\* never frees.
DropSentinelAndFree(r) ==
    /\ st[r] = "sentinel"
    /\ weak' = [weak EXCEPT ![at[r]] = @ - 1]
    /\ Become(r, "free", at[r])
    /\ UNCHANGED <<heap, strong, lock>>
DropSentinelOnly(r) ==
    /\ st[r] = "sentinel"
    /\ weak' = [weak EXCEPT ![at[r]] = @ - 1]
    /\ Consume(r)
    /\ UNCHANGED <<heap, strong, lock>>

DropSentinel(r) == st[r] = "sentinel" /\ DecWeak(r)
WeakRelease(r)  == st[r] = "weak" /\ Idle(r) /\ DecWeak(r)

\* mi_free(hdr)
FreeBlock(r) ==
    /\ st[r] = "free"
    /\ heap' = [heap EXCEPT ![at[r]] = "free"]
    /\ Consume(r)
    /\ UNCHANGED <<strong, weak, lock>>

\* Mutant: ul_weak_retain increments the strong count.
WeakRetainStrong(r, s) ==
    /\ st[r] \in {"strong", "weak"} /\ st[s] = "null"
    /\ strong' = [strong EXCEPT ![at[r]] = Incr(@)]
    /\ Become(s, "weak", at[r])
    /\ UNCHANGED <<heap, weak, lock>>

\* ul_weak_retain by any holder of the object; s receives the weak reference.
WeakRetain(r, s) ==
    /\ st[r] \in {"strong", "weak"} /\ st[s] = "null"
    /\ weak' = [weak EXCEPT ![at[r]] = Incr(@)]
    /\ Become(s, "weak", at[r])
    /\ UNCHANGED <<heap, strong, lock>>

\* ul_weak_lock of r into s: the relaxed load of strong_count.
LockLoad(r, s) ==
    /\ st[r] = "weak" /\ Idle(r) /\ st[s] = "null"
    /\ lock' = [lock EXCEPT ![s] = [from |-> r, current |-> strong[at[r]]]]
    /\ Become(s, "locking", at[r])
    /\ UNCHANGED <<heap, strong, weak>>

\* Mutants: promotion without the test for zero, and a store of current + 1 in
\* place of the compare-exchange.
LockSwapUnchecked(s) ==
    /\ st[s] = "locking" /\ strong[at[s]] = lock[s].current
    /\ strong' = [strong EXCEPT ![at[s]] = Incr(@)]
    /\ lock' = [lock EXCEPT ![s] = NoLock]
    /\ Become(s, "strong", at[s])
    /\ UNCHANGED <<heap, weak>>
LockStore(s) ==
    /\ st[s] = "locking" /\ lock[s].current > 0
    /\ strong' = [strong EXCEPT ![at[s]] = Incr(lock[s].current)]
    /\ lock' = [lock EXCEPT ![s] = NoLock]
    /\ Become(s, "strong", at[s])
    /\ UNCHANGED <<heap, weak>>

\* The compare-exchange of the loop succeeds, or reloads current and retries.
LockSwap(s) ==
    /\ st[s] = "locking" /\ lock[s].current > 0
    /\ strong[at[s]] = lock[s].current
    /\ strong' = [strong EXCEPT ![at[s]] = Incr(@)]
    /\ lock' = [lock EXCEPT ![s] = NoLock]
    /\ Become(s, "strong", at[s])
    /\ UNCHANGED <<heap, weak>>

LockRetry(s) ==
    /\ st[s] = "locking" /\ lock[s].current > 0
    /\ strong[at[s]] # lock[s].current
    /\ lock' = [lock EXCEPT ![s].current = strong[at[s]]]
    /\ UNCHANGED <<heap, strong, weak, st, at>>

\* The loop ends with current <= 0: ul_weak_lock returns NULL.
LockFail(s) ==
    /\ st[s] = "locking" /\ lock[s].current <= 0
    /\ lock' = [lock EXCEPT ![s] = NoLock]
    /\ Consume(s)
    /\ UNCHANGED <<heap, strong, weak>>

-----------------------------------------------------------------------------
\* A thread's choice to begin a call.
Call ==
    \/ \E r \in Local, o \in Object : Alloc(r, o)
    \/ \E r \in Local, s \in Ref : Retain(r, s)
    \/ \E r \in Local : Release(r)
    \/ \E r \in Local : WeakRelease(r)
    \/ \E r, s \in Local : WeakRetain(r, s)
    \/ \E r, s \in Local : LockLoad(r, s)

\* The rest of a call that releases a reference.
Finish(r) ==
    \/ DestructorRelease(r)
    \/ DestructorReturn(r)
    \/ ClearData(r)
    \/ DropSentinel(r)
    \/ FreeBlock(r)

\* The rest of a ul_weak_lock.
FinishLock(s) == LockSwap(s) \/ LockRetry(s) \/ LockFail(s)

Next ==
    \/ Call
    \/ \E r \in Ref : Finish(r)
    \/ \E s \in Local : FinishLock(s)

Spec == Init /\ [][Next]_vars

\* A thread inside a call keeps running; nothing makes it start a call.
Fairness ==
    /\ \A r \in Ref : WF_vars(Finish(r))
    /\ \A s \in Local : WF_vars(FinishLock(s))

FairSpec == Spec /\ Fairness

-----------------------------------------------------------------------------
\* The types, and that no count is ever decremented below zero or wraps.
TypeOK ==
    /\ heap \in [Object -> {"free", "live", "cleared"}]
    /\ strong \in [Object -> Nat]
    /\ weak \in [Object -> Nat]
    /\ st \in [Ref -> State]
    /\ at \in [Ref -> Object \cup {Null}]
    /\ lock \in [Local -> [from : Local \cup {Null}, current : Nat]]

\* Whoever holds a strong reference, or is about to run the destructor, finds
\* the data intact: no release of another thread cleared or freed it.
DataLiveWhileStrong ==
    \A r \in Ref : st[r] \in {"strong", "destructor", "memset"} => heap[at[r]] = "live"

\* Every pointer a variable or a running call still uses has its header
\* allocated: a weak reference keeps the header after the data is gone.
NoDanglingHeader ==
    \A r \in Ref : st[r] # "null" => at[r] # Null /\ heap[at[r]] # "free"

\* An object's death belongs to one release: two threads never both run the
\* destructor, drop the sentinel or free the block, and nobody holds a strong
\* reference to an object that is dying.
OneDestroyer ==
    \A q, r \in Ref :
        /\ st[q] \in Dying \cup {"free"} /\ st[r] \in Dying \cup {"free", "strong"}
        /\ at[q] = at[r]
        => q = r

\* strong_count is the number of owning references; weak_count is the number of
\* weak ones plus the sentinel, which the last release holds until it drops it.
CountsExact ==
    \A o \in Object : heap[o] # "free" =>
        /\ strong[o] = Cardinality(Pointing({"strong"}, o))
        /\ weak[o] = Cardinality(Pointing({"weak"} \cup Dying, o))
                     + (IF strong[o] > 0 THEN 1 ELSE 0)

\* A call that loses its last reference returns the block: an object nobody
\* points to any more is freed, by whichever thread was last, and not leaked.
UnreferencedIsFreed ==
    \A o \in Object :
        (heap[o] # "free" /\ Pointing({"strong", "weak"}, o) = {}) ~> heap[o] = "free"
-----------------------------------------------------------------------------
\* The abstract object behind the counts: alive while a reference is strong,
\* dying until its data is cleared, dead until its block is freed.
Phase(o) == IF heap[o] # "live" THEN (IF heap[o] = "cleared" THEN "dead" ELSE "free")
            ELSE IF Pointing({"strong"}, o) # {} THEN "live" ELSE "dying"

Life == INSTANCE ObjectLifetime WITH
    phase <- [o \in Object |-> Phase(o)],
    owners <- [o \in Object |-> Pointing({"strong"}, o)],
    watchers <- [o \in Object |-> Pointing({"weak"}, o)]

\* The library implements object lifetimes: however calls overlap, the counts
\* behave as the sets of references they stand for.
ImplementsLifetime == Life!LifeSpec
=============================================================================
