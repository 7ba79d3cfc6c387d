------------------------------- MODULE Memory --------------------------------
(***************************************************************************)
(* The memory modes of a program (ul_memory.h): its objects live under     *)
(* exactly one of the runtimes, chosen when it is compiled.  Those that    *)
(* keep a state of their own are composed here; the collector is the one   *)
(* whose gray queue may fail to grow and which may be shut down.           *)
(***************************************************************************)
EXTENDS RefCount, Sequences

CONSTANTS
    Word, Align, InitialSize, DefaultSize, Sizes, Bases, BlockMax,   \* of Arena
    Thread, Mutators, Callers, MayFail, MayShutdown, QueueMax        \* of GC

VARIABLES
    mode,                                          \* which UL_MEMORY_ macro is defined
    chain, first, blockSize, mallocs, live,        \* of Arena
    phase, alive, list, color, field, queue, running, request, done, gc, th, roots,
    begun, served                                  \* of GC

arenaVars == <<chain, first, blockSize, mallocs, live>>
gcVars == <<phase, alive, list, color, field, queue, running, request, done, gc, th, roots, begun, served>>
memoryVars == <<mode, vars, arenaVars, gcVars>>

A == INSTANCE Arena
G == INSTANCE GC

ASSUME MemoryAssumption == A!ArenaParameters

Modes == {"refcount", "arena", "gc"}

MemoryInit == mode \in Modes /\ Init /\ A!Init /\ G!Init

RefCountStep == mode = "refcount" /\ Next /\ UNCHANGED <<mode, arenaVars, gcVars>>
ArenaStep == mode = "arena" /\ A!Next /\ UNCHANGED <<mode, vars, gcVars>>
CollectorStep == mode = "gc" /\ G!Collector /\ UNCHANGED <<mode, vars, arenaVars>>
ThreadContinues(t) == mode = "gc" /\ G!Continue(t) /\ UNCHANGED <<mode, vars, arenaVars>>
ProgramStep ==
    /\ mode = "gc"
    /\ G!Shutdown \/ \E t \in Thread : G!Begin(t)
    /\ UNCHANGED <<mode, vars, arenaVars>>

MemoryNext ==
    \/ RefCountStep \/ ArenaStep \/ CollectorStep \/ ProgramStep
    \/ \E t \in Thread : ThreadContinues(t)

\* In each mode, what is begun goes on: the releases that are under way, the
\* collector, and the threads inside of a call.
MemorySpec ==
    /\ MemoryInit /\ [][MemoryNext]_memoryVars
    /\ Fairness
    /\ WF_memoryVars(CollectorStep)
    /\ \A t \in Thread : WF_memoryVars(ThreadContinues(t))

-----------------------------------------------------------------------------
\* ul_arena.c: what is returned for a request is the caller's alone.
RegionsAreDisjoint == A!TypeOK /\ A!RegionsAreDisjoint

\* ul_arena.c: every block is found again when the arena is freed.
NothingLeaks == A!NothingLeaks

\* ul_gc.c: every requested collection completes and wakes its caller.
CollectReturns == G!CollectReturns
=============================================================================
