\* Reference counts: four variables let two releases, a weak lock and a weak release
\* overlap on one object, two objects let a destructor release another.  Arena: blocks
\* of two and a half units and requests from nothing to three, so that requests fit,
\* fill a block, need a new one and need a larger one.  Collector: one thread, a queue
\* that may fail to grow, and a shutdown at any point between two calls.  No symmetry,
\* since liveness is checked.
CONSTANTS
    Object = {o1, o2}
    Local = {a, b, c, d}
    Null = Null
    CountMax = 10
    Word = 128
    Align = 4
    InitialSize = 10
    DefaultSize = 8
    Sizes = {0, 1, 4, 7, 11}
    Bases = {4, 16, 28, 40}
    BlockMax = 3
    Thread = {t}
    Mutators = {t}
    Callers = {t}
    MayFail = TRUE
    MayShutdown = TRUE
    QueueMax = 2
SPECIFICATION MemorySpec
INVARIANTS
    DataLiveWhileStrong
    NoDanglingHeader
    OneDestroyer
    CountsExact
    RegionsAreDisjoint
    NothingLeaks
PROPERTIES
    ImplementsLifetime
    UnreferencedIsFreed
    CollectReturns
\* A cycle of reference-counted fields leaks: with every object in one and no local
\* left, the program has nothing to allocate and nothing to release.  After the
\* collector's final sweep there is nothing to do either.
CHECK_DEADLOCK FALSE
