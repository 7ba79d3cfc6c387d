\* One thread mutates while another collects: the barrier, the allocator and the
\* sweep interleave at each atomic access; the collector may be shut down at any
\* point between two calls.
CONSTANTS
    Object = {o1, o2}
    Thread = {m, c}
    Mutators = {m}
    Callers = {c}
    Null = Null
    MayFail = FALSE
    MayShutdown = TRUE
    QueueMax = 4
SPECIFICATION Spec
SYMMETRY Symmetric
INVARIANTS
    HeapIsConsistent
    GrayIsPending
    CollectIsSynchronous
PROPERTIES
    ExposedByStaleStores
\* After the collector's final sweep nothing is left to do.
CHECK_DEADLOCK FALSE
