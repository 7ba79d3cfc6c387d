\* A synchronous collector whose gray queue cannot grow; three objects make a
\* chain below the object whose entry is dropped.
CONSTANTS
    Object = {o1, o2, o3}
    Thread = {t}
    Mutators = {t}
    Callers = {t}
    Null = Null
    MayFail = TRUE
    MayShutdown = FALSE
    QueueMax = 3
SPECIFICATION Spec
INVARIANTS
    NoDanglingField
