\* One thread that collects synchronously, so nothing mutates during a cycle;
\* three objects make chains, cycles and garbage.
CONSTANTS
    Object = {o1, o2, o3}
    Thread = {t}
    Mutators = {t}
    Callers = {t}
    Null = Null
    MayFail = FALSE
    MayShutdown = FALSE
    QueueMax = 3
SPECIFICATION Spec
SYMMETRY Symmetric
INVARIANTS
    Tricolor
PROPERTIES
    MarkingIsExact
