\* A two-slot array that may double twice: growth happens with head at the front
\* and past it, and compaction with zero, one and several entries left.
CONSTANTS
    Object = {a, b}
    Garbage = Garbage
    InitialCap = 2
    CapMax = 8
SPECIFICATION Spec
INVARIANTS
    NoGarbage
PROPERTIES
    ImplementsFifo
