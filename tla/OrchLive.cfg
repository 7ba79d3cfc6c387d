\* Two workers, three tasks and no faults; the human may resolve what is blocked
\* or for her to decide, but need not.  The system stops when the workers have
\* been told to and the human rests.
CONSTANTS
    Worker = {w1, w2}
    Human = human
    Initial <- ThreeTasks
    Titles = {}
    Extra = {}
    Nobody = nobody
    Absent = absent
    Torn = torn
    None = none
    Faults = {}
    CrashMax = 0
    NoteMax = 1
    ResolveMax = 2
SPECIFICATION FairSpec
PROPERTIES
    InitialTasksAreAttempted
CHECK_DEADLOCK FALSE
