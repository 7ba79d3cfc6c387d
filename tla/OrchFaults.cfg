\* Two workers, who may die, one ordinary task, and a human who adds two decisions
\* and may resolve one; the server may fail to save at any time and is killed once.
CONSTANTS
    Worker = {w1, w2}
    Human = human
    Initial <- OneTask
    Titles = {y, z}
    Extra <- TwoDecisions
    Nobody = nobody
    Absent = absent
    Torn = torn
    None = none
    Faults = {"raise", "crash", "die"}
    CrashMax = 1
    NoteMax = 0
    ResolveMax = 1
SPECIFICATION Spec
SYMMETRY Symmetric
INVARIANTS
    OneWorkerPerTask
    AcknowledgedIsDurable
    TasksAreSound
PROPERTIES
    DoneStaysDone
CHECK_DEADLOCK FALSE
