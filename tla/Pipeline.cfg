\* Every function, at every level of normalization, in every target.
CONSTANTS
    Program <- Programs
    Levels <- AllLevels
    Inputs <- Starts
    ParamTypes <- Types
    Functions <- Arities
SPECIFICATION Spec
INVARIANTS
    ReadAsWritten
    PrintedIsRead
    DoesWhatItSays
    CheckedNamesAreBound
    CheckedMainReturns
    VerdictIsKept
    BlocksAreWellFormed
\* A function that has returned, or was not translated, does nothing more.
CHECK_DEADLOCK FALSE
