\* Matches with cases that are literals, names and calls.
CONSTANTS
    Program <- Matches
    Levels <- AllLevels
    Inputs <- Starts
    ParamTypes <- Types
    Functions <- Arities
SPECIFICATION Spec
INVARIANT CasesAreTold
\* A function that has returned, or was not translated, does nothing more.
CHECK_DEADLOCK FALSE
