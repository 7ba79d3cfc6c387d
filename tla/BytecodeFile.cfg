\* Immediates up to 15, or 31 without a condition, and registers up to 7, so that a
\* program can have more constants, longer loops and more variables than they count.
CONSTANTS
    Programs <- AllPrograms
    TagOf <- Tags
    ImmMax = 15
    JumpMax = 31
    RegMax = 7
SPECIFICATION FileSpec
INVARIANTS
    ProgramIsRead
    DebugIsRead
\* A file that was read is done with, and so is a program that is not compiled.
CHECK_DEADLOCK FALSE
