\* Every program at every level of normalization, from the tree to its output.
CONSTANTS
    Program <- Programs
    Inputs <- Starts
    Params <- XYA
    MaxSteps = 300
SPECIFICATION Spec
INVARIANTS
    RunsAsWritten
    FrameIsSafe
    TempsBalance
    NormalForm
\* A function that has returned does nothing more.
CHECK_DEADLOCK FALSE
