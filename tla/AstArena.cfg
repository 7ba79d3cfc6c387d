\* Six strings make a table of four slots grow twice.  Both pools grow, the child pool
\* past its double, or fail to; the longest list is longer than its count can say.
CONSTANTS
    Str <- Strings
    Null = null
    Hash <- HashOf
    Length <- LengthOf
    InitSlots = 4
    InitBytes = 4
    MayFail = TRUE
    InitNodes = 2
    InitChildren = 1
    MaxCount = 2
    MaxNodes = 3
    MaxLists = 3
    MaxLength = 3
SPECIFICATION ArenaSpec
INVARIANTS
    InternedIsReachable
    TableIsConsistent
    ListsReadBack
    PoolsAreSound
PROPERTIES
    ImplementsInterner
\* The bounds are reached, or the arena is destroyed: nothing is left to do.
CHECK_DEADLOCK FALSE
