\* A Stop at the end of a turn whose chat is named.
SPECIFICATION FairSpec
CONSTANTS
    Effect <- Tools
    CompactTool = "compact_context"
    TodoTool = "todo_write"
    Plans <- Short
    AutoTitle = TRUE
    MaxRounds = 2
    MaxSaid = 100
PROPERTIES
    StopEndsTheTurn
CHECK_DEADLOCK FALSE
