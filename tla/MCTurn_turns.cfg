\* One turn of two rounds of up to three calls, and two turns of one chat; a Stop
\* or a death at any step, and a provider that may never answer.
SPECIFICATION FairSpec
CONSTANTS
    Effect <- Tools
    CompactTool = "compact_context"
    TodoTool = "todo_write"
    Plans <- Both
    AutoTitle = TRUE
    MaxRounds = 2
    MaxSaid = 100
INVARIANTS
    EverythingIsAnswered
    WritesRunAlone
PROPERTIES
    CompactsWhenAskedThisTurn
    StopCutsTheTurn
    RecordsAnExchange
CHECK_DEADLOCK FALSE
