\* A cancel may be answered after the wait.
SPECIFICATION FairSpec
CONSTANTS
    Messages = {1}
    Settings <- Slow
PROPERTIES
    TurnEndsAtLast
CHECK_DEADLOCK FALSE
