\* He may stop the turn.
SPECIFICATION FairSpec
CONSTANTS
    Messages = {1}
    Settings <- Stopped
INVARIANTS
    GivenOnce
CHECK_DEADLOCK FALSE
