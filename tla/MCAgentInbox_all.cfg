\* Messages sent into a turn, whatever becomes of it.
SPECIFICATION FairSpec
CONSTANTS
    Messages = {1, 2}
    Settings <- All
INVARIANTS
    NothingLost
    ReadOnce
    StillOnItsWay
PROPERTIES
    TurnIsOver
CHECK_DEADLOCK FALSE
