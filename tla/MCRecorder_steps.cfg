\* A subagent speaks between the results of two calls of one round.
SPECIFICATION RecSpec
CONSTANTS
    Kinds = {"build"}
    Words = {"w1"}
    Replies <- HandleReplies
    Attached = {0, 1}
    Ops = {"stop", "stand_in", "rewind", "elide", "elide_block", "unelide_block", "edit", "edit_block"}
    MaxEvents = 6
    MaxHeard = 5
    MaxCalls = 2
    MaxTurns = 2
    Settings <- Steps
INVARIANT ReplayIsValid
CHECK_DEADLOCK FALSE
