\* Turns on Claude Code and on a provider, with his removals and edits of
\* blocks between them.
SPECIFICATION RecSpec
CONSTANTS
    Kinds = {"build"}
    Words = {"w1"}
    Replies <- HandleReplies
    Attached = {0}
    Ops = {"stop", "stand_in", "rewind", "elide", "elide_block", "unelide_block", "edit", "edit_block"}
    MaxEvents = 6
    MaxHeard = 4
    MaxCalls = 2
    MaxTurns = 2
    Settings <- Engines
INVARIANTS
    NextRequestIsRight
    UndoneExactly
    WrittenAsHeard
CHECK_DEADLOCK FALSE
