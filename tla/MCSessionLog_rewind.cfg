\* Rewinds, restores, elisions and rewordings, with files or without, around a
\* tool round that may be cut short, with compactions and switches of kind.
SPECIFICATION Spec
CONSTANTS
    Kinds = {"build", "chat"}
    Words = {"w1"}
    Replies <- RoundReplies
    Attached = {0, 1}
    Ops = {"stop", "stand_in", "compact", "kind", "rewind", "unrewind", "elide", "edit", "unelide"}
    MaxEvents = 6
INVARIANTS
    TypeOK
    NextRequestIsRight
    LiveMarkersTargetLive
    UnrewindUndoesRewind
CHECK_DEADLOCK FALSE
