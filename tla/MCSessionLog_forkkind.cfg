\* A fork cut before a switch of kind: violated.
SPECIFICATION Spec
CONSTANTS
    Kinds = {"build", "chat"}
    Words = {}
    Replies <- PlainReplies
    Attached = {0}
    Ops = {"stop", "kind", "rewind"}
    MaxEvents = 7
INVARIANT ForkReplaysTheCut
CHECK_DEADLOCK FALSE
