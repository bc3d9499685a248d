\* The gauge after a turn that ended before a reply: violated.
SPECIFICATION Spec
CONSTANTS
    Kinds = {"build"}
    Words = {}
    Replies <- PlainReplies
    Attached = {0}
    Ops = {"stop", "stand_in"}
    MaxEvents = 7
INVARIANT GaugeReadsTheWire
CHECK_DEADLOCK FALSE
