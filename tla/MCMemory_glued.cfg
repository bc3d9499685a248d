\* remember is called while a capture appends.
SPECIFICATION Spec
CONSTANTS
    Processes = {p1, p2}
    NoProcess = NoProcess
    Logs = {l1, l2}
    Tools = {r1}
    MaxLines = 2
    MaxEdits = 2
    MaxProposals = 2
    MaxFaults = 1
    Settings <- Gluing
INVARIANTS
    RememberedIsRead
CHECK_DEADLOCK FALSE
