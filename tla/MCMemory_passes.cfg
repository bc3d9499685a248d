\* Captures and dreams of two processes, ended early anywhere, with remember
\* called meanwhile or the always-loaded file edited.
SPECIFICATION Spec
CONSTANTS
    Processes = {p1, p2}
    NoProcess = NoProcess
    Logs = {l1, l2}
    Tools = {r1}
    MaxLines = 2
    MaxEdits = 2
    MaxProposals = 2
    MaxFaults = 1
    Settings <- Several
INVARIANTS
    NothingPassedOver
    OnceEach
    InstructionsStayHis
PROPERTIES
    EverythingFiled
CHECK_DEADLOCK FALSE
