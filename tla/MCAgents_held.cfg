\* The window used with care: one command of the rail or the list at a time.
SPECIFICATION AgentsSpec
CONSTANTS
    Ids = {a, b}
    OnDisk = {}
    Commands = {c1, c2}
    Uses <- Held
    New = New
    MaxTalks = 1
    MaxFills = 2
SYMMETRY Symmetry
INVARIANTS
    OwnAgents
    CalmlyResumesTheLogs
PROPERTIES
    OnlyItsOwnTimer
