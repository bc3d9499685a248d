\* He opens another chat while a connect is under way.
SPECIFICATION AgentsSpec
CONSTANTS
    Ids = {a, b}
    OnDisk = {a}
    Commands = {c1, c2}
    Uses <- Free
    New = New
    MaxTalks = 1
    MaxFills = 2
SYMMETRY CommandSymmetry
INVARIANTS
    ResumesItsOwn
