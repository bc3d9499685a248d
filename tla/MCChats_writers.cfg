\* A rename between the read of a chat being opened and its opening.
SPECIFICATION Spec
CONSTANTS
    Ids = {a}
    OnDisk = {a}
    Commands = {c1, c2}
    Extra = {}
    Settings <- Renames
    New = New
    MaxLength = 3
SYMMETRY Symmetry
INVARIANTS
    HeldCopyIsTheLog
CHECK_DEADLOCK FALSE
