\* A delete inside focus_held, and one while a message is on its way to the chat.
SPECIFICATION Spec
CONSTANTS
    Ids = {a}
    OnDisk = {a}
    Commands = {c1, c2}
    Extra = {}
    Settings <- Deletes
    New = New
    MaxLength = 3
SYMMETRY Symmetry
INVARIANTS
    FocusIsHeld
    NoTurnInTheTrash
CHECK_DEADLOCK FALSE
