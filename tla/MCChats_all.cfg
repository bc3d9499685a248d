\* Every command, in every order; and three at once with one writer a log.
SPECIFICATION Spec
CONSTANTS
    Ids = {a, b, c}
    OnDisk = {a}
    Commands = {c1, c2, c3}
    Extra = {c3}
    Settings <- Ways
    New = New
    MaxLength = 2
SYMMETRY Symmetry
INVARIANTS
    NewMessageInNewChat
    HeldWhileNeeded
PROPERTIES
    OnlyOpeningMovesTheFocus
CHECK_DEADLOCK FALSE
