\* A turn of the phone begins and ends while a pull copies its chat.
SPECIFICATION Spec
CONSTANTS
    Files = {f1}
    MaxVersion = 2
    Chats = {c1}
    NoChat = NoChat
    MaxRecords = 6
    MaxFaults = 0
    Settings <- Window
INVARIANTS
    NothingLeftBehind
CHECK_DEADLOCK FALSE
