\* Passes cut short by quits, failed requests and a dying server, with the
\* phone and him writing meanwhile, each in a setting of its own.
SPECIFICATION Spec
CONSTANTS
    Files = {f1}
    MaxVersion = 2
    Chats = {c1, c2}
    NoChat = NoChat
    MaxRecords = 6
    MaxFaults = 2
    Settings <- Several
INVARIANTS
    MirrorIsTheMacs
    HomeWithItsSession
PROPERTIES
    StandsAtBothEnds
    ComesHome
CHECK_DEADLOCK FALSE
