\* Messages, changes and resumes of the phone while serve runs.
SPECIFICATION FairSpec
CONSTANTS
    a = a
    b = b
    None = None
    Forking = Forking
    Ids = {a, b}
    OnDisk = {a}
    Requests = {1, 2}
    Uses <- MCAll
    MaxPauses = 2
INVARIANT SlotIsTheTurns ChangesApart
INVARIANT ResumedOnce
PROPERTY ScheduledIsSettled
