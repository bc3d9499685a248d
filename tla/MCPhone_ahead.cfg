\* He writes on while a message is on its way, and it is refused.
SPECIFICATION FairSpec
CONSTANTS
    plain = plain
    photo = photo
    None = None
    Texts = {plain, photo}
    Photos = {}
    Words <- MCWords
    Slots = {1, 2}
    Worlds = {{"ahead", "refuses"}}
    MaxNonces = 2
    MaxLosses = 1
CHECK_DEADLOCK FALSE
INVARIANT Kept
