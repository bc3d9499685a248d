\* What he writes on the phone, lost, resent, refused or answered late.
SPECIFICATION FairSpec
CONSTANTS
    plain = plain
    photo = photo
    None = None
    Texts = {plain, photo}
    Photos = {photo}
    Words <- MCWords
    Slots = {1, 2}
    Worlds <- MCWorlds
    MaxNonces = 2
    MaxLosses = 1
CHECK_DEADLOCK FALSE
INVARIANT NonceOnce MessageOnce
INVARIANT KeptUntilTaken
PROPERTY HeldGoes
