\* Three restarts, writes that fail at every point, one damaged line.
SPECIFICATION Spec
CONSTANTS
    MaxEvents = 4
    MaxLoads = 3
    MaxDamage = 1
INVARIANTS
    MarkersKeepTheirAim
PROPERTIES
    KeepsThePromise
CHECK_DEADLOCK FALSE
