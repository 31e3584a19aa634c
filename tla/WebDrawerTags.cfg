CONSTANTS
    Tracks = {t1, t2}
    Flat = {t2}
    Tags = {g1}
    MaxOpens = 2
    MaxRequests = 1
    MaxEvents = 4
SPECIFICATION Spec
INVARIANTS TagEditsWaitForLoad
CHECK_DEADLOCK FALSE
