CONSTANTS
    t1 = t1
    c1 = c1
    Tracks = {t1}
    Clients = {c1}
    Lockable = {}
    Importable = {}
    MaxResultBytes = 1
    MaxMade = 1
SPECIFICATION Spec
INVARIANT StampedAsFit
