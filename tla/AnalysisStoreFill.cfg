CONSTANTS
    t1 = t1
    c1 = c1
    c2 = c2
    Tracks = {t1}
    Clients = {c1, c2}
    Lockable = {}
    Importable = {}
    MaxResultBytes = 1
    MaxMade = 1
SPECIFICATION Spec
PROPERTY KeepsWhatWasStored
