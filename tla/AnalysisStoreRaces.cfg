CONSTANTS
    t1 = t1
    c1 = c1
    c2 = c2
    Tracks = {t1}
    Clients = {c1, c2}
    Lockable = {}
    Importable = {t1}
    MaxResultBytes = 1
    MaxMade = 2
SPECIFICATION Spec
CONSTRAINT StillClaimed
SYMMETRY Interchangeable
INVARIANTS StoredIsServed ChosenIsInFile
