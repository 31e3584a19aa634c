CONSTANTS
    t1 = t1
    t2 = t2
    c1 = c1
    Tracks = {t1, t2}
    Clients = {c1}
    Lockable = {t1}
    Importable = {t1}
    MaxResultBytes = 2
    MaxMade = 1
SPECIFICATION Spec
INVARIANTS TypeOK LRUMatches StoredIsServed ChosenIsInFile
