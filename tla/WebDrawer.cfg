CONSTANTS
    Tracks = {t1, t2}
    Flat = {t2}
    Tags = {g1}
    MaxOpens = 2
    MaxRequests = 1
    MaxEvents = 4
SPECIFICATION FairSpec
INVARIANTS TypeOK ShownIsSelected NeverWiped PaneIsOfShown WaveMatchesStyle
PROPERTIES OpenedIsDrawn
CHECK_DEADLOCK FALSE
