CONSTANTS
    Tracks = {1}
    Values = {0, 1}
    Blank = 0
    ForceEvery = 2
    MaxPolls = 2
    MaxRequests = 1
    MaxEvents = 2
SPECIFICATION FairSpec
INVARIANTS TypeOK CaughtUp PendingColourShown
PROPERTIES EventuallyFresh
CHECK_DEADLOCK FALSE
