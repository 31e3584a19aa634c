CONSTANTS
    t1 = t1
    t2 = t2
    t3 = t3
    w1 = w1
    Tracks = {t1, t2, t3}
    Waiters = {w1}
    Replaceable = {t1}
    Deletable = {}
    maxRunning = 1
    maxBackground = 1
SPECIFICATION FairSpec
PROPERTIES KeepsGiven ForegroundServed ImplementsAnswerService
