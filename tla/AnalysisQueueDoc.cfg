CONSTANTS
    t1 = t1
    t2 = t2
    t3 = t3
    w1 = w1
    Tracks = {t1, t2, t3}
    Waiters = {w1}
    Replaceable = {}
    Deletable = {}
    maxRunning = 2
    maxBackground = 1
SPECIFICATION Spec
PROPERTY BackgroundLeavesASlot
