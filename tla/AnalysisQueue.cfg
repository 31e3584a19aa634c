CONSTANTS
    t1 = t1
    t2 = t2
    t3 = t3
    w1 = w1
    w2 = w2
    Tracks = {t1, t2, t3}
    Waiters = {w1, w2}
    Replaceable = {}
    Deletable = {t1}
    maxRunning = 2
    maxBackground = 1
SPECIFICATION Spec
SYMMETRY Interchangeable
INVARIANTS TypeOK CalledOnce SlotsAccounted QueuesMatchJobs NoIdleSlot
PROPERTIES NoOvertaking NothingStartsAfterClose
