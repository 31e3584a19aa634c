CONSTANTS
    m1 = m1
    m2 = m2
    c1 = c1
    Mutators = {m1, m2}
    Callers = {c1}
    MaxVersion = 3
SPECIFICATION FairSpec
INVARIANTS TypeOK SavedIsInFile CleanMeansSaved CloseKeepsMarked
PROPERTIES ImplementsDurableCell QuietAfterClose EventuallySaved CloseReturns
