CONSTANTS
    t1 = t1
    t2 = t2
    r0 = r0
    Tracks = {t1, t2}
    Values = {r0, r1}
    Default = r0
    Banks = {b1}
    MaxID = 5
    None = None
    Collection = Collection
    Start <- MCStart
    MaxDrafts = 2
    MaxRequests = 2
    MaxEvents = 2
SPECIFICATION Spec
INVARIANTS TypeOK ActsOnWhatItNamed FoldersFormATree RulesStayTheirOwn PreviewIsOfRules NoTrackTwice
CHECK_DEADLOCK FALSE
