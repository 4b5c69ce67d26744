SPECIFICATION FairSpec
CONSTANTS
    c1 = c1
    c2 = c2
    c3 = c3
    None = None
    Call = {c1, c2}
    MaxTag = 1
INVARIANTS
    TagsOwned
    OwnAnswerUnlessStale
PROPERTIES
    CallsReturn
    CloseIsFinal
CHECK_DEADLOCK FALSE
