SPECIFICATION TreeSpec
CONSTANTS
    w1 = w1  w2 = w2  w3 = w3
    o0 = o0  o1 = o1  o2 = o2
    x = x  y = y
    None = None
    Any = Any
    Worker = {w1, w2, w3}
    Obj = {o0, o1, o2}
    Root = o0
    Name = {x, y}
INVARIANTS
    NobodyStuckUnlessRebound
PROPERTIES
    TreeUnlessOverlap
    
CHECK_DEADLOCK FALSE
