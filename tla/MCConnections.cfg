SPECIFICATION Spec
CONSTANTS
    p1 = p1  p2 = p2  p3 = p3  l1 = l1  l2 = l2  s1 = s1  s2 = s2  s3 = s3
    Proc = {p1, p2, p3}
    Link = {l1, l2}
    Nil = Nil
    Sock = {s1, s2, s3}
    MaxConnections = 1
INVARIANTS
    OneDial
    NoConnLeak
    LimitHeld
PROPERTIES
    
    ServeEnds
CHECK_DEADLOCK FALSE
