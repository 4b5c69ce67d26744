CONSTANTS
    w1 = w1  w2 = w2  w3 = w3  w4 = w4
    t1 = t1  t2 = t2
    Nil = Nil
    Free = Free
    Worker = {w1, w2, w3}
    Ctx = {w1, w2, w3}
    Flush = {w1, w2, w3}
    Drainer <- MCDrainer
    Tag = {t1}
    MaxInflight = 2
    MaxFrames = 3
SPECIFICATION FairSpec
INVARIANTS
    ReceivePath
    DrainAccounting
    SweptAreDrained
PROPERTIES
    ShutsDown
