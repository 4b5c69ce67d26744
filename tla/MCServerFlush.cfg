CONSTANTS
    t1 = t1  t2 = t2
    r1 = r1  r2 = r2  r3 = r3
    f1 = f1  f2 = f2
    c1 = c1  c2 = c2  c3 = c3
    Nil = Nil
    None = None
    Tag = {t1}
    Req = {r1, r2}
    Flush = {f1, f2}
    Ctx = {c1, c2}
    Drainer = {}
SPECIFICATION FairSpec
INVARIANTS
    WaiterReleasedOnce
    EntryHasOwner
    OnlyTargetCancelled
    RflushLastOnceStarted
PROPERTY FlushAnswered
CHECK_DEADLOCK FALSE
