SPECIFICATION Spec
CONSTANTS
    g1 = g1  g2 = g2
    f1 = f1  f2 = f2  f3 = f3
    None = None
    Caller = {g1, g2}
    File = {f1, f2}
    MaxFid = 3
    ReuseCap = 2
SYMMETRY Symmetry
INVARIANTS
    ReleasedIsIdleUnlessCancelled
    FidOwned
    NoFidLeakUnlessUnconfirmed
