SPECIFICATION Spec
CONSTANTS
    na = na  nb = nb  nc = nc  dot = dot  dotdot = dotdot
    Name = {na, nb, nc}
    Width <- MCWidth
    Header = 1
    Counts = {2, 4}
    Batches = {0, 2}
    Dots = {dot, dotdot}
    Slot <- MCSlot
    RawEntries = 3
    Offsets = {0, 2}
    MaxChanges = 1
    p1 = p1  p2 = p2  w1 = w1  w2 = w2  w3 = w3  b1 = b1  b2 = b2  b3 = b3
    Proc = {p1, p2}
    Worker = {w1, w2, w3}
    Buf = {b1, b2, b3}
    None = None
    Junk = Junk  Old = Old  Zero = Zero
    Msize = 4
    RHeader = 1
    IOOverhead = 2
    Hints = {0, 1}
    MaxFile = 3
    FirstSize = 2
    Sizes = {0, 3}
    Lens = {2}
    Offs = {1}
    MaxCalls = 2
    MaxSets = 1
INVARIANTS
    CountHonest
    ReadDirBounded
    ListingExactUnlessWideOrShared
    SizeFreshUnlessOverlap
PROPERTIES
    CursorExact
    
SYMMETRY Callers
CHECK_DEADLOCK FALSE
