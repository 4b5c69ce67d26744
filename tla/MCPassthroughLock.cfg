SPECIFICATION HostSpec
CONSTANTS
    n1 = n1  i1 = i1  i2 = i2  r1 = r1  r2 = r2
    Req = {r1, r2}
    Fd = {1, 2, 3, 4, 5}
    Ino = {i1, i2}
    Dir = Dir
    Entry = {n1}
    Nil = Nil
INVARIANTS
    LockLivesWithHandle
SYMMETRY Symmetric
CHECK_DEADLOCK FALSE
