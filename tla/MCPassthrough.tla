--------------------------- MODULE MCPassthrough ---------------------------
EXTENDS Passthrough, TLC

CONSTANTS n1, i1, i2, r1, r2

Symmetric == Permutations(Req) \cup Permutations(Ino)
=============================================================================
