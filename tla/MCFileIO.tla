------------------------------ MODULE MCFileIO ------------------------------
EXTENDS FileIO

CONSTANTS na, nb, nc, dot, dotdot, p1, p2, w1, w2, w3, b1, b2, b3

Callers == Permutations(Proc)
MCWidth == na :> 1 @@ nb :> 1 @@ nc :> 2
MCSlot == dot :> 1 @@ na :> 2 @@ dotdot :> 3 @@ nb :> 4 @@ nc :> 5
=============================================================================
