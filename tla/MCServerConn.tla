---------------------------- MODULE MCServerConn ----------------------------
EXTENDS ServerConn, TLC

CONSTANTS w1, w2, w3, w4, t1, t2

MCDrainer == Worker \cup {Free}

Symmetry == Permutations(Worker) \cup Permutations(Tag)
=============================================================================
