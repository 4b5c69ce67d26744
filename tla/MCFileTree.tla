----------------------------- MODULE MCFileTree -----------------------------
EXTENDS FileTree

CONSTANTS w1, w2, w3, o0, o1, o2, x, y
=============================================================================
