--------------------------- MODULE MCConnections ---------------------------
EXTENDS Connections

CONSTANTS p1, p2, p3, l1, l2, s1, s2, s3
=============================================================================
