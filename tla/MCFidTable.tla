----------------------------- MODULE MCFidTable -----------------------------
(* Small instances of FidTable for TLC. *)
EXTENDS FidTable, TLC

CONSTANTS p1, p2, p3, a, b, o1, o2, o3, o4, n0, n1, n2, h1, h2

Symmetry == Permutations(Op) \cup Permutations(Fid)
=============================================================================
