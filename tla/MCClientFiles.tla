---------------------------- MODULE MCClientFiles ---------------------------
(* Small instances of ClientFiles for TLC. *)
EXTENDS ClientFiles, TLC

CONSTANTS g1, g2, f1, f2, f3

Symmetry == Permutations(Caller)
=============================================================================
