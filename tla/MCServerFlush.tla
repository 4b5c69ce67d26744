--------------------------- MODULE MCServerFlush ---------------------------
EXTENDS ServerFlush, TLC

CONSTANTS t1, t2, r1, r2, r3, f1, f2, c1, c2, c3

\* Requests, contexts and Tflush handlers of the instance are interchangeable.
Symmetry == Permutations(Req) \cup Permutations(Ctx) \cup Permutations(Flush)
              \cup Permutations(Tag)
=============================================================================
