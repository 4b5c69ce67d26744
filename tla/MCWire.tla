------------------------------- MODULE MCWire -------------------------------
\* Wire with nine-valued bytes: a uint16 holds 80, so the longest string, the
\* largest stat and the wrap of nstat are all reached.
EXTENDS Wire
=============================================================================
