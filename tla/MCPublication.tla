---------------------------- MODULE MCPublication ----------------------------
EXTENDS Publication, TLC

CONSTANTS c1, c2, c3, p1, p2

\* c1 and c2 are goroutines of one process, c3 belongs to another.
MCProcessOf == [c \in Callers |-> IF c = c3 THEN p2 ELSE p1]

\* Byte strings are interchangeable.
Perms == Permutations(Artifacts)
=============================================================================
