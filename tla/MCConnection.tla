---------------------------- MODULE MCConnection ----------------------------
EXTENDS Connection

\* No descendant is left, or one that logs, or one with everything.
AnyLegacy == {{}, {"stderr"}, Pipes}
=============================================================================
