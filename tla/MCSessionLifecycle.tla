------------------------- MODULE MCSessionLifecycle -------------------------
EXTENDS SessionLifecycle, TLC
\* A session as Start registers it (INITIALIZING), and as the scenario runner can,
\* in a state that no intent explains (DRAINING).
MCRegistrations ==
    [generation : {1}, state : {Initializing, Draining}, reaped : {FALSE}]
Symmetry == Permutations(Callers)
=============================================================================
