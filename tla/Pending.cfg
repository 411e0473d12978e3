SPECIFICATION Spec
CONSTANTS
    Generations = {g1, g2, g3}
    Cancellers = {c1, c2}
    Cap = 1
    MaxRequests = 3
SYMMETRY Symmetry
INVARIANTS TableConsistent ResponsesOnce CancelWrittenOnce
