------------------------- MODULE MCSessionAdmission -------------------------
EXTENDS SessionAdmission
Symmetry == Permutations(Sessions)
=============================================================================
