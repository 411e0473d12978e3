-------------------------- MODULE MCSessionRuntime --------------------------
EXTENDS SessionRuntime, TLC
Symmetry == Permutations(Callers) \cup Permutations(Clients)
=============================================================================
