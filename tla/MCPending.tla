----------------------------- MODULE MCPending -----------------------------
(***************************************************************************)
(* Model-checking instance of Pending.  Generations and cancellers are     *)
(* model values, interchangeable among themselves.                         *)
(***************************************************************************)
EXTENDS Pending, TLC

Symmetry == Permutations(Generations) \cup Permutations(Cancellers)
=============================================================================
