--------------------------- MODULE MCIdAllocator ---------------------------
(* Bounded instances of IdAllocator for TLC. *)
EXTENDS IdAllocator, TLC

CallerSymmetry == Permutations(Callers)
=============================================================================
