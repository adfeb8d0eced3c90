---------------------------- MODULE MCScopeGates ----------------------------
(* Instances of ScopeGates for TLC. *)
EXTENDS ScopeGates, TLC

Symmetry == Permutations(Requests) \cup Permutations(Drops)
=============================================================================
