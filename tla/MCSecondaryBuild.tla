--------------------------- MODULE MCSecondaryBuild ---------------------------
(* Instances of SecondaryBuild for TLC. *)
EXTENDS SecondaryBuild, TLC

CONSTANTS v1, v2

MCValues == {v1, v2}
MCEntities2 == 1..2
MCEntities3 == 1..3
OnlyCurrent == {"current"}
OnlyLegacy == {"legacy"}
Symmetry == Permutations(MCValues)
=============================================================================
