------------------------- MODULE MCOperationBacklog -------------------------
EXTENDS OperationBacklog, TLC
Symmetry == Permutations(Entities) \cup Permutations(Ids) \cup Permutations(Producers)
=============================================================================
