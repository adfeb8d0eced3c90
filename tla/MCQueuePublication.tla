------------------------ MODULE MCQueuePublication ------------------------
(* Instances of QueuePublication for TLC. *)
EXTENDS QueuePublication, TLC

CONSTANTS a, b

MCEntities == {a, b}
OneEntity == {a}
BothFamilies == {"vector", "text"}
TextOnly == {"text"}
AllKinds == {"fit", "big", "bad"}
FitOrBig == {"fit", "big"}
AnyOwner == {"Building", "Active", "Retired"}
ActiveOnly == {"Active"}
OneOrAll == {1, MaxOps}
All == {MaxOps}
Swap == Permutations({a, b})
===========================================================================
