-------------------------- MODULE MCIndexLifecycle --------------------------
(* Instances of IndexLifecycle for TLC. *)
EXTENDS IndexLifecycle

BothModes == {"automatic", "manual"}
=============================================================================
