-------------------------- MODULE MCDatabaseClose --------------------------
(* Bounded instances of DatabaseClose for TLC. *)
EXTENDS DatabaseClose

TwoWorkers == <<"index", "warm">>
=============================================================================
