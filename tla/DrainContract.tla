--------------------------- MODULE DrainContract ---------------------------
(***************************************************************************)
(* What the commit-completion tracker and close() promise: pieces of work  *)
(* are admitted while the database serves, each that was admitted ends,    *)
(* and the database is shut only after the last of them.                   *)
(***************************************************************************)
CONSTANT Tasks
VARIABLES phase, work

Init == phase = "serving" /\ work = {}

Admit == phase = "serving" /\ UNCHANGED phase /\ \E t \in Tasks \ work : work' = work \cup {t}
End == UNCHANGED phase /\ \E t \in work : work' = work \ {t}
Seal == phase = "serving" /\ phase' = "draining" /\ UNCHANGED work
Shut == phase = "draining" /\ work = {} /\ phase' = "shut" /\ UNCHANGED work

Spec == Init /\ [][Admit \/ End \/ Seal \/ Shut]_<<phase, work>>
=============================================================================
