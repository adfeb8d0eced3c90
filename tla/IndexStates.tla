---------------------------- MODULE IndexStates ----------------------------
(***************************************************************************)
(* What the index lifecycle promises about each index: it is built, serves *)
(* and is dropped in that order, a build that is given up never serves,    *)
(* and every build has a generation of its own.                            *)
(***************************************************************************)
EXTENDS Naturals
CONSTANT Indexes
VARIABLES state, generation

Init ==
  /\ state = [i \in Indexes |-> "Absent"]
  /\ generation = [i \in Indexes |-> 0]

Move(i, from, to) ==
  /\ state[i] = from /\ state' = [state EXCEPT ![i] = to]
  /\ UNCHANGED generation

Create(i) ==
  /\ state[i] \in {"Absent", "Dropped"}
  /\ state' = [state EXCEPT ![i] = "Building"]
  /\ generation' = [generation EXCEPT ![i] = @ + 1]

Next ==
  \E i \in Indexes :
    \/ Create(i)
    \/ Move(i, "Building", "Active") \/ Move(i, "Active", "Dropping")
    \/ Move(i, "Building", "Aborting") \/ Move(i, "Aborting", "Dropped")
    \/ Move(i, "Dropping", "Dropped")

Spec == Init /\ [][Next]_<<state, generation>>
=============================================================================
