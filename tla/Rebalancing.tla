---------------------------- MODULE Rebalancing ----------------------------
(***************************************************************************)
(* What the rest of the system sees of a manager and its relab             *)
(* computation: the assignments all processes agree on between two         *)
(* redistributions, and the redistributions.                               *)
(***************************************************************************)
EXTENDS Reassignment

VARIABLE assigned

Init == assigned = InitialAssignments

Redistribute(choices) ==
  \E new \in choices :
    assigned' = [e \in Entries |-> Reassign(assigned[e], new[e])]

(* The DH build, and the indedh and windowed builds. *)
Spec     == Init /\ [][Redistribute(Relab(assigned))]_assigned
SpecMany == Init /\ [][Redistribute(RelabMany(assigned))]_assigned
=============================================================================
