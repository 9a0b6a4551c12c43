-------------------------- MODULE EntryOwnership --------------------------
(***************************************************************************)
(* What a build with a manager promises for each entry of the table: a     *)
(* server holds it, or nobody does while it changes hands.  The manager    *)
(* assigns entries to servers; it does so again only when every entry is   *)
(* where it was assigned.  The old server releases an entry before the new *)
(* one takes it.                                                           *)
(***************************************************************************)
EXTENDS Reassignment

CONSTANT None

VARIABLES assigned,  \* the assignments of the last redistribution
          holder     \* the server that accepts requests on an entry, or None

vars == <<assigned, holder>>

Init ==
  /\ assigned = InitialAssignments
  /\ holder = [e \in Entries |-> assigned[e].id_srv]

Redistribute(choices) ==
  /\ \A e \in Entries : holder[e] = assigned[e].id_srv
  /\ \E new \in choices :
       assigned' = [e \in Entries |-> Reassign(assigned[e], new[e])]
  /\ UNCHANGED holder

Release(e) ==
  /\ holder[e] \notin {None, assigned[e].id_srv}
  /\ holder' = [holder EXCEPT ![e] = None]
  /\ UNCHANGED assigned

Take(e) ==
  /\ holder[e] = None
  /\ holder' = [holder EXCEPT ![e] = assigned[e].id_srv]
  /\ UNCHANGED assigned

HandOver == \E e \in Entries : Release(e) \/ Take(e)

(* The DH build, and the indedh and windowed builds. *)
Next     == Redistribute(Relab(assigned)) \/ HandOver
NextMany == Redistribute(RelabMany(assigned)) \/ HandOver

Spec     == Init /\ [][Next]_vars
SpecMany == Init /\ [][NextMany]_vars
=============================================================================
