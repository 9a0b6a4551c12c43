--------------------------- MODULE Reassignment ---------------------------
(***************************************************************************)
(* What a relab computation may do to a table of assignments.  The manager *)
(* of every dynamic build splits the servers into overloaded ones, which   *)
(* give entries, and underloaded ones, which get them.                     *)
(***************************************************************************)
EXTENDS Mlt

Moved(t, new) == {e \in Entries : new[e] # t[e].id_srv}

(* No server both gives and gets entries. *)
RelabMany(t) ==
  {new \in [Entries -> Servers] :
     \A e, f \in Moved(t, new) : new[e] # t[f].id_srv}

(* In the DH build a server moreover gives all it gives to one other server. *)
Relab(t) ==
  {new \in RelabMany(t) :
     \A e, f \in Moved(t, new) : t[e].id_srv = t[f].id_srv => new[e] = new[f]}

(* Faulty variant: a moved entry keeps its version. *)
ReassignSameVersion(line, srv) == [id_srv |-> srv, n_ver |-> line.n_ver]

(* A moved entry gets its new server and the next version number. *)
Reassign(line, srv) ==
  IF srv = line.id_srv THEN line
  ELSE [id_srv |-> srv, n_ver |-> line.n_ver + 1]

InitialAssignments == [e \in Entries |-> AssignmentOf(mlt_init[e])]
=============================================================================
