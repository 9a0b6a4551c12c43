------------------------------- MODULE Mlt -------------------------------
(***************************************************************************)
(* The metadata lookup table (src/mlt.c) and the per-entry lists of        *)
(* metadata names (src/md_entry.c), as operators on values.  A table gives *)
(* for each entry the server in charge, a version number and a transfer    *)
(* state; every process (client, server, manager) holds one.  The lock of  *)
(* the C structure makes each operation one atomic step of its caller.     *)
(***************************************************************************)
EXTENDS Integers, Sequences

CONSTANTS NbSrv,    \* number of available servers (argv[1] of every program)
          NEntry    \* N_entry, the size of every table

ASSUME SizesAssumption == NbSrv \in Nat \ {0} /\ NEntry \in Nat \ {0}

Servers == 0 .. NbSrv - 1
Entries == 0 .. NEntry - 1

(* What the manager broadcasts about an entry, and what a server's line adds. *)
Assignment == [id_srv : Servers, n_ver : Nat]
MltLine    == [id_srv : Servers, n_ver : Nat, state : {0, 1}]

AssignmentOf(line) == [id_srv |-> line.id_srv, n_ver |-> line.n_ver]

(* Faulty variant: servers numbered from 1. *)
mlt_initFromOne ==
  [e \in Entries |-> [id_srv |-> 1 + (e % NbSrv), n_ver |-> 0, state |-> 0]]

mlt_init ==
  [e \in Entries |-> [id_srv |-> e % NbSrv, n_ver |-> 0, state |-> 0]]

(* The argument checks of the C functions never fire: every caller passes  *)
(* an index below N_entry, a server of Servers and a state 0 or 1.         *)
mlt_update_entry(t, e, srv, ver, state) ==
  [t EXCEPT ![e] = [id_srv |-> srv, n_ver |-> ver, state |-> state]]

(* Faulty variant: the version is cleared along with the state. *)
mlt_update_stateClearing(t, e, state) ==
  [t EXCEPT ![e].state = state, ![e].n_ver = 0]

mlt_update_state(t, e, state) == [t EXCEPT ![e].state = state]

-----------------------------------------------------------------------------
(* Lists of metadata names: the head of the linked list is the first element. *)

md_entry_insert(list, name) == <<name>> \o list

InList(list, name) == \E i \in DOMAIN list : list[i] = name

(* Faulty variant: the element stays linked. *)
md_entry_searchOnly(list, name) == list

(* The first element with this name is unlinked; the others keep their order. *)
md_entry_search_md_name(list, name) ==
  LET i == CHOOSE i \in DOMAIN list :
             list[i] = name /\ \A j \in 1 .. i - 1 : list[j] # name
  IN  SubSeq(list, 1, i - 1) \o SubSeq(list, i + 1, Len(list))
=============================================================================
