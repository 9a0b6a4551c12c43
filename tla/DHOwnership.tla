---------------------------- MODULE DHOwnership ----------------------------
(***************************************************************************)
(* The DH build implements EntryOwnership: the assignments are the last    *)
(* published table, and the holder of an entry is the server whose own     *)
(* line names itself and is not in transfer, as distribution_post_receive  *)
(* reads it.                                                               *)
(***************************************************************************)
EXTENDS DHHandover

InService(s, e) == table[s][e].id_srv = s /\ table[s][e].state = 0

Holder(e) == IF \E s \in Servers : InService(s, e) THEN CHOOSE s \in Servers : InService(s, e) ELSE None

Ownership == INSTANCE EntryOwnership WITH
               assigned <- mlts[Len(mlts)],
               holder   <- [e \in Entries |-> Holder(e)]

(* Redistributions, seen entry by entry, do what EntryOwnership says: an   *)
(* entry is released, then taken, and no table is published before every   *)
(* entry of the previous one has arrived.                                  *)
HandsOver == Ownership!Spec
=============================================================================
