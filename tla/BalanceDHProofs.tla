-------------------------- MODULE BalanceDHProofs --------------------------
(***************************************************************************)
(* Theorems about BalanceDH.  The computation of a redistribution          *)
(* implements the relation Relab whatever the access counters are, and the *)
(* manager ends a gathering with what the servers in charge reported       *)
(* (TablesInv, MergeInv).  What it moves brings no server further from the *)
(* mean, and it moves nothing that was not used (ComputeInv).              *)
(***************************************************************************)
EXTENDS BalanceDH, LoadsProofs

(* The manager's table is the old one but for the entries already given, each *)
(* by an overloaded server to the target of that server.                      *)
GivenTo(e) ==
  LET g == srvTable[e].id_srv
  IN  /\ load[g] > 0
      /\ target[g] # g
      /\ mgrTable[e] = Reassign(srvTable[e], target[g])

TablesInv ==
  /\ pc \in {"step", "gather", "assign", "give", "publish"}
  /\ srvTable \in [Entries -> Assignment]
  /\ mgrTable \in [Entries -> Assignment]
  /\ target \in [Servers -> Servers]
  /\ todo \subseteq Servers
  /\ \A g \in Servers : target[g] # g => ~(load[target[g]] > 0)
  /\ pc = "assign" => \A s \in todo : ~(load[s] > 0)
  /\ pc = "give" => \A g \in todo : load[g] > 0 /\ target[g] # g
  /\ pc \in {"step", "gather", "assign"} => mgrTable = srvTable
  /\ \A e \in Entries : mgrTable[e] = srvTable[e] \/ GivenTo(e)

(* The invariant holds at the start. *)
LEMMA TablesInit == Init => TablesInv
  BY InitialType DEF Init, TablesInv, Servers

(* Steps that touch neither table, nor what the computation uses. *)
LEMMA TablesCounters ==
  ASSUME TablesInv, UNCHANGED <<mgrTable, srvTable, pc, load, target, todo>>
  PROVE  TablesInv'
  BY DEF TablesInv, GivenTo

(* The loads and the assignment of givers to targets leave the tables alone. *)
LEMMA TablesAssign ==
  ASSUME TablesInv,
         \/ Signal
         \/ CalculateLoads
         \/ \E s \in Servers : AssignTo(s)
         \/ Assigned
         \/ Given
  PROVE  TablesInv'
  <1>1. CASE Signal
    BY <1>1 DEF TablesInv, GivenTo, Signal, computed
  <1>2. CASE CalculateLoads
    BY <1>2 DEF TablesInv, GivenTo, CalculateLoads
  <1>3. ASSUME NEW s \in Servers, AssignTo(s) PROVE TablesInv'
    <2> DEFINE subset_c == PickValues(load[s], subset_l, 0)
               givers   == {find_index(x, load) : x \in ToSet(subset_c)}
    <2>1. /\ target' = [g \in Servers |-> IF g \in givers THEN s ELSE target[g]]
          /\ pc = "assign" /\ s \in todo /\ todo' = todo \ {s}
          /\ UNCHANGED <<mgrTable, srvTable, pc, load>>
      BY <1>3 DEF AssignTo
    <2>2. mgrTable = srvTable /\ ~(load[s] > 0)
      BY <2>1 DEF TablesInv
    <2> HIDE DEF givers
    <2> QED BY <2>1, <2>2 DEF TablesInv, GivenTo
  <1>4. CASE Assigned
    BY <1>4 DEF TablesInv, GivenTo, Assigned
  <1>5. CASE Given
    BY <1>5 DEF TablesInv, GivenTo, Given, computed
  <1> QED BY <1>1, <1>2, <1>3, <1>4, <1>5

(* What a server gives it had before: a target gives nothing. *)
LEMMA TablesGive ==
  ASSUME TablesInv, NEW g \in Servers, Give(g)
  PROVE  TablesInv'
  <1> DEFINE picked == ToSet(PickValues(0, ValuesOn(global_list, Own(mgrTable, g)), load[g]))
             given  == {e \in Own(mgrTable, g) : global_list[e] \in picked}
  <1>1. /\ pc = "give" /\ g \in todo /\ todo' = todo \ {g}
        /\ mgrTable' = [e \in Entries |-> IF e \in given THEN Reassign(mgrTable[e], target[g])
                                          ELSE mgrTable[e]]
        /\ UNCHANGED <<srvTable, pc, load, target>>
    BY DEF Give
  <1>2. load[g] > 0 /\ target[g] # g /\ target[g] \in Servers
    BY <1>1 DEF TablesInv
  <1>3. ASSUME NEW e \in Entries, e \in given
        PROVE  mgrTable[e] = srvTable[e] /\ srvTable[e].id_srv = g
    <2>1. mgrTable[e].id_srv = g
      BY <1>3 DEF Own
    <2>2. SUFFICES ASSUME GivenTo(e) PROVE FALSE
      BY <2>1 DEF TablesInv
    <2>3. srvTable[e] \in Assignment /\ srvTable[e].id_srv \in Servers
      BY DEF TablesInv, Assignment
    <2>4. target[srvTable[e].id_srv] = g
      BY <2>1, <2>2, <2>3, ReassignLine DEF GivenTo, TablesInv
    <2> QED BY <1>2, <2>2, <2>3, <2>4 DEF GivenTo, TablesInv
  <1> HIDE DEF given
  <1>4. \A e \in Entries : mgrTable'[e] = srvTable'[e] \/ GivenTo(e)'
    BY <1>1, <1>2, <1>3 DEF TablesInv, GivenTo
  <1>5. mgrTable' \in [Entries -> Assignment]
    BY <1>1, <1>2, ReassignLine DEF TablesInv
  <1> QED BY <1>1, <1>4, <1>5 DEF TablesInv

(* After a transfer the tables agree again. *)
LEMMA TablesTransfer ==
  ASSUME TablesInv, Transfer
  PROVE  TablesInv'
  BY DEF TablesInv, Transfer, GivenTo, computed

(* Every step keeps the invariant. *)
LEMMA TablesStep == TablesInv /\ [Next]_vars => TablesInv'
  <1> SUFFICES ASSUME TablesInv, [Next]_vars PROVE TablesInv'
    OBVIOUS
  <1>1. CASE UNCHANGED vars
    BY <1>1, TablesCounters DEF vars, computed
  <1>2. ASSUME NEW e \in Entries, eacl_incr_access(e) PROVE TablesInv'
    BY <1>2, TablesCounters DEF eacl_incr_access, computed
  <1>3. ASSUME NEW s \in Servers, distribution_signal2_action(s) PROVE TablesInv'
    BY <1>3, TablesCounters DEF distribution_signal2_action, computed
  <1>4. ASSUME NEW msg \in pull, Gather(msg) PROVE TablesInv'
    BY <1>4, TablesCounters DEF Gather, computed
  <1> QED BY <1>1, <1>2, <1>3, <1>4, TablesAssign, TablesGive, TablesTransfer DEF Next

(* Rebalancing and BalanceDH share the module Reassignment. *)
LEMMA SameOperators ==
  /\ Redistribution!InitialAssignments = InitialAssignments
  /\ Redistribution!Entries = Entries
  /\ \A line, srv : Redistribution!Reassign(line, srv) = Reassign(line, srv)
  /\ \A t : Redistribution!Relab(t) = Relab(t)
  <1>1. /\ Redistribution!Entries = Entries
        /\ Redistribution!Servers = Servers
    BY DEF Redistribution!Entries, Entries, Redistribution!Servers, Servers
  <1>2. Redistribution!InitialAssignments = InitialAssignments
    BY <1>1 DEF Redistribution!InitialAssignments, InitialAssignments, Redistribution!mlt_init,
                mlt_init, Redistribution!AssignmentOf, AssignmentOf
  <1>3. ASSUME NEW t PROVE Redistribution!Relab(t) = Relab(t)
    BY <1>1 DEF Redistribution!Relab, Relab, Redistribution!RelabMany, RelabMany,
                Redistribution!Moved, Moved
  <1>4. \A line, srv : Redistribution!Reassign(line, srv) = Reassign(line, srv)
    BY DEF Redistribution!Reassign, Reassign
  <1> QED BY <1>1, <1>2, <1>3, <1>4

(* A transfer is a redistribution by the relation Relab. *)
LEMMA TransferIsRelab ==
  ASSUME TablesInv, Transfer
  PROVE  Redistribution!Redistribute(Redistribution!Relab(srvTable))
  <1> DEFINE new == [e \in Entries |-> mgrTable[e].id_srv]
  <1>1. \A e \in Entries : /\ srvTable[e] \in Assignment /\ mgrTable[e] \in Assignment
                           /\ srvTable[e].id_srv \in Servers /\ mgrTable[e].id_srv \in Servers
    BY DEF TablesInv, Assignment
  <1>2. \A e \in Moved(srvTable, new) :
          /\ e \in Entries /\ load[srvTable[e].id_srv] > 0
          /\ new[e] = target[srvTable[e].id_srv] /\ ~(load[new[e]] > 0)
    <2> SUFFICES ASSUME NEW e \in Entries, mgrTable[e].id_srv # srvTable[e].id_srv
                 PROVE  /\ load[srvTable[e].id_srv] > 0
                        /\ mgrTable[e].id_srv = target[srvTable[e].id_srv]
                        /\ ~(load[mgrTable[e].id_srv] > 0)
      BY DEF Moved
    <2>1. GivenTo(e)
      BY DEF TablesInv
    <2>2. mgrTable[e].id_srv = target[srvTable[e].id_srv]
      BY <1>1, <2>1, ReassignLine DEF GivenTo, TablesInv
    <2> QED BY <1>1, <2>1, <2>2 DEF GivenTo, TablesInv
  <1>3. new \in Relab(srvTable)
    BY <1>1, <1>2 DEF Relab, RelabMany
  <1>4. \A e \in Entries : mgrTable[e] = Reassign(srvTable[e], new[e])
    BY <1>1, ReassignLine DEF TablesInv, GivenTo, Reassign
  <1>5. srvTable' = [e \in Entries |-> Reassign(srvTable[e], new[e])]
    BY <1>4 DEF Transfer, TablesInv
  <1> QED BY <1>3, <1>5, SameOperators DEF Redistribution!Redistribute

(* Whatever the counters are, the system only ever redistributes by Relab:  *)
(* manager_calculate_relab (manager_dh.c) implements Rebalancing.           *)
THEOREM BalanceImplementsRelab == Spec => ImplementsRelab
  <1>1. Init => Redistribution!Init
    BY SameOperators DEF Init, Redistribution!Init
  <1>2. TablesInv /\ [Next]_vars => [Redistribution!Redistribute(Redistribution!Relab(srvTable))]_srvTable
    <2> SUFFICES ASSUME TablesInv, [Next]_vars, srvTable' # srvTable
                 PROVE  Redistribution!Redistribute(Redistribution!Relab(srvTable))
      OBVIOUS
    <2>1. Transfer
      BY DEF Next, vars, eacl_incr_access, Signal, distribution_signal2_action, Gather,
             CalculateLoads, AssignTo, Assigned, Give, Given
    <2> QED BY <2>1, TransferIsRelab
  <1> QED BY <1>1, <1>2, TablesInit, TablesStep, PTL DEF Spec, ImplementsRelab, Redistribution!Spec

-----------------------------------------------------------------------------
(* The SAI messages. *)

Message(s) == [srv |-> s, sai |-> sai[s]]

Merged(s) == \A e \in Own(srvTable, s) : sai[s][e] # 0 => global_list[e] = sai[s][e]

ListsOK ==
  /\ access_count \in [Servers -> Sai]
  /\ sai \in [Servers -> Sai]
  /\ global_list \in Sai

(* Only the server in charge of an entry has counted accesses to it. *)
OnlyOwnerCounts ==
  \A s \in Servers, e \in Entries :
    srvTable[e].id_srv # s => access_count[s][e] = 0 /\ sai[s][e] = 0

MessagesOK ==
  /\ unsent \subseteq Servers
  /\ IsFiniteSet(pull)
  /\ nb_rcv \in Nat
  /\ pc # "gather" => unsent = {} /\ pull = {} /\ nb_rcv = 0
  /\ pc = "gather" => nb_rcv + Cardinality(unsent) + Cardinality(pull) = NbSrv
  /\ \A msg \in pull : msg.srv \in Servers \ unsent /\ msg = Message(msg.srv)
  /\ pc = "gather" =>
       \A s \in Servers : s \in unsent \/ Message(s) \in pull \/ Merged(s)

MergeInv == TablesInv /\ ListsOK /\ OnlyOwnerCounts /\ MessagesOK

(* What the C functions on the counters return. *)
LEMMA CounterLists ==
  ASSUME NEW old \in Sai, NEW count \in Sai, NEW s
  PROVE  /\ NoSai \in Sai
         /\ eacl_calculate_sai(old, count) \in Sai
         /\ manager_merge_eacl(old, count) \in Sai
         /\ eacl_reset_all_entry(old, s) \in Sai
         /\ \A e \in Entries : old[e] = 0 /\ count[e] = 0 => eacl_calculate_sai(old, count)[e] = 0
  BY DEF Sai, NoSai, eacl_calculate_sai, manager_merge_eacl, eacl_reset_all_entry

(* The invariant holds at the start. *)
LEMMA MergeInit == Init => MergeInv
  <1> SUFFICES ASSUME Init PROVE MergeInv
    OBVIOUS
  <1>1. NoSai \in Sai
    BY DEF NoSai, Sai
  <1>2. ListsOK
    BY <1>1 DEF Init, ListsOK
  <1>3. OnlyOwnerCounts
    BY DEF Init, OnlyOwnerCounts, NoSai
  <1>4. MessagesOK
    BY FS_EmptySet DEF Init, MessagesOK
  <1> QED BY <1>2, <1>3, <1>4, TablesInit DEF MergeInv

(* Steps of the computation, which has all it needs from the servers. *)
LEMMA MergeCompute ==
  ASSUME MergeInv, UNCHANGED <<servers, pull, global_list, srvTable>>, TablesInv',
         \/ UNCHANGED nb_rcv /\ (pc' = "gather" <=> pc = "gather")
         \/ CalculateLoads
  PROVE  MergeInv'
  <1>1. ListsOK' /\ OnlyOwnerCounts'
    BY DEF MergeInv, ListsOK, OnlyOwnerCounts, servers
  <1>2. CASE UNCHANGED nb_rcv /\ (pc' = "gather" <=> pc = "gather")
    BY <1>1, <1>2 DEF MergeInv, MessagesOK, Message, Merged, Own, servers
  <1>3. CASE CalculateLoads
    <2>1. /\ pc = "gather" /\ pc' = "assign" /\ nb_rcv' = 0
          /\ Cardinality(unsent) + Cardinality(pull) = 0
      <3>1. Cardinality(unsent) \in Nat /\ Cardinality(pull) \in Nat
        BY Counted, FS_Subset, FS_CardinalityType DEF MergeInv, MessagesOK
      <3> QED BY <1>3, <3>1, SizesAssumption DEF CalculateLoads, MergeInv, MessagesOK
    <2>2. unsent = {} /\ pull = {}
      <3>1. IsFiniteSet(unsent) /\ IsFiniteSet(pull)
        BY Counted, FS_Subset DEF MergeInv, MessagesOK
      <3>2. Cardinality(unsent) = 0 /\ Cardinality(pull) = 0
        BY <2>1, <3>1, FS_CardinalityType
      <3>. QED BY <3>1, <3>2, FS_EmptySet
    <2>3. MessagesOK'
      BY <2>1, <2>2, FS_EmptySet DEF MessagesOK, servers
    <2> QED BY <1>1, <2>3 DEF MergeInv
  <1> QED BY <1>2, <1>3

(* An access counts at the server in charge, outside a redistribution. *)
LEMMA MergeAccess ==
  ASSUME MergeInv, TablesInv', NEW e \in Entries, eacl_incr_access(e)
  PROVE  MergeInv'
  <1> DEFINE s == srvTable[e].id_srv
  <1>1. s \in Servers
    BY DEF MergeInv, TablesInv, Assignment
  <1>2. /\ access_count' = [access_count EXCEPT ![s][e] = @ + Burst]
        /\ pc = "step" /\ pc' = pc
        /\ UNCHANGED <<sai, unsent, pull, nb_rcv, global_list, srvTable>>
    BY DEF eacl_incr_access
  <1> HIDE DEF s
  <1>3. ListsOK'
    BY <1>1, <1>2, BalanceAssumption DEF MergeInv, ListsOK, Sai
  <1>4. OnlyOwnerCounts'
    BY <1>1, <1>2, BalanceAssumption DEF MergeInv, ListsOK, Sai, OnlyOwnerCounts, s
  <1>5. MessagesOK'
    BY <1>2 DEF MergeInv, MessagesOK
  <1> QED BY <1>3, <1>4, <1>5 DEF MergeInv

(* A redistribution starts with every server's message to come. *)
LEMMA MergeSignal ==
  ASSUME MergeInv, TablesInv', Signal
  PROVE  MergeInv'
  <1>1. ListsOK' /\ OnlyOwnerCounts'
    BY DEF MergeInv, ListsOK, OnlyOwnerCounts, Signal
  <1>2. pull = {} /\ nb_rcv = 0
    BY DEF MergeInv, MessagesOK, Signal
  <1>3. MessagesOK'
    BY <1>2, Counted, FS_EmptySet, SizesAssumption DEF MessagesOK, Signal
  <1> QED BY <1>1, <1>3 DEF MergeInv

(* The handler of a server sends what it computes. *)
LEMMA MergeSend ==
  ASSUME MergeInv, TablesInv', NEW s \in Servers, distribution_signal2_action(s)
  PROVE  MergeInv'
  <1> DEFINE new == eacl_calculate_sai(sai[s], access_count[s])
             msg == [srv |-> s, sai |-> new]
  <1>1. /\ s \in unsent /\ unsent' = unsent \ {s}
        /\ sai' = [sai EXCEPT ![s] = new]
        /\ access_count' = [access_count EXCEPT ![s] = NoSai]
        /\ UNCHANGED <<nb_rcv, global_list, srvTable, pc>>
    BY DEF distribution_signal2_action
  <1>2. sai[s] \in Sai /\ access_count[s] \in Sai
    BY DEF MergeInv, ListsOK
  <1>3. /\ NoSai \in Sai /\ new \in Sai
        /\ \A e \in Entries : sai[s][e] = 0 /\ access_count[s][e] = 0 => new[e] = 0
    BY <1>2, CounterLists
  <1>4. sai'[s] = new /\ sai' \in [Servers -> Sai] /\ pull' = pull \cup {msg}
    BY <1>1, <1>3 DEF MergeInv, ListsOK, distribution_signal2_action
  <1> HIDE DEF new
  <1>5. ListsOK'
    BY <1>1, <1>3, <1>4 DEF MergeInv, ListsOK
  <1>6. OnlyOwnerCounts'
    BY <1>1, <1>3, <1>5 DEF MergeInv, OnlyOwnerCounts, ListsOK, NoSai
  <1>7. pc = "gather" /\ msg \notin pull
    BY <1>1 DEF MergeInv, MessagesOK
  <1>8. /\ IsFiniteSet(pull') /\ Cardinality(pull') = Cardinality(pull) + 1
        /\ Cardinality(unsent') = Cardinality(unsent) - 1
        /\ Cardinality(unsent) \in Nat /\ Cardinality(pull) \in Nat
    BY <1>1, <1>4, <1>7, Counted, FS_Subset, FS_AddElement, FS_RemoveElement,
       FS_CardinalityType DEF MergeInv, MessagesOK
  <1>9. nb_rcv' + Cardinality(unsent') + Cardinality(pull') = NbSrv
    BY <1>1, <1>7, <1>8 DEF MergeInv, MessagesOK
  <1>10. \A r \in Servers : r # s => Message(r)' = Message(r)
    BY <1>1, <1>4 DEF Message, MergeInv, ListsOK
  <1>11. Message(s)' = msg
    BY <1>4 DEF Message
  <1>12. \A m \in pull' : m.srv \in Servers \ unsent' /\ m = Message(m.srv)'
    BY <1>1, <1>4, <1>10, <1>11 DEF MergeInv, MessagesOK
  <1>13. \A r \in Servers : r \in unsent' \/ Message(r)' \in pull' \/ Merged(r)'
    <2> SUFFICES ASSUME NEW r \in Servers, r # s
                 PROVE  r \in unsent' \/ Message(r)' \in pull' \/ Merged(r)'
      BY <1>4, <1>11
    <2>1. Merged(r) => Merged(r)'
      BY <1>1 DEF Merged, Own, MergeInv, ListsOK
    <2> QED BY <1>1, <1>4, <1>7, <1>10, <2>1 DEF MergeInv, MessagesOK
  <1>14. MessagesOK'
    BY <1>1, <1>7, <1>8, <1>9, <1>12, <1>13 DEF MergeInv, MessagesOK
  <1> QED BY <1>5, <1>6, <1>14 DEF MergeInv

(* A merged message overwrites no value of another server's entries. *)
LEMMA MergeGather ==
  ASSUME MergeInv, TablesInv', NEW msg \in pull, Gather(msg)
  PROVE  MergeInv'
  <1>1. /\ pull' = pull \ {msg} /\ nb_rcv' = nb_rcv + 1
        /\ global_list' = manager_merge_eacl(global_list, msg.sai)
        /\ UNCHANGED <<access_count, sai, unsent, srvTable, pc>> /\ pc = "gather"
    BY DEF Gather, servers
  <1> DEFINE s == msg.srv
  <1>2. s \in Servers /\ s \notin unsent /\ msg = Message(s) /\ msg.sai = sai[s]
    BY DEF MergeInv, MessagesOK, Message
  <1> HIDE DEF s
  <1>3. ListsOK'
    BY <1>1, <1>2, CounterLists DEF MergeInv, ListsOK
  <1>4. OnlyOwnerCounts'
    BY <1>1 DEF MergeInv, OnlyOwnerCounts
  <1>5. /\ IsFiniteSet(pull') /\ Cardinality(pull') = Cardinality(pull) - 1
        /\ Cardinality(unsent) \in Nat /\ Cardinality(pull) \in Nat
    BY <1>1, Counted, FS_Subset, FS_RemoveElement, FS_CardinalityType
       DEF MergeInv, MessagesOK
  <1>6. nb_rcv' + Cardinality(unsent') + Cardinality(pull') = NbSrv
    BY <1>1, <1>5 DEF MergeInv, MessagesOK
  <1>7. \A e \in Entries :
          global_list'[e] = IF sai[s][e] # 0 THEN sai[s][e] ELSE global_list[e]
    BY <1>1, <1>2 DEF manager_merge_eacl
  <1>8. Merged(s)'
    BY <1>1, <1>7 DEF Merged, Own
  <1>9. \A r \in Servers : r # s /\ Merged(r) => Merged(r)'
    BY <1>1, <1>2, <1>7 DEF Merged, Own, MergeInv, OnlyOwnerCounts
  <1>10. \A r \in Servers : Message(r)' = Message(r)
    BY <1>1 DEF Message
  <1>11. \A r \in Servers : r \in unsent' \/ Message(r)' \in pull' \/ Merged(r)'
    BY <1>1, <1>2, <1>8, <1>9, <1>10 DEF MergeInv, MessagesOK, Message
  <1>12. MessagesOK'
    BY <1>1, <1>5, <1>6, <1>10, <1>11 DEF MergeInv, MessagesOK
  <1> QED BY <1>3, <1>4, <1>12 DEF MergeInv

(* Both servers of an entry that moves forget its counters. *)
LEMMA MergeTransfer ==
  ASSUME MergeInv, TablesInv', Transfer
  PROVE  MergeInv'
  <1>1. /\ srvTable' = mgrTable /\ pc = "publish" /\ pc' = "step"
        /\ sai' = [s \in Servers |-> eacl_reset_all_entry(sai[s], s)]
        /\ access_count' = [s \in Servers |-> eacl_reset_all_entry(access_count[s], s)]
        /\ UNCHANGED <<global_list, unsent, pull, nb_rcv>>
    BY DEF Transfer
  <1>2. ListsOK'
    BY <1>1, CounterLists DEF MergeInv, ListsOK
  <1>3. OnlyOwnerCounts'
    <2> SUFFICES ASSUME NEW s \in Servers, NEW e \in Entries, mgrTable[e].id_srv # s
                 PROVE  access_count'[s][e] = 0 /\ sai'[s][e] = 0
      BY <1>1 DEF OnlyOwnerCounts
    <2> QED BY <1>1 DEF MergeInv, OnlyOwnerCounts, eacl_reset_all_entry
  <1>4. MessagesOK'
    BY <1>1 DEF MergeInv, MessagesOK
  <1> QED BY <1>2, <1>3, <1>4 DEF MergeInv

(* Every step keeps the invariant. *)
LEMMA MergeStep == MergeInv /\ [Next]_vars => MergeInv'
  <1> SUFFICES ASSUME MergeInv, [Next]_vars PROVE MergeInv'
    OBVIOUS
  <1>0. TablesInv'
    BY TablesStep DEF MergeInv
  <1>1. CASE UNCHANGED vars
    BY <1>0, <1>1, MergeCompute DEF vars, servers, computed
  <1>2. CASE CalculateLoads
    BY <1>0, <1>2, MergeCompute DEF CalculateLoads
  <1>3. ASSUME NEW s \in Servers, AssignTo(s) PROVE MergeInv'
    BY <1>0, <1>3, MergeCompute DEF AssignTo
  <1>4. CASE Assigned
    BY <1>0, <1>4, MergeCompute DEF Assigned
  <1>5. ASSUME NEW s \in Servers, Give(s) PROVE MergeInv'
    BY <1>0, <1>5, MergeCompute DEF Give
  <1>6. CASE Given
    BY <1>0, <1>6, MergeCompute DEF Given
  <1> QED BY <1>0, <1>1, <1>2, <1>3, <1>4, <1>5, <1>6, MergeAccess, MergeSignal, MergeSend,
             MergeGather, MergeTransfer DEF Next

(* When the manager has all messages of a round its list has, for each entry *)
(* in use, what the server in charge reported, in whichever order they came. *)
THEOREM OwnerReported == Spec => []OwnerHasLastWord
  <1>1. MergeInv => OwnerHasLastWord
    <2> SUFFICES ASSUME MergeInv, pc = "gather", nb_rcv = NbSrv, NEW e \in Entries,
                        sai[srvTable[e].id_srv][e] # 0
                 PROVE  global_list[e] = sai[srvTable[e].id_srv][e]
      BY DEF OwnerHasLastWord
    <2>1. srvTable[e].id_srv \in Servers
      BY DEF MergeInv, TablesInv, Assignment
    <2>2. unsent = {} /\ pull = {}
      <3>1. Cardinality(unsent) \in Nat /\ Cardinality(pull) \in Nat /\ IsFiniteSet(unsent)
        BY Counted, FS_Subset, FS_CardinalityType DEF MergeInv, MessagesOK
      <3>2. Cardinality(unsent) = 0 /\ Cardinality(pull) = 0
        BY <3>1, SizesAssumption DEF MergeInv, MessagesOK
      <3> QED BY <3>1, <3>2, FS_EmptySet DEF MergeInv, MessagesOK
    <2>3. Merged(srvTable[e].id_srv)
      BY <2>1, <2>2 DEF MergeInv, MessagesOK
    <2> QED BY <2>3 DEF Merged, Own
  <1> QED BY <1>1, MergeInit, MergeStep, PTL DEF Spec

-----------------------------------------------------------------------------
(* Values instead of servers and entries. *)

(* A list without one of its elements is a list of the same elements. *)
LEMMA RemovedFirst ==
  ASSUME NEW S, NEW list \in Seq(S), NEW e
  PROVE  RemoveFirst(list, e) \in Seq(S)
  <1>. DEFINE I == {i \in 1 .. Len(list) : list[i] = e}
              k == Min(I)
  <1>1. SelectInSeq(list, LAMBDA v : v = e) = IF I # {} THEN k ELSE 0
    BY DEF SelectInSeq
  <1>2. CASE I = {}
    <2>1. ~ \E i \in 1 .. Len(list) : list[i] = e
      BY <1>2
    <2>. QED BY <2>1 DEF RemoveFirst
  <1>3. CASE I # {}
    <2>1. \E i \in 1 .. Len(list) : list[i] = e
      BY <1>3
    <2>2. RemoveFirst(list, e) = RemoveAt(list, k)
      BY <1>1, <1>3, <2>1 DEF RemoveFirst
    <2>3. I \in SUBSET Nat /\ I \in SUBSET (1 .. Len(list))
      OBVIOUS
    <2>4. k \in I
      <3>1. \E n \in I : \A m \in I : n <= m
        BY <1>3, <2>3, LeastElement
      <3>. QED BY <3>1 DEF Min
    <2>. HIDE DEF k, I
    <2>5. k \in 1 .. Len(list) /\ Len(list) \in Nat
      BY <2>3, <2>4
    <2>6. SubSeq(list, 1, k - 1) \in Seq(S) /\ SubSeq(list, k + 1, Len(list)) \in Seq(S)
      BY <2>5
    <2>. QED BY <2>2, <2>6 DEF RemoveAt
  <1>. QED BY <1>2, <1>3

(* Nor do several of them, each removed as the values picked are (RemoveEach). *)
LEMMA RemovedEach ==
  ASSUME NEW S, NEW list \in Seq(S), NEW T, NEW picked \in Seq(T)
  PROVE  RemoveEach(list, picked) \in Seq(S)
  <1>. DEFINE N == Len(picked)
              B == Seq(S)
              Eqn(left) == left = [n \in 0 .. N |->
                                     IF n = 0 THEN list ELSE RemoveFirst(left[n - 1], picked[n])]
              left == CHOOSE left : Eqn(left)
              step == [n \in 1 .. N |-> [a \in B |-> RemoveFirst(a, picked[n])]]
  <1>1. RemoveEach(list, picked) = left[N]
    BY DEF RemoveEach
  <1>2. N \in Nat /\ list \in B
    OBVIOUS
  <1>3. /\ step \in [1 .. N -> [B -> B]]
        /\ \A n \in 1 .. N, a \in B : step[n][a] = RemoveFirst(a, picked[n])
    BY RemovedFirst
  <1>. HIDE DEF N, B, step
  <1>4. PICK f : Solves(f, B, N, list, step)
    BY <1>2, <1>3, FoldExists
  <1>5. f \in [0 .. N -> B] /\ f[0] = list /\ \A n \in 1 .. N : f[n] = step[n][f[n - 1]]
    BY <1>4 DEF Solves
  <1>6. Eqn(f)
    <2>1. ASSUME NEW n \in 1 .. N PROVE f[n] = RemoveFirst(f[n - 1], picked[n])
      <3>1. n - 1 \in 0 .. N
        BY <1>2
      <3>. QED BY <1>3, <1>5, <3>1
    <2>2. \A n \in 0 .. N : n # 0 => n \in 1 .. N
      BY <1>2
    <2>. QED BY <1>5, <2>1, <2>2
  <1>7. Eqn(left)
    <2>. HIDE DEF Eqn
    <2>. QED BY <1>6
  <1>. HIDE DEF left
  <1>8. \A n \in 0 .. N : left[n] = IF n = 0 THEN list ELSE RemoveFirst(left[n - 1], picked[n])
    BY <1>7
  <1>. DEFINE P == {n \in 0 .. N : left[n] \in B}
  <1>9. 0 \in P
    BY <1>2, <1>8
  <1>10. ASSUME NEW n \in 1 .. N, n - 1 \in P PROVE n \in P
    <2>1. n \in 0 .. N /\ n # 0 /\ left[n - 1] \in B
      BY <1>2, <1>10
    <2>2. left[n] = RemoveFirst(left[n - 1], picked[n])
      BY <1>8, <2>1
    <2>3. RemoveFirst(left[n - 1], picked[n]) \in B
      BY <2>1, RemovedFirst DEF B
    <2>. QED BY <2>1, <2>2, <2>3
  <1>11. \A n \in 0 .. N : n \in P
    <2>. HIDE DEF P
    <2>. QED BY <1>2, <1>9, <1>10, UpTo
  <1>12. left[N] \in B
    BY <1>2, <1>11
  <1>. QED
    BY <1>1, <1>12 DEF B

(* The values of f on a set. *)
LEMMA ListOfValues ==
  ASSUME NEW E \in SUBSET Nat, IsFiniteSet(E), NEW f, NEW S, \A x \in E : f[x] \in S
  PROVE  /\ ValuesOn(f, E) \in Seq(S)
         /\ ToSet(ValuesOn(f, E)) = {f[x] : x \in E}
  <1>. DEFINE s == InOrder(E)
              values == ValuesOn(f, E)
  <1>1. s \in Seq(E) /\ ToSet(s) = E
    BY InOrderList
  <1>2. values = [i \in DOMAIN s |-> f[s[i]]]
    BY DEF ValuesOn
  <1>. HIDE DEF s, values
  <1>3. DOMAIN s = 1 .. Len(s) /\ Len(s) \in Nat /\ \A i \in DOMAIN s : s[i] \in E
    BY <1>1
  <1>4. values \in Seq(S)
    <2>1. \A i \in 1 .. Len(s) : f[s[i]] \in S
      BY <1>3
    <2>2. values = [i \in 1 .. Len(s) |-> f[s[i]]]
      BY <1>2, <1>3
    <2>3. Len(s) \in Nat
      BY <1>3
    <2>. QED BY <2>1, <2>2, <2>3
  <1>5. DOMAIN values = DOMAIN s /\ \A i \in DOMAIN s : values[i] = f[s[i]]
    BY <1>2
  <1>6. ToSet(values) = {f[x] : x \in E}
    <2>1. \A x \in E : \E i \in DOMAIN s : s[i] = x
      BY <1>1 DEF ToSet
    <2>2. ToSet(values) = {values[i] : i \in DOMAIN s}
      BY <1>5 DEF ToSet
    <2>3. \A i \in DOMAIN s : s[i] \in E /\ values[i] = f[s[i]]
      BY <1>3, <1>5
    <2>. DEFINE T == ToSet(values)
                F == {f[x] : x \in E}
    <2>4. ASSUME NEW v \in T PROVE v \in F
      <3>1. PICK i \in DOMAIN s : v = values[i]
        BY <2>2
      <3>2. s[i] \in E /\ v = f[s[i]]
        BY <2>3, <3>1
      <3>. QED BY <3>2
    <2>5. ASSUME NEW v \in F PROVE v \in T
      <3>1. PICK x \in E : v = f[x]
        OBVIOUS
      <3>2. PICK i \in DOMAIN s : s[i] = x
        BY <2>1
      <3>3. v = values[i]
        BY <2>3, <3>1, <3>2
      <3>. QED BY <2>2, <3>3
    <2>. HIDE DEF T, F
    <2>6. T = F
      BY <2>4, <2>5
    <2>. QED BY <2>6 DEF T, F
  <1>. QED
    BY <1>4, <1>6 DEF values

(* The values manager_balance_load picks are in the list and not zero. *)
LEMMA PickedValues ==
  ASSUME NEW values \in Seq(Nat), NEW current_load \in Int, NEW goal_load \in Int
  PROVE  /\ PickValues(current_load, values, goal_load) \in Seq(ToSet(values))
         /\ \A x \in ToSet(PickValues(current_load, values, goal_load)) :
              x \in ToSet(values) /\ x # 0
  <1>. DEFINE T == ToSet(values)
              weight == [x \in T |-> x]
  <1>1. PickValues(current_load, values, goal_load)
          = manager_balance_load(current_load, values, weight, goal_load)
    BY DEF PickValues
  <1>2. T \in SUBSET Nat /\ values \in Seq(T)
    <2>1. T \in SUBSET Nat
      BY ElementsOfList
    <2>2. \A i \in 1 .. Len(values) : values[i] \in T
      BY DEF ToSet
    <2>. HIDE DEF T
    <2>. QED BY <2>1, <2>2
  <1>3. \A x \in T : weight[x] \in Int /\ weight[x] = x
    BY <1>2
  <1>. HIDE DEF weight
  <1>4. /\ manager_balance_load(current_load, values, weight, goal_load) \in Seq(T)
        /\ \A x \in ToSet(manager_balance_load(current_load, values, weight, goal_load)) :
             x \in ToSet(values) /\ weight[x] # 0
    <2>1. \A x \in T : weight[x] \in Int
      BY <1>3
    <2>. HIDE DEF T
    <2>. QED BY <1>2, <2>1, GreedyChoice
  <1>. QED
    BY <1>1, <1>3, <1>4

(* Whatever has picked values, each its own, has together no more than was    *)
(* asked for, or leaves a load that is nearer to zero.                        *)
LEMMA PickedBound ==
  ASSUME NEW values \in Seq(Nat), NEW current_load \in Int, NEW goal_load \in Int,
         current_load <= goal_load,
         NEW picked, picked = ToSet(PickValues(current_load, values, goal_load)),
         NEW f, NEW U, IsFiniteSet(U), \A x \in U : f[x] \in picked,
         \A x, y \in U : x # y => f[x] # f[y]
  PROVE  /\ SumFunctionOnSet(f, U) \in Nat
         /\ \/ current_load + SumFunctionOnSet(f, U) <= goal_load
            \/ current_load + SumFunctionOnSet(f, U) < Abs(current_load)
  <1>. DEFINE T == ToSet(values)
              weight == [x \in T |-> x]
              image  == {f[x] : x \in U}
  <1>1. picked = ToSet(manager_balance_load(current_load, values, weight, goal_load))
    BY DEF PickValues
  <1>2. T \in SUBSET Nat /\ values \in Seq(T) /\ IsFiniteSet(T)
    <2>1. T \in SUBSET Nat /\ IsFiniteSet(T)
      BY ElementsOfList
    <2>2. \A i \in 1 .. Len(values) : values[i] \in T
      BY DEF ToSet
    <2>. HIDE DEF T
    <2>. QED BY <2>1, <2>2
  <1>3. picked \in SUBSET T
    BY PickedValues
  <1>. HIDE DEF T
  <1>4. \A x \in T : weight[x] \in Nat /\ weight[x] = x
    BY <1>2
  <1>. HIDE DEF weight
  <1>. DEFINE all  == Total(weight, picked)
              some == SumFunctionOnSet(weight, image)
              sum  == SumFunctionOnSet(f, U)
  <1>5. /\ all \in Nat
        /\ current_load + all <= goal_load \/ current_load + all < Abs(current_load)
    <2>1. \A x \in T : weight[x] \in Nat
      BY <1>4
    <2>. QED BY <1>1, <1>2, <2>1, GreedyBound
  <1>6. \A x \in U : weight[f[x]] = f[x] /\ f[x] \in Int /\ f[x] \in Nat
    <2>1. \A x \in U : f[x] \in T
      BY <1>3
    <2>2. \A x \in U : f[x] \in Nat
      BY <1>2, <2>1
    <2>. QED BY <1>4, <2>1, <2>2
  <1>7. some = sum
    <2>1. \A x \in U : weight[f[x]] = f[x] /\ f[x] \in Int
      BY <1>6
    <2>. QED BY <2>1, SumRenamed
  <1>8. some <= all
    <2>1. IsFiniteSet(picked) /\ (\A x \in picked : weight[x] \in Nat)
      BY <1>2, <1>3, <1>4, FS_Subset
    <2>2. image \in SUBSET picked
      OBVIOUS
    <2>. HIDE DEF image
    <2>. QED BY <2>1, <2>2, SumMonotone DEF Total
  <1>9. sum \in Nat
    <2>1. \A x \in U : f[x] \in Nat
      BY <1>6
    <2>. QED BY <2>1, SumType
  <1>. HIDE DEF all, some, sum
  <1>10. sum <= all
    BY <1>7, <1>8
  <1>11. current_load + sum <= goal_load \/ current_load + sum < Abs(current_load)
    BY <1>5, <1>9, <1>10 DEF Abs
  <1>. QED
    BY <1>9, <1>11 DEF sum

-----------------------------------------------------------------------------
(* The loads. *)

Balanced(list) == Total(list, Entries) \div NbSrv

(* The load of a server is what its entries add up to, less the mean. *)
LEMMA LoadOf ==
  ASSUME NEW t, NEW list \in Sai
  PROVE  /\ RelativeLoad(t, list) \in [Servers -> Int]
         /\ Balanced(list) \in Int
         /\ \A s \in Servers : /\ Total(list, Own(t, s)) \in Nat
                               /\ RelativeLoad(t, list)[s] = Total(list, Own(t, s)) - Balanced(list)
  <1>1. IsFiniteSet(Entries) /\ \A e \in Entries : list[e] \in Nat
    BY Counted DEF Sai
  <1>2. ASSUME NEW E \in SUBSET Entries PROVE Total(list, E) \in Nat
    <2>1. IsFiniteSet(E)
      BY <1>1, FS_Subset
    <2>2. \A e \in E : list[e] \in Nat
      BY <1>1
    <2>. QED BY <2>1, <2>2, SumType DEF Total
  <1>3. \A s \in Servers : Own(t, s) \in SUBSET Entries
    BY DEF Own
  <1>4. Balanced(list) \in Int
    <2>1. Total(list, Entries) \in Nat
      BY <1>2
    <2>. QED BY <2>1, SizesAssumption DEF Balanced
  <1>5. RelativeLoad(t, list) = [s \in Servers |-> Total(list, Own(t, s)) - Balanced(list)]
    BY DEF RelativeLoad, Balanced
  <1>6. \A s \in Servers : Total(list, Own(t, s)) \in Nat
    BY <1>2, <1>3
  <1>. QED BY <1>4, <1>5, <1>6

(* Table u has the load of t but for the weight of G, which went from g to h. *)
MovesLoad(list, t, u, G, g, h) ==
  /\ Total(list, G) \in Nat
  /\ RelativeLoad(u, list)[g] = RelativeLoad(t, list)[g] - Total(list, G)
  /\ RelativeLoad(u, list)[h] = RelativeLoad(t, list)[h] + Total(list, G)
  /\ \A s \in Servers \ {g, h} : RelativeLoad(u, list)[s] = RelativeLoad(t, list)[s]

(* Entries that go from g to h take their weight with them. *)
LEMMA LoadMoves ==
  ASSUME NEW list \in Sai, NEW g \in Servers, NEW h \in Servers, g # h,
         NEW t, NEW G \in SUBSET Own(t, g),
         NEW u, \A e \in G : u[e].id_srv = h,
         \A e \in Entries \ G : u[e].id_srv = t[e].id_srv
  PROVE  MovesLoad(list, t, u, G, g, h)
  <1>1. IsFiniteSet(Entries) /\ \A e \in Entries : list[e] \in Nat /\ list[e] \in Int
    BY Counted DEF Sai
  <1>2. ASSUME NEW V \in SUBSET Entries, NEW W \in SUBSET Entries, V \cap W = {}
        PROVE  Total(list, V \cup W) = Total(list, V) + Total(list, W)
    <2>1. \A e \in Entries : list[e] \in Int
      BY <1>1
    <2>. QED BY <1>1, <1>2, <2>1, SumDisjoint DEF Total
  <1>3. Total(list, G) \in Nat
    <2>1. IsFiniteSet(G)
      BY <1>1, FS_Subset DEF Own
    <2>2. \A e \in G : list[e] \in Nat
      BY <1>1 DEF Own
    <2>. QED BY <2>1, <2>2, SumType DEF Total
  <1>4. /\ Own(t, g) = Own(u, g) \cup G /\ Own(u, g) \cap G = {}
        /\ Own(u, h) = Own(t, h) \cup G /\ Own(t, h) \cap G = {}
        /\ \A s \in Servers \ {g, h} : Own(u, s) = Own(t, s)
    BY DEF Own
  <1>5. /\ Own(u, g) \in SUBSET Entries /\ Own(t, h) \in SUBSET Entries
        /\ G \in SUBSET Entries
    BY DEF Own
  <1>6. Total(list, Own(t, g)) = Total(list, Own(u, g)) + Total(list, G)
    BY <1>2, <1>4, <1>5
  <1>7. Total(list, Own(u, h)) = Total(list, Own(t, h)) + Total(list, G)
    BY <1>2, <1>4, <1>5
  <1>8. \A s \in Servers :
          /\ Total(list, Own(t, s)) \in Nat /\ Total(list, Own(u, s)) \in Nat
          /\ RelativeLoad(t, list)[s] = Total(list, Own(t, s)) - Balanced(list)
          /\ RelativeLoad(u, list)[s] = Total(list, Own(u, s)) - Balanced(list)
    BY LoadOf
  <1>9. Balanced(list) \in Int
    BY LoadOf
  <1>10. \A s \in Servers \ {g, h} : RelativeLoad(u, list)[s] = RelativeLoad(t, list)[s]
    BY <1>4, <1>8
  <1>. DEFINE w  == Total(list, G)
              tg == Total(list, Own(t, g))
              ug == Total(list, Own(u, g))
              th == Total(list, Own(t, h))
              uh == Total(list, Own(u, h))
              b  == Balanced(list)
  <1>11. /\ tg \in Nat /\ ug \in Nat /\ th \in Nat /\ uh \in Nat
         /\ RelativeLoad(t, list)[g] = tg - b /\ RelativeLoad(u, list)[g] = ug - b
         /\ RelativeLoad(t, list)[h] = th - b /\ RelativeLoad(u, list)[h] = uh - b
    BY <1>8
  <1>12. tg = ug + w /\ uh = th + w /\ w \in Nat /\ b \in Int
    BY <1>3, <1>6, <1>7, <1>9
  <1>. HIDE DEF w, tg, ug, th, uh, b
  <1>13. ug - b = (tg - b) - w /\ uh - b = (th - b) + w
    BY <1>11, <1>12
  <1>14. /\ RelativeLoad(u, list)[g] = RelativeLoad(t, list)[g] - w
         /\ RelativeLoad(u, list)[h] = RelativeLoad(t, list)[h] + w
    BY <1>11, <1>13
  <1>. QED BY <1>3, <1>10, <1>14 DEF w, MovesLoad

(* find_index finds a server with the load it looks for, if there is one. *)
LEMMA IndexFound ==
  ASSUME NEW list, NEW value, \E s \in Servers : list[s] = value
  PROVE  find_index(value, list) \in Servers /\ list[find_index(value, list)] = value
  <1>. DEFINE T == {s \in Servers : list[s] = value}
  <1>1. T \in SUBSET Nat /\ T # {}
    BY Counted
  <1>2. PICK n \in T : \A m \in T : n <= m
    <2>. HIDE DEF T
    <2>. QED BY <1>1, LeastElement
  <1>3. n \in Servers /\ list[n] = value /\ \A r \in 0 .. n - 1 : list[r] # value
    <2>1. n \in Servers /\ list[n] = value
      BY <1>2
    <2>2. ASSUME NEW r \in 0 .. n - 1 PROVE list[r] # value
      <3>1. r \in Servers /\ ~(n <= r)
        BY <2>1, SizesAssumption DEF Servers
      <3>. QED BY <1>2, <3>1
    <2>. QED BY <2>1, <2>2
  <1>. QED BY <1>3 DEF find_index

(* The overloaded servers that give to s. *)
Giving(s) == {g \in Servers : load[g] > 0 /\ target[g] = s}

Computing == pc \in {"assign", "give", "publish"}

(* The loads of the whole computation are those of the table in force, the   *)
(* list of values has loads of overloaded servers, and what a server is to   *)
(* be given brings it no further from the mean.                              *)
LoadsInv ==
  /\ load \in [Servers -> Int]
  /\ subset_l \in Seq(Nat)
  /\ Computing => load = RelativeLoad(srvTable, global_list)
  /\ pc = "assign" =>
       \A x \in ToSet(subset_l) : x > 0 /\ \E s \in Servers : load[s] = x
  /\ pc = "assign" => \A s \in todo : load[s] < 0 /\ Giving(s) = {}
  /\ Computing =>
       \A s \in Servers : ~(load[s] > 0) => load[s] + Total(load, Giving(s)) <= Abs(load[s])
  /\ pc = "publish" => todo = {}

(* What nobody used is in nobody's choice. *)
IdleInv ==
  pc \in {"give", "publish"} =>
    \A e \in Entries : global_list[e] = 0 => mgrTable[e] = srvTable[e]

(* Where a server stands while others have still to give. *)
Share(s) ==
  IF load[s] > 0
  THEN NewLoad[s] \in 0 .. load[s] /\ (s \in todo => NewLoad[s] = load[s])
  ELSE /\ load[s] <= NewLoad[s]
       /\ NewLoad[s] + Total(load, Giving(s) \cap todo) <= Abs(load[s])

SharesInv ==
  pc \in {"give", "publish"} /\ (\A s \in Servers : load[s] > 0 => Distinct(s)) =>
    \A s \in Servers : Share(s)

ComputeInv == LoadsInv /\ IdleInv /\ SharesInv

(* The invariant holds at the start. *)
LEMMA ComputeInit == Init => ComputeInv
  <1> SUFFICES ASSUME Init PROVE ComputeInv
    OBVIOUS
  <1>1. pc = "step" /\ load = [s \in Servers |-> 0] /\ subset_l = <<>>
    BY DEF Init
  <1>2. <<>> \in Seq(Nat) /\ [s \in Servers |-> 0] \in [Servers -> Int]
    OBVIOUS
  <1>3. LoadsInv
    BY <1>1, <1>2 DEF LoadsInv, Computing
  <1> QED BY <1>1, <1>3 DEF ComputeInv, IdleInv, SharesInv

(* Steps outside the computation. *)
LEMMA ComputeIdle ==
  ASSUME ComputeInv, UNCHANGED <<load, subset_l>>, pc' \in {"step", "gather"}
  PROVE  ComputeInv'
  <1>1. LoadsInv'
    BY DEF ComputeInv, LoadsInv, Computing
  <1> QED BY <1>1 DEF ComputeInv, IdleInv, SharesInv

(* The loads are computed from the table, which is still the one in force. *)
LEMMA ComputeLoads ==
  ASSUME MergeInv, MergeInv', CalculateLoads
  PROVE  ComputeInv'
  <1>1. /\ pc = "gather" /\ pc' = "assign"
        /\ load' = RelativeLoad(mgrTable, global_list)
        /\ subset_l' = ValuesOn(load', {s \in Servers : load'[s] > 0})
        /\ target' = [s \in Servers |-> s]
        /\ todo' = {s \in Servers : ~(load'[s] > 0) /\ load'[s] < 0}
        /\ UNCHANGED <<global_list, mgrTable, srvTable>>
    BY DEF CalculateLoads
  <1>2. mgrTable = srvTable /\ global_list \in Sai
    BY <1>1 DEF MergeInv, TablesInv, ListsOK
  <1>3. load' \in [Servers -> Int] /\ load' = RelativeLoad(srvTable', global_list')
    BY <1>1, <1>2, LoadOf
  <1>4. subset_l' \in Seq(Nat) /\ ToSet(subset_l') = {load'[s] : s \in {s \in Servers : load'[s] > 0}}
    <2>. DEFINE E == {s \in Servers : load'[s] > 0}
    <2>1. E \in SUBSET Nat /\ IsFiniteSet(E)
      BY Counted, FS_Subset
    <2>2. \A x \in E : load'[x] \in Nat
      BY <1>3
    <2>. HIDE DEF E
    <2>3. ValuesOn(load', E) \in Seq(Nat) /\ ToSet(ValuesOn(load', E)) = {load'[x] : x \in E}
      BY <2>1, <2>2, ListOfValues
    <2>. QED BY <1>1, <2>3 DEF E
  <1>5. \A x \in ToSet(subset_l') : x > 0 /\ \E s \in Servers : load'[s] = x
    BY <1>4
  <1>6. \A s \in Servers : ~(load'[s] > 0) => Giving(s)' = {}
    BY <1>1 DEF Giving
  <1>7. \A s \in todo' : load'[s] < 0 /\ Giving(s)' = {}
    BY <1>1, <1>6
  <1>8. Total(load', {}) = 0
    BY FS_EmptySet, SumRecursion DEF Total
  <1>9. ASSUME NEW s \in Servers, ~(load'[s] > 0)
        PROVE  load'[s] + Total(load', Giving(s)') <= Abs(load'[s])
    <2>1. Total(load', Giving(s)') = 0 /\ load'[s] \in Int
      BY <1>3, <1>6, <1>8, <1>9
    <2>. QED BY <2>1 DEF Abs
  <1>10. LoadsInv'
    <2>1. \A s \in Servers : ~(load'[s] > 0) =>
            load'[s] + Total(load', Giving(s)') <= Abs(load'[s])
      BY <1>9
    <2>. HIDE DEF Giving
    <2>. QED BY <1>1, <1>3, <1>4, <1>5, <1>7, <2>1 DEF LoadsInv, Total, Abs
  <1> QED BY <1>1, <1>10 DEF ComputeInv, IdleInv, SharesInv

(* What an underloaded server is to be given does not overshoot. *)
LEMMA ComputeAssign ==
  ASSUME MergeInv, ComputeInv, NEW s \in Servers, AssignTo(s)
  PROVE  ComputeInv'
  <1> DEFINE subset_c == PickValues(load[s], subset_l, 0)
             givers   == {find_index(x, load) : x \in ToSet(subset_c)}
  <1>1. /\ pc = "assign" /\ pc' = "assign" /\ s \in todo /\ todo' = todo \ {s}
        /\ target' = [g \in Servers |-> IF g \in givers THEN s ELSE target[g]]
        /\ subset_l' = RemoveEach(subset_l, subset_c)
        /\ UNCHANGED <<global_list, srvTable, load>>
    BY DEF AssignTo
  <1>2. /\ load \in [Servers -> Int] /\ subset_l \in Seq(Nat)
        /\ load = RelativeLoad(srvTable, global_list)
        /\ \A x \in ToSet(subset_l) : x > 0 /\ \E r \in Servers : load[r] = x
        /\ \A r \in todo : load[r] < 0 /\ Giving(r) = {}
        /\ \A r \in Servers : ~(load[r] > 0) => load[r] + Total(load, Giving(r)) <= Abs(load[r])
    BY <1>1 DEF ComputeInv, LoadsInv, Computing
  <1>3. load[s] \in Int /\ load[s] < 0 /\ Giving(s) = {} /\ 0 \in Int /\ load[s] <= 0
    BY <1>1, <1>2
  <1> DEFINE picked == ToSet(subset_c)
  <1>4. /\ subset_c \in Seq(ToSet(subset_l))
        /\ \A x \in picked : x \in ToSet(subset_l)
    BY <1>2, <1>3, PickedValues
  <1>5. subset_l' \in Seq(Nat) /\ ToSet(subset_l') \in SUBSET ToSet(subset_l)
    <2> DEFINE S == ToSet(subset_l)
    <2>1. subset_l \in Seq(S)
      <3>1. \A i \in 1 .. Len(subset_l) : subset_l[i] \in S
        BY DEF ToSet
      <3> HIDE DEF S
      <3> QED BY <1>2, <3>1
    <2>2. S \in SUBSET Nat
      BY <1>2, ElementsOfList
    <2> HIDE DEF S, subset_c
    <2>3. RemoveEach(subset_l, subset_c) \in Seq(S)
      BY <1>4, <2>1, RemovedEach DEF S
    <2>4. RemoveEach(subset_l, subset_c) \in Seq(Nat)
      BY <1>2, <1>4, RemovedEach
    <2>5. ToSet(subset_l') \in SUBSET S
      BY <1>1, <2>3, ElementsOfList
    <2> QED BY <1>1, <2>4, <2>5 DEF S
  <1>6. \A x \in picked :
          find_index(x, load) \in Servers /\ load[find_index(x, load)] = x /\ x > 0
    BY <1>2, <1>4, IndexFound
  <1>7. \A g \in givers : g \in Servers /\ load[g] \in picked /\ load[g] > 0
    BY <1>6
  <1>8. \A g, h \in givers : g # h => load[g] # load[h]
    BY <1>6
  <1>9. IsFiniteSet(givers)
    <2>1. givers \in SUBSET Servers
      BY <1>7
    <2> QED BY <2>1, Counted, FS_Subset
  <1>10. Giving(s)' = givers
    BY <1>1, <1>3, <1>7 DEF Giving
  <1>11. \A r \in Servers \ {s} : Giving(r)' = Giving(r) \ givers
    BY <1>1, <1>7 DEF Giving
  <1> HIDE DEF givers
  <1>12. load[s] + Total(load, givers) <= Abs(load[s])
    <2> HIDE DEF subset_c
    <2> DEFINE sum == SumFunctionOnSet(load, givers)
    <2>1. /\ sum \in Nat
          /\ load[s] + sum <= 0 \/ load[s] + sum < Abs(load[s])
      <3>1. \A g \in givers : load[g] \in picked
        BY <1>7
      <3>2. picked = ToSet(PickValues(load[s], subset_l, 0))
        BY DEF subset_c
      <3> HIDE DEF picked
      <3> QED BY <1>2, <1>3, <1>8, <1>9, <3>1, <3>2, PickedBound
    <2> HIDE DEF sum
    <2>2. load[s] + sum <= Abs(load[s])
      BY <1>3, <2>1 DEF Abs
    <2> QED BY <2>2 DEF Total, sum
  <1> HIDE DEF subset_c
  <1>13. ASSUME NEW r \in Servers, ~(load[r] > 0)
         PROVE  load'[r] + Total(load', Giving(r)') <= Abs(load'[r])
    <2>1. CASE r = s
      BY <1>1, <1>10, <1>12, <2>1
    <2>2. CASE r # s
      <3>1. Giving(r)' \in SUBSET Giving(r)
        BY <1>11, <2>2
      <3>2. IsFiniteSet(Giving(r)) /\ IsFiniteSet(Giving(r)')
        BY <3>1, Counted, FS_Subset DEF Giving
      <3>3. \A g \in Giving(r) : load[g] \in Nat
        BY <1>2 DEF Giving
      <3>4. SumFunctionOnSet(load, Giving(r)') <= SumFunctionOnSet(load, Giving(r))
        BY <3>1, <3>2, <3>3, SumMonotone
      <3>5. \A g \in Giving(r)' : load[g] \in Nat
        BY <3>1, <3>3
      <3>6. /\ SumFunctionOnSet(load, Giving(r)) \in Nat
            /\ SumFunctionOnSet(load, Giving(r)') \in Nat
        BY <3>2, <3>3, <3>5, SumType
      <3>7. load[r] + SumFunctionOnSet(load, Giving(r)) <= Abs(load[r])
        BY <1>2, <1>13 DEF Total
      <3>8. load[r] \in Int
        BY <1>2
      <3>9. load[r] + SumFunctionOnSet(load, Giving(r)') <= Abs(load[r])
        BY <3>4, <3>6, <3>7, <3>8 DEF Abs
      <3> QED BY <1>1, <3>9 DEF Total
    <2> QED BY <2>1, <2>2
  <1>14. \A r \in todo' : load'[r] < 0 /\ Giving(r)' = {}
    <2>1. todo \subseteq Servers
      BY DEF MergeInv, TablesInv
    <2> QED BY <1>1, <1>2, <1>11, <2>1
  <1>15. \A x \in ToSet(subset_l') : x > 0 /\ \E r \in Servers : load'[r] = x
    BY <1>1, <1>2, <1>5
  <1>16. LoadsInv'
    <2>1. \A r \in Servers : ~(load'[r] > 0) =>
            load'[r] + Total(load', Giving(r)') <= Abs(load'[r])
      BY <1>1, <1>13
    <2> QED BY <1>1, <1>2, <1>5, <1>14, <1>15, <2>1 DEF LoadsInv, Total, Abs
  <1> QED BY <1>1, <1>16 DEF ComputeInv, IdleInv, SharesInv

(* Nobody has given anything yet: every share is what the loads say. *)
LEMMA ComputeAssigned ==
  ASSUME MergeInv, ComputeInv, Assigned
  PROVE  ComputeInv'
  <1>1. /\ pc = "assign" /\ pc' = "give"
        /\ todo' = {g \in Servers : load[g] > 0 /\ target[g] # g}
        /\ UNCHANGED <<global_list, mgrTable, srvTable, load, subset_l, target>>
    BY DEF Assigned
  <1>2. /\ load \in [Servers -> Int]
        /\ load = RelativeLoad(srvTable, global_list)
        /\ \A s \in Servers : ~(load[s] > 0) => load[s] + Total(load, Giving(s)) <= Abs(load[s])
    BY <1>1 DEF ComputeInv, LoadsInv, Computing
  <1>3. mgrTable = srvTable
    BY <1>1 DEF MergeInv, TablesInv
  <1>4. LoadsInv'
    <2>1. \A s \in Servers : Giving(s)' = Giving(s)
      BY <1>1 DEF Giving
    <2> QED BY <1>1, <2>1 DEF ComputeInv, LoadsInv, Computing
  <1>5. IdleInv'
    BY <1>1, <1>3 DEF IdleInv
  <1>6. NewLoad' = load
    BY <1>1, <1>2, <1>3 DEF NewLoad
  <1>7. ASSUME NEW s \in Servers PROVE Share(s)'
    <2>1. load[s] \in Int /\ load'[s] = load[s] /\ NewLoad'[s] = load[s]
      BY <1>1, <1>2, <1>6
    <2>2. CASE load[s] > 0
      BY <2>1, <2>2 DEF Share
    <2>3. CASE ~(load[s] > 0)
      <3>1. Giving(s)' = Giving(s) /\ (Giving(s) \cap todo)' = Giving(s)
        BY <1>1, <2>3 DEF Giving
      <3>2. Total(load, Giving(s) \cap todo)' = Total(load, Giving(s))
        BY <1>1, <3>1
      <3>3. (NewLoad[s] + Total(load, Giving(s) \cap todo))' = load[s] + Total(load, Giving(s))
        BY <2>1, <3>2
      <3>4. Abs(load[s])' = Abs(load[s])
        BY <2>1 DEF Abs
      <3> QED BY <1>2, <2>1, <2>3, <3>3, <3>4 DEF Share
    <2> QED BY <2>2, <2>3
  <1>8. SharesInv'
    BY <1>7 DEF SharesInv
  <1> QED BY <1>4, <1>5, <1>8 DEF ComputeInv

(* The values a server picks are those of entries in use. *)
LEMMA GivenValues ==
  ASSUME global_list \in Sai, NEW g \in Servers, load[g] \in Int,
         NEW values, values = ValuesOn(global_list, Own(mgrTable, g))
  PROVE  /\ values \in Seq(Nat)
         /\ \A x \in ToSet(PickValues(0, values, load[g])) : x # 0
  <1>1. Own(mgrTable, g) \in SUBSET Nat /\ IsFiniteSet(Own(mgrTable, g))
    <2>1. Own(mgrTable, g) \in SUBSET Entries
      BY DEF Own
    <2> QED BY <2>1, Counted, FS_Subset
  <1>2. \A e \in Own(mgrTable, g) : global_list[e] \in Nat
    BY DEF Own, Sai
  <1>3. values \in Seq(Nat)
    BY <1>1, <1>2, ListOfValues
  <1>4. 0 \in Int
    OBVIOUS
  <1> QED BY <1>3, <1>4, PickedValues

(* A server that gives keeps what is not in excess, and what it gives does   *)
(* not bring its target further from the mean.                               *)
LEMMA ComputeGive ==
  ASSUME MergeInv, ComputeInv, NEW g \in Servers, Give(g)
  PROVE  ComputeInv'
  <1> DEFINE values == ValuesOn(global_list, Own(mgrTable, g))
             picked == ToSet(PickValues(0, values, load[g]))
             given  == {e \in Own(mgrTable, g) : global_list[e] \in picked}
             h      == target[g]
             w      == Total(global_list, given)
  <1>1. /\ pc = "give" /\ pc' = "give" /\ g \in todo /\ todo' = todo \ {g}
        /\ mgrTable' = [e \in Entries |-> IF e \in given THEN Reassign(mgrTable[e], h)
                                          ELSE mgrTable[e]]
        /\ UNCHANGED <<global_list, srvTable, load, subset_l, target>>
    BY DEF Give
  <1>2. /\ load[g] > 0 /\ h # g /\ h \in Servers /\ ~(load[h] > 0)
        /\ todo \in SUBSET Servers
        /\ \A r \in todo : load[r] > 0
        /\ \A e \in Entries : mgrTable[e] \in Assignment /\ srvTable[e] \in Assignment
    BY <1>1 DEF MergeInv, TablesInv
  <1>3. global_list \in Sai /\ load \in [Servers -> Int]
    BY DEF MergeInv, ListsOK, ComputeInv, LoadsInv
  <1>4. values \in Seq(Nat) /\ \A x \in picked : x # 0
    <2>1. load[g] \in Int
      BY <1>3
    <2> QED BY <1>3, <2>1, GivenValues
  <1> HIDE DEF values
  <1>5. LoadsInv'
    <2>1. \A s \in Servers : Giving(s)' = Giving(s)
      BY <1>1 DEF Giving
    <2> QED BY <1>1, <2>1 DEF ComputeInv, LoadsInv, Computing
  <1> HIDE DEF picked
  <1>6. IdleInv'
    BY <1>1, <1>4 DEF ComputeInv, IdleInv
  <1>7. SUFFICES ASSUME (\A s \in Servers : load[s] > 0 => Distinct(s))', NEW s \in Servers
                 PROVE  Share(s)'
    BY <1>5, <1>6 DEF ComputeInv, SharesInv
  <1>8. \A r \in Servers : load[r] > 0 => Distinct(r)
    BY <1>1, <1>7 DEF Distinct, Own
  <1>9. \A r \in Servers : Share(r)
    BY <1>1, <1>8 DEF ComputeInv, SharesInv
  <1>10. given \in SUBSET Own(mgrTable, g) /\ given \in SUBSET Entries
    BY DEF Own
  <1>11. \A e \in Entries : mgrTable'[e].id_srv = IF e \in given THEN h ELSE mgrTable[e].id_srv
    <2>1. \A e \in given : Reassign(mgrTable[e], h).id_srv = h
      BY <1>2, <1>10, ReassignLine
    <2> HIDE DEF given, h
    <2> QED BY <1>1, <2>1
  <1> HIDE DEF given, h
  <1>12. /\ w \in Nat
         /\ NewLoad'[g] = NewLoad[g] - w
         /\ NewLoad'[h] = NewLoad[h] + w
         /\ \A r \in Servers \ {g, h} : NewLoad'[r] = NewLoad[r]
    <2>1. /\ Total(global_list, given) \in Nat
          /\ RelativeLoad(mgrTable', global_list)[g]
               = RelativeLoad(mgrTable, global_list)[g] - Total(global_list, given)
          /\ RelativeLoad(mgrTable', global_list)[h]
               = RelativeLoad(mgrTable, global_list)[h] + Total(global_list, given)
          /\ \A r \in Servers \ {g, h} :
               RelativeLoad(mgrTable', global_list)[r] = RelativeLoad(mgrTable, global_list)[r]
      <3>1. g # h /\ h \in Servers
        BY <1>2
      <3>2. given \in SUBSET Own(mgrTable, g)
        BY <1>10
      <3> DEFINE u == mgrTable'
      <3>3. \A e \in given : u[e].id_srv = h
        BY <1>10, <1>11
      <3>5. \A e \in Entries \ given : u[e].id_srv = mgrTable[e].id_srv
        BY <1>11
      <3>6. global_list \in Sai
        BY <1>3
      <3> HIDE DEF u
      <3>4. MovesLoad(global_list, mgrTable, u, given, g, h)
        BY <3>1, <3>2, <3>3, <3>5, <3>6, LoadMoves
      <3> QED BY <3>4 DEF u, MovesLoad
    <2> QED BY <1>1, <2>1 DEF NewLoad
  <1>13. w <= load[g]
    <2>1. \A e, f \in given : e # f => global_list[e] # global_list[f]
      <3>1. Distinct(g)
        BY <1>2, <1>8
      <3>2. \A e \in given : e \in Own(srvTable, g) /\ global_list[e] # 0
        <4>1. ASSUME NEW e \in given PROVE e \in Own(srvTable, g)
          <5>1. e \in Entries /\ mgrTable[e].id_srv = g
            BY <1>10 DEF Own
          <5>2. SUFFICES ASSUME mgrTable[e] # srvTable[e] PROVE FALSE
            BY <5>1 DEF Own
          <5>3. GivenTo(e)
            BY <5>1, <5>2 DEF MergeInv, TablesInv
          <5>4. srvTable[e] \in Assignment /\ srvTable[e].id_srv \in Servers
            BY <1>2, <5>1 DEF Assignment
          <5>5. target[srvTable[e].id_srv] \in Servers
            BY <5>4 DEF MergeInv, TablesInv
          <5>6. target[srvTable[e].id_srv] = g
            <6>1. mgrTable[e] = Reassign(srvTable[e], target[srvTable[e].id_srv])
              BY <5>3 DEF GivenTo
            <6>2. Reassign(srvTable[e], target[srvTable[e].id_srv]).id_srv
                    = target[srvTable[e].id_srv]
              BY <5>4, <5>5, ReassignLine
            <6> QED BY <5>1, <6>1, <6>2
          <5> QED BY <1>2, <5>3, <5>4, <5>6 DEF GivenTo, MergeInv, TablesInv
        <4> QED BY <1>4, <4>1 DEF given
      <3> QED BY <3>1, <3>2 DEF Distinct
    <2>2. IsFiniteSet(given)
      BY <1>10, Counted, FS_Subset
    <2>3. \A e \in given : global_list[e] \in picked
      BY DEF given
    <2>4. picked = ToSet(PickValues(0, values, load[g]))
      BY DEF picked
    <2>5. 0 \in Int /\ load[g] \in Int /\ 0 <= load[g]
      BY <1>2, <1>3
    <2> DEFINE sum == SumFunctionOnSet(global_list, given)
    <2>6. sum \in Nat /\ (0 + sum <= load[g] \/ 0 + sum < Abs(0))
      BY <1>4, <2>1, <2>2, <2>3, <2>4, <2>5, PickedBound
    <2> HIDE DEF sum
    <2>7. sum <= load[g]
      BY <2>5, <2>6 DEF Abs
    <2> QED BY <2>7 DEF sum, Total
  <1> HIDE DEF w
  <1>14. NewLoad \in [Servers -> Int]
    BY <1>3, LoadOf DEF NewLoad
  <1>15. load'[s] = load[s] /\ load[s] \in Int
    BY <1>1, <1>3
  <1>16. CASE s = g
    <2>1. NewLoad[g] = load[g]
      BY <1>1, <1>2, <1>9 DEF Share
    <2>2. NewLoad'[g] \in 0 .. load[g]
      BY <1>12, <1>13, <1>15, <1>16, <2>1
    <2> QED BY <1>1, <1>2, <1>15, <1>16, <2>2 DEF Share
  <1>17. CASE s = h
    <2>1. g \in Giving(h) \cap todo
      BY <1>1, <1>2 DEF Giving, h
    <2>2. (Giving(h) \cap todo)' = (Giving(h) \cap todo) \ {g}
      <3>1. \A r \in Servers : {f \in Servers : load[f] > 0 /\ target[f] = r}'
                                 = {f \in Servers : load[f] > 0 /\ target[f] = r}
        BY <1>1
      <3>2. h' = h
        BY <1>1 DEF h
      <3> QED BY <1>1, <1>2, <3>2 DEF Giving
    <2> DEFINE U == Giving(h) \cap todo
    <2>3. IsFiniteSet(U) /\ \A f \in U : load[f] \in Int
      <3>1. U \in SUBSET Servers
        BY DEF Giving
      <3> QED BY <1>3, <3>1, Counted, FS_Subset
    <2> HIDE DEF U
    <2>4. SumFunctionOnSet(load, U) = load[g] + SumFunctionOnSet(load, U \ {g})
      BY <2>1, <2>3, SumRemove DEF U
    <2>5. /\ load[h] <= NewLoad[h]
          /\ NewLoad[h] + SumFunctionOnSet(load, U) <= Abs(load[h])
      BY <1>2, <1>9 DEF Share, Total, U
    <2>6. SumFunctionOnSet(load, U \ {g}) \in Int
      <3>1. IsFiniteSet(U \ {g}) /\ \A f \in U \ {g} : load[f] \in Int
        BY <2>3, FS_Subset
      <3> QED BY <3>1, SumType
    <2>7. NewLoad[h] \in Int /\ load[g] \in Int /\ load[h] \in Int
      BY <1>2, <1>3, <1>14
    <2>8. load[h] <= NewLoad'[h]
      BY <1>12, <2>5, <2>7
    <2>9. NewLoad'[h] + SumFunctionOnSet(load, U \ {g}) <= Abs(load[h])
      <3> DEFINE rest == SumFunctionOnSet(load, U \ {g})
                 all  == SumFunctionOnSet(load, U)
                 a    == Abs(load[h])
      <3>1. a \in Int
        BY <2>7 DEF Abs
      <3> HIDE DEF rest, all, a
      <3>2. /\ all = load[g] + rest /\ rest \in Int
            /\ NewLoad[h] + all <= a
        BY <2>4, <2>5, <2>6 DEF rest, all, a
      <3>3. (NewLoad[h] + w) + rest <= a
        BY <1>12, <1>13, <2>7, <3>1, <3>2
      <3> QED BY <1>12, <3>3 DEF rest, a
    <2>10. Total(load, Giving(h) \cap todo)' = SumFunctionOnSet(load, U \ {g})
      BY <1>1, <2>2 DEF Total, U
    <2>11. Abs(load[h])' = Abs(load[h])
      <3>1. load[h]' = load[h]
        BY <1>1 DEF h
      <3> QED BY <3>1 DEF Abs
    <2>12. h' = h /\ load'[h] = load[h]
      BY <1>1 DEF h
    <2>13. (NewLoad[h] + Total(load, Giving(h) \cap todo))'
             = NewLoad'[h] + SumFunctionOnSet(load, U \ {g})
      BY <2>10, <2>12
    <2> QED BY <1>2, <1>15, <1>17, <2>8, <2>9, <2>11, <2>12, <2>13 DEF Share
  <1>18. CASE s # g /\ s # h
    <2>1. NewLoad'[s] = NewLoad[s]
      BY <1>12, <1>18
    <2>2. (Giving(s) \cap todo)' = Giving(s) \cap todo
      <3>1. g \notin Giving(s)
        BY <1>18 DEF Giving, h
      <3>2. Giving(s)' = Giving(s)
        BY <1>1 DEF Giving
      <3> QED BY <1>1, <3>1, <3>2
    <2>3. Total(load, Giving(s) \cap todo)' = Total(load, Giving(s) \cap todo)
      BY <1>1, <2>2
    <2>4. Abs(load[s])' = Abs(load[s])
      BY <1>15 DEF Abs
    <2>5. todo' \in SUBSET todo
      BY <1>1
    <2>6. Share(s)
      BY <1>9
    <2> QED BY <1>15, <2>1, <2>3, <2>4, <2>5, <2>6 DEF Share
  <1> QED BY <1>16, <1>17, <1>18

(* When all have given there is nothing more to come. *)
LEMMA ComputeGiven ==
  ASSUME ComputeInv, Given
  PROVE  ComputeInv'
  <1>1. /\ pc = "give" /\ pc' = "publish" /\ todo = {}
        /\ UNCHANGED <<global_list, mgrTable, srvTable, load, subset_l, target, todo>>
    BY DEF Given, computed
  <1>2. \A s \in Servers : Giving(s)' = Giving(s)
    BY <1>1 DEF Giving
  <1>3. LoadsInv'
    <2> QED BY <1>1, <1>2 DEF ComputeInv, LoadsInv, Computing
  <1>4. IdleInv'
    BY <1>1 DEF ComputeInv, IdleInv
  <1>5. \A s \in Servers : Share(s) => Share(s)'
    BY <1>1 DEF Share, NewLoad, Giving
  <1>6. (\A s \in Servers : load[s] > 0 => Distinct(s))'
          => \A s \in Servers : load[s] > 0 => Distinct(s)
    BY <1>1 DEF Distinct, Own
  <1>7. SharesInv'
    BY <1>1, <1>5, <1>6 DEF ComputeInv, SharesInv
  <1> QED BY <1>3, <1>4, <1>7 DEF ComputeInv

BoundsInv == accesses \in 0 .. MaxAccesses /\ rounds \in 0 .. MaxRounds

BalanceInv == MergeInv /\ ComputeInv /\ BoundsInv

(* Every step keeps the invariant. *)
LEMMA BalanceStep == BalanceInv /\ [Next]_vars => BalanceInv'
  <1> SUFFICES ASSUME BalanceInv, [Next]_vars PROVE BalanceInv'
    OBVIOUS
  <1>1. MergeInv /\ MergeInv' /\ ComputeInv
    BY MergeStep DEF BalanceInv
  <1>2. BoundsInv'
    <2>1. accesses' = accesses \/ (accesses < MaxAccesses /\ accesses' = accesses + 1)
      BY DEF Next, vars, servers, eacl_incr_access, Signal, distribution_signal2_action, Gather,
             CalculateLoads, AssignTo, Assigned, Give, Given, Transfer
    <2>2. rounds' = rounds \/ (rounds < MaxRounds /\ rounds' = rounds + 1)
      BY DEF Next, vars, eacl_incr_access, Signal, distribution_signal2_action, Gather,
             CalculateLoads, AssignTo, Assigned, Give, Given, Transfer
    <2> QED BY <2>1, <2>2, BalanceAssumption DEF BalanceInv, BoundsInv
  <1>3. ComputeInv'
    <2>1. CASE UNCHANGED vars
      <3>1. UNCHANGED <<global_list, mgrTable, srvTable, pc, load, subset_l, target, todo>>
        BY <2>1 DEF vars, computed
      <3>2. \A s \in Servers : Giving(s)' = Giving(s)
        BY <3>1 DEF Giving
      <3>3. LoadsInv'
        <4>1. \A s \in Servers : Total(load, Giving(s))' = Total(load, Giving(s))
          BY <3>1, <3>2
        <4>2. \A s \in Servers : Abs(load[s])' = Abs(load[s])
          BY <3>1
        <4>3. (RelativeLoad(srvTable, global_list))' = RelativeLoad(srvTable, global_list)
          BY <3>1
        <4>4. todo \subseteq Servers
          BY <1>1 DEF MergeInv, TablesInv
        <4>5. \A s \in todo : load[s] < 0 /\ Giving(s) = {} => (load[s] < 0 /\ Giving(s) = {})'
          BY <3>1, <3>2, <4>4
        <4>6. \A s \in Servers :
                ~(load[s] > 0) /\ load[s] + Total(load, Giving(s)) <= Abs(load[s])
                  => (load[s] + Total(load, Giving(s)) <= Abs(load[s]))'
          BY <4>1, <4>2, <3>1
        <4> QED BY <1>1, <3>1, <4>3, <4>5, <4>6 DEF ComputeInv, LoadsInv, Computing
      <3>4. IdleInv'
        BY <1>1, <3>1 DEF ComputeInv, IdleInv
      <3>5. \A s \in Servers : Share(s) => Share(s)'
        BY <3>1 DEF Share, NewLoad, Giving
      <3>6. (\A s \in Servers : load[s] > 0 => Distinct(s))'
              => \A s \in Servers : load[s] > 0 => Distinct(s)
        BY <3>1 DEF Distinct, Own
      <3>7. SharesInv'
        BY <1>1, <3>1, <3>5, <3>6 DEF ComputeInv, SharesInv
      <3> QED BY <3>3, <3>4, <3>7 DEF ComputeInv
    <2>2. ASSUME NEW e \in Entries, eacl_incr_access(e) PROVE ComputeInv'
      BY <1>1, <2>2, ComputeIdle DEF eacl_incr_access, computed
    <2>3. CASE Signal
      BY <1>1, <2>3, ComputeIdle DEF Signal, computed
    <2>4. ASSUME NEW s \in Servers, distribution_signal2_action(s) PROVE ComputeInv'
      <3>1. pc = "gather" /\ pc' = pc
        BY <1>1, <2>4 DEF distribution_signal2_action, MergeInv, MessagesOK
      <3> QED BY <1>1, <2>4, <3>1, ComputeIdle DEF distribution_signal2_action, computed
    <2>5. ASSUME NEW msg \in pull, Gather(msg) PROVE ComputeInv'
      BY <1>1, <2>5, ComputeIdle DEF Gather, computed
    <2>6. CASE Transfer
      BY <1>1, <2>6, ComputeIdle DEF Transfer, computed
    <2>7. ASSUME NEW s \in Servers, AssignTo(s) PROVE ComputeInv'
      BY <1>1, <2>7, ComputeAssign
    <2>8. ASSUME NEW s \in Servers, Give(s) PROVE ComputeInv'
      BY <1>1, <2>8, ComputeGive
    <2>9. CASE CalculateLoads
      BY <1>1, <2>9, ComputeLoads
    <2>10. CASE Assigned
      BY <1>1, <2>10, ComputeAssigned
    <2>11. CASE Given
      BY <1>1, <2>11, ComputeGiven
    <2> QED BY <2>1, <2>2, <2>3, <2>4, <2>5, <2>6, <2>7, <2>8, <2>9, <2>10, <2>11 DEF Next
  <1> QED BY <1>1, <1>2, <1>3 DEF BalanceInv

(* In every reachable state of a redistribution the tables, the messages and *)
(* the loads are related as the parts of the invariant say.                  *)
THEOREM BalanceInvariance == Spec => []BalanceInv
  <1>1. Init => BalanceInv
    <2>1. Init => BoundsInv
      BY BalanceAssumption DEF Init, BoundsInv
    <2> QED BY <2>1, MergeInit, ComputeInit DEF BalanceInv
  <1> QED BY <1>1, BalanceStep, PTL DEF Spec

(* The variables of the counters, of the messages and of the local lists of  *)
(* manager_calculate_relab keep their types.                                 *)
THEOREM BalanceTypes == Spec => []TypeOK
  <1>1. BalanceInv => TypeOK
    <2> SUFFICES ASSUME BalanceInv PROVE TypeOK
      OBVIOUS
    <2>1. MergeInv /\ TablesInv /\ ListsOK /\ MessagesOK /\ LoadsInv /\ BoundsInv
      BY DEF BalanceInv, MergeInv, ComputeInv
    <2>2. pull \subseteq [srv : Servers, sai : Sai]
      <3> SUFFICES ASSUME NEW msg \in pull PROVE msg \in [srv : Servers, sai : Sai]
        OBVIOUS
      <3>1. msg.srv \in Servers /\ msg = Message(msg.srv)
        BY <2>1 DEF MessagesOK
      <3>2. sai[msg.srv] \in Sai
        BY <2>1, <3>1 DEF ListsOK
      <3> QED BY <3>1, <3>2 DEF Message
    <2>3. nb_rcv \in 0 .. NbSrv
      <3>1. Cardinality(unsent) \in Nat /\ Cardinality(pull) \in Nat
        BY <2>1, Counted, FS_Subset, FS_CardinalityType DEF MessagesOK
      <3> QED BY <2>1, <3>1, SizesAssumption DEF MessagesOK
    <2> QED BY <2>1, <2>2, <2>3 DEF TypeOK, TablesInv, ListsOK, MessagesOK, LoadsInv, BoundsInv
  <1> QED BY <1>1, BalanceInvariance, PTL

(* manager_balance_load stops at the first zero: an entry that nobody used   *)
(* stays where it is, whatever the other values are.                         *)
THEOREM UnusedStay == Spec => []IdleEntriesStay
  <1>1. BalanceInv => IdleEntriesStay
    BY DEF BalanceInv, ComputeInv, IdleInv, IdleEntriesStay
  <1> QED BY <1>1, BalanceInvariance, PTL

(* Where the values of each overloaded server differ, manager_calculate_relab *)
(* takes from none more than its excess and brings none further from the mean.*)
THEOREM LoadsComeCloser == Spec => []NoOvershoot
  <1>1. BalanceInv => NoOvershoot
    <2> SUFFICES ASSUME BalanceInv, pc = "publish",
                        \A s \in Servers : load[s] > 0 => Distinct(s),
                        NEW s \in Servers
                 PROVE  IF load[s] > 0 THEN NewLoad[s] \in 0 .. load[s]
                        ELSE Abs(NewLoad[s]) <= Abs(load[s])
      BY DEF NoOvershoot
    <2>1. Share(s) /\ todo = {} /\ load \in [Servers -> Int]
      BY DEF BalanceInv, ComputeInv, SharesInv, LoadsInv
    <2>2. CASE load[s] > 0
      BY <2>1, <2>2 DEF Share
    <2>3. CASE ~(load[s] > 0)
      <3>1. Total(load, Giving(s) \cap todo) = 0
        <4>1. Giving(s) \cap todo = {}
          BY <2>1
        <4> QED BY <4>1, FS_EmptySet, SumRecursion DEF Total
      <3>2. load[s] \in Int /\ NewLoad[s] \in Int
        <4>1. NewLoad \in [Servers -> Int]
          BY LoadOf DEF BalanceInv, MergeInv, ListsOK, NewLoad
        <4> QED BY <2>1, <4>1
      <3>3. load[s] <= NewLoad[s] /\ NewLoad[s] + 0 <= Abs(load[s])
        BY <2>1, <2>3, <3>1 DEF Share
      <3>4. Abs(NewLoad[s]) <= Abs(load[s])
        BY <2>3, <3>2, <3>3 DEF Abs
      <3> QED BY <2>3, <3>4
    <2> QED BY <2>2, <2>3
  <1> QED BY <1>1, BalanceInvariance, PTL
=============================================================================
