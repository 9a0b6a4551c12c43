----------------------------- MODULE BalanceDH -----------------------------
(***************************************************************************)
(* The computation behind a redistribution of the DH build: the access     *)
(* counters of the servers (src/eacl_dh.c), what the manager makes of them *)
(* (manager_merge_eacl) and manager_calculate_relab with its greedy        *)
(* manager_balance_load (src/manager_dh.c).  Clients are stopped meanwhile,*)
(* as launch_all.sh does, and the transfer itself is one step.             *)
(***************************************************************************)
EXTENDS Loads

CONSTANTS Burst,        \* accesses of an entry in a row (bound)
          MaxAccesses,  \* such bursts in the run (bound)
          MaxRounds     \* redistributions (bound)

ASSUME BalanceAssumption == Burst \in Nat \ {0} /\ MaxAccesses \in Nat /\ MaxRounds \in Nat

VARIABLES
  access_count, sai,  \* the eacl of each server
  accesses,           \* bursts so far
  unsent,             \* servers whose SIGUSR2 handler has not run yet
  pull,               \* SAI messages on their way to the manager
  nb_rcv,             \* SAI messages merged in this round
  global_list,        \* the manager's SAI of each entry
  mgrTable,           \* the manager's table
  srvTable,           \* the table of all servers and clients
  pc,                 \* what the system is doing
  load,               \* relative load of each server
  subset_l,           \* loads of overloaded servers not yet given away
  target,             \* the server each server gives to; itself: gives nothing
  todo,               \* servers the current loop has still to look at
  rounds

servers == <<access_count, sai, accesses, unsent>>
computed == <<load, subset_l, target, todo>>
vars == <<servers, pull, nb_rcv, global_list, mgrTable, srvTable, pc, computed, rounds>>

TypeOK ==
  /\ access_count \in [Servers -> Sai] /\ sai \in [Servers -> Sai]
  /\ accesses \in 0 .. MaxAccesses
  /\ unsent \subseteq Servers
  /\ pull \subseteq [srv : Servers, sai : Sai]
  /\ nb_rcv \in 0 .. NbSrv
  /\ global_list \in Sai
  /\ mgrTable \in [Entries -> Assignment] /\ srvTable \in [Entries -> Assignment]
  /\ pc \in {"step", "gather", "assign", "give", "publish"}
  /\ load \in [Servers -> Int]
  /\ subset_l \in Seq(Nat)
  /\ target \in [Servers -> Servers]
  /\ todo \subseteq Servers
  /\ rounds \in 0 .. MaxRounds

Init ==
  /\ access_count = [s \in Servers |-> NoSai] /\ sai = [s \in Servers |-> NoSai]
  /\ accesses = 0 /\ unsent = {} /\ pull = {} /\ nb_rcv = 0
  /\ global_list = NoSai
  /\ mgrTable = InitialAssignments /\ srvTable = InitialAssignments
  /\ pc = "step"
  /\ load = [s \in Servers |-> 0] /\ subset_l = <<>>
  /\ target = [s \in Servers |-> s] /\ todo = {}
  /\ rounds = 0

-----------------------------------------------------------------------------
(* Access counters. *)

(* An accepted request counts at the server in charge.  Called Burst times. *)
eacl_incr_access(e) ==
  LET s == srvTable[e].id_srv
  IN  /\ pc = "step"
      /\ accesses < MaxAccesses
      /\ access_count' = [access_count EXCEPT ![s][e] = @ + Burst]
      /\ accesses' = accesses + 1
      /\ UNCHANGED <<sai, unsent, pull, nb_rcv, global_list, mgrTable, srvTable, pc,
                     computed, rounds>>

(* The mean of the old value and the count (ALPHA is 0.5), rounded down. *)
eacl_calculate_sai(old, count) == [e \in Entries |-> (old[e] + count[e]) \div 2]

(* The launcher sends SIGUSR2 to the servers and to the manager. *)
Signal ==
  /\ pc = "step"
  /\ rounds < MaxRounds
  /\ pc' = "gather"
  /\ unsent' = Servers
  /\ rounds' = rounds + 1
  /\ UNCHANGED <<access_count, sai, accesses, pull, nb_rcv, global_list, mgrTable, srvTable, computed>>

(* The handler of a server. *)
distribution_signal2_action(s) ==
  /\ s \in unsent
  /\ unsent' = unsent \ {s}
  /\ sai' = [sai EXCEPT ![s] = eacl_calculate_sai(@, access_count[s])]
  /\ pull' = pull \cup {[srv |-> s, sai |-> sai'[s]]}   \* srv is not in the message
  /\ access_count' = [access_count EXCEPT ![s] = NoSai]
  /\ UNCHANGED <<accesses, nb_rcv, global_list, mgrTable, srvTable, pc, computed, rounds>>

-----------------------------------------------------------------------------
(* The manager gathers one message of each server, in any order. *)

Gather(msg) ==
  /\ pc = "gather"
  /\ nb_rcv < NbSrv
  /\ pull' = pull \ {msg}
  /\ nb_rcv' = nb_rcv + 1
  /\ global_list' = manager_merge_eacl(global_list, msg.sai)
  /\ UNCHANGED <<servers, mgrTable, srvTable, pc, computed, rounds>>

-----------------------------------------------------------------------------
(* manager_calculate_relab: the loads, then one iteration of a loop at a time. *)

(* balanced is the mean: w_factor is 1. *)
RelativeLoad(t, list) ==
  LET balanced == Total(list, Entries) \div NbSrv
  IN  [s \in Servers |-> Total(list, Own(t, s)) - balanced]

(* The values of f on a set of integers, in the order of the integers. *)
ValuesOn(f, E) ==
  LET s == InOrder(E) IN [i \in DOMAIN s |-> f[s[i]]]

CalculateLoads ==
  /\ pc = "gather"
  /\ nb_rcv = NbSrv
  /\ nb_rcv' = 0
  /\ load' = RelativeLoad(mgrTable, global_list)
  /\ subset_l' = ValuesOn(load', {s \in Servers : load'[s] > 0})
  /\ target' = [s \in Servers |-> s]
  /\ todo' = {s \in Servers : ~(load'[s] > 0) /\ load'[s] < 0}   \* else if
  /\ pc' = "assign"
  /\ UNCHANGED <<servers, pull, global_list, mgrTable, srvTable, rounds>>

(* Values are picked, not the servers or entries they belong to. *)
PickValues(current_load, values, goal_load) ==
  manager_balance_load(current_load, values, [x \in ToSet(values) |-> x], goal_load)

(* The first server with this load. *)
find_index(value, list) ==
  CHOOSE s \in Servers : list[s] = value /\ \A r \in 0 .. s - 1 : list[r] # value

(* A list without values picked from it. *)
RemoveEach(list, picked) ==
  LET left[n \in 0 .. Len(picked)] ==
        IF n = 0 THEN list ELSE RemoveFirst(left[n - 1], picked[n])
  IN  left[Len(picked)]

(* Which overloaded servers give to the underloaded server s.  The order of *)
(* subset_l does not matter, since every use of it sorts it.                *)
AssignTo(s) ==
  LET subset_c == PickValues(load[s], subset_l, 0)
      givers   == {find_index(x, load) : x \in ToSet(subset_c)}
  IN  /\ pc = "assign"
      /\ s \in todo /\ \A r \in todo : s <= r
      /\ target' = [g \in Servers |-> IF g \in givers THEN s ELSE target[g]]
      /\ subset_l' = RemoveEach(subset_l, subset_c)
      /\ todo' = todo \ {s}
      /\ UNCHANGED <<servers, pull, nb_rcv, global_list, mgrTable, srvTable, pc, load, rounds>>

Assigned ==
  /\ pc = "assign"
  /\ todo = {}
  /\ todo' = {g \in Servers : load[g] > 0 /\ target[g] # g}
  /\ pc' = "give"
  /\ UNCHANGED <<servers, pull, nb_rcv, global_list, mgrTable, srvTable, load, subset_l,
                 target, rounds>>

(* Faulty variant: each value picked moves every entry that has it, whoever *)
(* is in charge of it.                                                      *)
GiveOfAnyServer(g) ==
  LET subset_srv == ValuesOn(global_list, Own(mgrTable, g))
      subset_sai == PickValues(0, subset_srv, load[g])
      Times(e)   == Cardinality({i \in DOMAIN subset_sai : subset_sai[i] = global_list[e]})
  IN  /\ pc = "give"
      /\ g \in todo /\ \A r \in todo : g <= r
      /\ mgrTable' = [e \in Entries |->
                        IF Times(e) = 0 THEN mgrTable[e]
                        ELSE [id_srv |-> target[g], n_ver |-> mgrTable[e].n_ver + Times(e)]]
      /\ todo' = todo \ {g}
      /\ UNCHANGED <<servers, pull, nb_rcv, global_list, srvTable, pc, load, subset_l,
                     target, rounds>>

(* The entries g gives: all of its entries with one of the values picked. *)
Give(g) ==
  LET subset_srv == ValuesOn(global_list, Own(mgrTable, g))
      subset_sai == PickValues(0, subset_srv, load[g])
      given      == {e \in Own(mgrTable, g) : global_list[e] \in ToSet(subset_sai)}
  IN  /\ pc = "give"
      /\ g \in todo /\ \A r \in todo : g <= r
      /\ mgrTable' = [e \in Entries |-> IF e \in given THEN Reassign(mgrTable[e], target[g])
                                        ELSE mgrTable[e]]
      /\ todo' = todo \ {g}
      /\ UNCHANGED <<servers, pull, nb_rcv, global_list, srvTable, pc, load, subset_l,
                     target, rounds>>

Given ==
  /\ pc = "give"
  /\ todo = {}
  /\ pc' = "publish"
  /\ UNCHANGED <<servers, pull, nb_rcv, global_list, mgrTable, srvTable, computed, rounds>>

-----------------------------------------------------------------------------
(* Faulty variant: only the new server resets the counters of an entry. *)
ResetOnArrival(list, s) ==
  [e \in Entries |-> IF mgrTable[e].id_srv = s /\ srvTable[e].id_srv # s THEN 0 ELSE list[e]]

(* The old and the new server of an entry both call eacl_reset_all_entry. *)
eacl_reset_all_entry(list, s) ==
  [e \in Entries |-> IF /\ mgrTable[e].id_srv # srvTable[e].id_srv
                        /\ s \in {mgrTable[e].id_srv, srvTable[e].id_srv}
                     THEN 0 ELSE list[e]]

(* The table is published and every server transfers what it lost. *)
Transfer ==
  /\ pc = "publish"
  /\ srvTable' = mgrTable
  /\ sai' = [s \in Servers |-> eacl_reset_all_entry(sai[s], s)]
  /\ access_count' = [s \in Servers |-> eacl_reset_all_entry(access_count[s], s)]
  /\ pc' = "step"
  /\ UNCHANGED <<accesses, unsent, pull, nb_rcv, global_list, mgrTable, computed, rounds>>

Next ==
  \/ \E e \in Entries : eacl_incr_access(e)
  \/ Signal
  \/ \E s \in Servers : distribution_signal2_action(s) \/ AssignTo(s) \/ Give(s)
  \/ \E msg \in pull : Gather(msg)
  \/ CalculateLoads \/ Assigned \/ Given \/ Transfer

Spec == Init /\ [][Next]_vars

-----------------------------------------------------------------------------
(* Safety. *)

Redistribution == INSTANCE Rebalancing WITH assigned <- srvTable

(* Every run of calculate_relab moves entries from overloaded to underloaded *)
(* servers, those of one server to one other, and raises the version of what *)
(* it moves: the relation DHManager uses for the whole computation.          *)
ImplementsRelab == Redistribution!Spec

(* The old server of an entry forgets its counters, so when all messages are *)
(* merged the manager has what the server in charge reported, in whichever   *)
(* order the messages came; only an unused entry keeps an older value.       *)
OwnerHasLastWord ==
  pc = "gather" /\ nb_rcv = NbSrv =>
    \A e \in Entries : LET reported == sai[srvTable[e].id_srv][e]
                       IN  reported # 0 => global_list[e] = reported

(* SAI values of a server that the search by value tells apart. *)
Distinct(s) ==
  \A e, f \in Own(srvTable, s) :
    e # f /\ global_list[e] # 0 => global_list[e] # global_list[f]

NewLoad == RelativeLoad(mgrTable, global_list)

(* A redistribution overshoots nowhere: no overloaded server gives more than *)
(* its excess and no underloaded one is further from the mean than it was,   *)
(* if the SAI values of each overloaded server differ.                       *)
NoOvershoot ==
  pc = "publish" /\ (\A s \in Servers : load[s] > 0 => Distinct(s)) =>
    \A s \in Servers : IF load[s] > 0 THEN NewLoad[s] \in 0 .. load[s]
                       ELSE Abs(NewLoad[s]) <= Abs(load[s])

(* The greedy choice stops at the first zero: what nobody used stays where it is. *)
IdleEntriesStay ==
  pc = "publish" =>
    \A e \in Entries : global_list[e] = 0 => mgrTable[e] = srvTable[e]

=============================================================================
