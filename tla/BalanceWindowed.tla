-------------------------- MODULE BalanceWindowed --------------------------
(***************************************************************************)
(* The computation behind a redistribution of the windowed build: the      *)
(* access counters with their windows (src/eacl_windowed.c, the queue being*)
(* that of WindowQueue), the thresholds of the servers and                 *)
(* manager_calculate_relab of src/manager_windowed.c, which is the same as *)
(* that of src/manager_v2_indedh.c.  The exchange of messages is that of   *)
(* IndepEpoch; here a message is read when it is sent.  Clients are stopped*)
(* meanwhile and the transfer itself is one step.                          *)
(***************************************************************************)
EXTENDS Loads

CONSTANTS Count,        \* WINDOW_SIZE
          Burst,        \* accesses of an entry in a row (bound)
          MaxAccesses,  \* such bursts in the run (bound)
          MaxRounds     \* steps that end with a SIGUSR2 (bound)

ASSUME WindowedAssumption ==
  Count \in Nat \ {0} /\ Burst \in Nat \ {0} /\ MaxAccesses \in Nat /\ MaxRounds \in Nat

PERCENT == 10

VARIABLES
  access_count, sai, old_accesses,  \* the eacl of each server
  load_lvl,           \* sum of the SAI of each server
  mean_load,          \* the mean the servers have from the last table
  help,               \* a server has asked for a redistribution
  accesses,           \* bursts so far
  waiting,            \* servers the current phase waits for
  global_list,        \* the manager's SAI of each entry
  all_list,           \* the load levels it got
  mgrTable, srvTable, \* the manager's table, that of servers and clients
  pc,                 \* what the system is doing
  load,               \* relative load of each server
  subset_l, subset_s, \* overloaded and underloaded servers
  subset_srv,         \* entries that may be given
  idx_in_l, idx_in_s, \* indices of the loops, from 1
  to,                 \* the array target: the new server of each entry
  since,              \* history: SIGUSR2 handled since an entry came to its server
  rounds

counters == <<access_count, sai, old_accesses, load_lvl, since>>
step     == <<mean_load, help, accesses, waiting, srvTable, rounds>>
merged   == <<global_list, all_list>>
loops    == <<load, subset_l, subset_s, subset_srv, idx_in_l, idx_in_s, to>>
vars     == <<counters, step, merged, mgrTable, pc, loops>>

TypeOK ==
  /\ access_count \in [Servers -> Sai] /\ sai \in [Servers -> Sai]
  /\ \A s \in Servers, e \in Entries :
       old_accesses[s][e] \in Seq(Nat) /\ Len(old_accesses[s][e]) <= Count
  /\ load_lvl \in [Servers -> Nat] /\ mean_load \in Nat /\ help \in BOOLEAN
  /\ accesses \in 0 .. MaxAccesses /\ waiting \subseteq Servers
  /\ global_list \in Sai /\ all_list \in [Servers -> Nat]
  /\ mgrTable \in [Entries -> Assignment] /\ srvTable \in [Entries -> Assignment]
  /\ pc \in {"step", "measure", "gather", "givers", "takers", "publish"}
  /\ load \in [Servers -> Int]
  /\ subset_l \in Seq(Servers) /\ subset_s \in Seq(Servers)
  /\ subset_srv \in Seq(Entries) /\ Len(subset_srv) <= NEntry
  /\ idx_in_l \in 1 .. NbSrv + 1 /\ idx_in_s \in 1 .. NbSrv + 1
  /\ to \in [Entries -> Servers]
  /\ since \in Sai /\ rounds \in 0 .. MaxRounds

Init ==
  /\ access_count = [s \in Servers |-> NoSai] /\ sai = [s \in Servers |-> NoSai]
  /\ old_accesses = [s \in Servers |-> [e \in Entries |-> <<>>]]
  /\ load_lvl = [s \in Servers |-> 0] /\ mean_load = 0 /\ help = FALSE
  /\ accesses = 0 /\ waiting = {}
  /\ global_list = NoSai /\ all_list = [s \in Servers |-> 0]
  /\ mgrTable = InitialAssignments /\ srvTable = InitialAssignments
  /\ pc = "step"
  /\ load = [s \in Servers |-> 0] /\ subset_l = <<>> /\ subset_s = <<>> /\ subset_srv = <<>>
  /\ idx_in_l = 1 /\ idx_in_s = 1
  /\ to = [e \in Entries |-> InitialAssignments[e].id_srv]
  /\ since = NoSai /\ rounds = 0

-----------------------------------------------------------------------------
(* The servers. *)

(* Called Burst times. *)
eacl_incr_access(e) ==
  LET s == srvTable[e].id_srv
  IN  /\ pc = "step"
      /\ accesses < MaxAccesses
      /\ access_count' = [access_count EXCEPT ![s][e] = @ + Burst]
      /\ accesses' = accesses + 1
      /\ UNCHANGED <<sai, old_accesses, load_lvl, since, mean_load, help, waiting, srvTable,
                     rounds, merged, mgrTable, pc, loops>>

Signal ==
  /\ pc = "step"
  /\ rounds < MaxRounds
  /\ rounds' = rounds + 1
  /\ waiting' = Servers
  /\ help' = FALSE
  /\ pc' = "measure"
  /\ UNCHANGED <<counters, mean_load, accesses, srvTable, merged, mgrTable, loops>>

queue_mean(w) == IF w = <<>> THEN 0 ELSE FoldSeq(+, 0, w) \div Len(w)

(* Faulty variant: a full window keeps its oldest value. *)
queue_putOldest(w, v) == IF Len(w) < Count THEN Append(w, v) ELSE w

queue_put(w, v) == Append(IF Len(w) < Count THEN w ELSE Tail(w), v)

(* ALPHA is 0.5; the sum is rounded down. *)
eacl_calculate_sai(windows, count) ==
  [e \in Entries |-> (queue_mean(windows[e]) + count[e]) \div 2]

(* A load is fine within PERCENT of the mean the last table came with. *)
WithinThresholds(level) ==
  LET margin == (PERCENT * mean_load) \div 100
  IN  level <= mean_load + margin /\ level >= mean_load - margin

(* The handler of a server: it measures, and asks for help or has nothing to do. *)
distribution_signal2_action(s) ==
  /\ pc = "measure"
  /\ s \in waiting
  /\ waiting' = waiting \ {s}
  /\ sai' = [sai EXCEPT ![s] = eacl_calculate_sai(old_accesses[s], access_count[s])]
  /\ load_lvl' = [load_lvl EXCEPT ![s] = Total(sai'[s], Entries)]
  /\ old_accesses' =
       [old_accesses EXCEPT ![s] = [e \in Entries |-> queue_put(@[e], access_count[s][e])]]
  /\ access_count' = [access_count EXCEPT ![s] = NoSai]
  /\ since' = [e \in Entries |-> IF srvTable[e].id_srv = s THEN since[e] + 1 ELSE since[e]]
  /\ help' = (help \/ ~WithinThresholds(load_lvl'[s]))
  /\ UNCHANGED <<mean_load, accesses, srvTable, rounds, merged, mgrTable, pc, loops>>

(* All servers have measured: the launcher goes on, or the manager asks them all. *)
NothingToDo ==
  /\ pc = "measure" /\ waiting = {} /\ ~help
  /\ pc' = "step"
  /\ UNCHANGED <<counters, step, merged, mgrTable, loops>>

Ask ==
  /\ pc = "measure" /\ waiting = {} /\ help
  /\ pc' = "gather"
  /\ waiting' = Servers
  /\ UNCHANGED <<counters, mean_load, help, accesses, srvTable, rounds, merged, mgrTable, loops>>

(* The manager merges the SAI list and the load level of a server. *)
Gather(s) ==
  /\ pc = "gather"
  /\ s \in waiting
  /\ waiting' = waiting \ {s}
  /\ global_list' = manager_merge_eacl(global_list, sai[s])
  /\ all_list' = [all_list EXCEPT ![s] = load_lvl[s]]
  /\ UNCHANGED <<counters, mean_load, help, accesses, srvTable, rounds, mgrTable, pc, loops>>

-----------------------------------------------------------------------------
(* manager_calculate_relab: one iteration of a loop at a time. *)

mean(levels) == Total(levels, Servers) \div NbSrv

(* balanced is the mean: w_factor is 1. *)
RelativeLoad(levels) == [s \in Servers |-> levels[s] - mean(levels)]

CalculateLoads ==
  /\ pc = "gather" /\ waiting = {}
  /\ pc' = "givers"
  /\ to' = [e \in Entries |-> mgrTable[e].id_srv]
  /\ load' = RelativeLoad(all_list)
  /\ subset_l' = manager_sort_subset(InOrder({s \in Servers : load'[s] > 0}), load')
  /\ subset_s' = InOrder({s \in Servers : load'[s] < 0})
  /\ subset_srv' = <<>>
  /\ idx_in_l' = 1
  /\ UNCHANGED <<counters, step, merged, mgrTable, idx_in_s>>

(* The next overloaded server. The entries of the previous ones are still in *)
(* subset_srv: size_srv is never reset.                                      *)
NextGiver ==
  /\ pc = "givers" /\ idx_in_l <= Len(subset_l)
  /\ pc' = "takers"
  /\ subset_srv' = subset_srv \o InOrder(Own(mgrTable, subset_l[idx_in_l]))
  /\ subset_s' = manager_sort_subset(subset_s, load)
  /\ idx_in_s' = 1
  /\ UNCHANGED <<counters, step, merged, mgrTable, load, subset_l, idx_in_l, to>>

(* The last element takes the place of the removed one. *)
RemoveWithLast(list, i) == SubSeq([list EXCEPT ![i] = list[Len(list)]], 1, Len(list) - 1)

(* Faulty variant: the goal is the larger of the two. *)
GoalOfGiver(s, l) == IF Abs(load[s]) < load[l] THEN load[l] ELSE Abs(load[s])

Goal(s, l) == IF Abs(load[s]) < load[l] THEN Abs(load[s]) ELSE load[l]

(* The server l = subset_l[idx_in_l] gives to s = subset_s[idx_in_s]; a      *)
(* server that has got or given enough is removed, and the index goes on.    *)
Fill ==
  LET l    == subset_l[idx_in_l]
      s    == subset_s[idx_in_s]
      set  == ToSet(manager_balance_load(0, subset_srv, global_list, Goal(s, l)))
      sum  == Total(global_list, set)
      done == load[l] - sum <= 0
  IN  /\ pc = "takers" /\ idx_in_s <= Len(subset_s)
      /\ subset_srv' = manager_sort_subset(subset_srv, global_list)
      /\ to' = [e \in Entries |-> IF e \in set THEN s ELSE to[e]]
      /\ load' = [load EXCEPT ![s] = @ + sum, ![l] = @ - sum]
      /\ subset_s' = IF load'[s] >= 0 THEN RemoveWithLast(subset_s, idx_in_s) ELSE subset_s
      /\ subset_l' = IF done THEN RemoveWithLast(subset_l, idx_in_l) ELSE subset_l
      /\ pc' = IF done THEN "givers" ELSE "takers"
      /\ idx_in_s' = IF done THEN idx_in_s ELSE idx_in_s + 1
      /\ idx_in_l' = IF done THEN idx_in_l + 1 ELSE idx_in_l
      /\ UNCHANGED <<counters, step, merged, mgrTable>>

TakersDone ==
  /\ pc = "takers" /\ idx_in_s > Len(subset_s)
  /\ pc' = "givers"
  /\ idx_in_l' = idx_in_l + 1
  /\ UNCHANGED <<counters, step, merged, mgrTable, load, subset_l, subset_s, subset_srv,
                 idx_in_s, to>>

(* Faulty variant: every version is raised. *)
UpdateAll ==
  /\ pc = "givers" /\ idx_in_l > Len(subset_l)
  /\ pc' = "publish"
  /\ mgrTable' = [e \in Entries |-> [id_srv |-> to[e], n_ver |-> mgrTable[e].n_ver + 1]]
  /\ UNCHANGED <<counters, step, merged, loops>>

Update ==
  /\ pc = "givers" /\ idx_in_l > Len(subset_l)
  /\ pc' = "publish"
  /\ mgrTable' = [e \in Entries |-> Reassign(mgrTable[e], to[e])]
  /\ UNCHANGED <<counters, step, merged, loops>>

-----------------------------------------------------------------------------
Changed(e) == mgrTable[e] # srvTable[e]

(* Faulty variant: only the new server resets an entry. *)
ResetOnArrival(s) == {e \in Entries : Changed(e) /\ s = mgrTable[e].id_srv}

(* Faulty variant: only the old server resets an entry. *)
ResetOnDeparture(s) == {e \in Entries : Changed(e) /\ s = srvTable[e].id_srv}

(* The entries for which s calls eacl_reset_all_entry: those it sends or gets. *)
Reset(s) ==
  {e \in Entries : Changed(e) /\ s \in {mgrTable[e].id_srv, srvTable[e].id_srv}}

(* The table is published with the mean, and every server transfers what it lost. *)
Transfer ==
  /\ pc = "publish"
  /\ pc' = "step"
  /\ srvTable' = mgrTable
  /\ mean_load' = mean(all_list)
  /\ access_count' = [s \in Servers |-> [e \in Entries |->
                        IF e \in Reset(s) THEN 0 ELSE access_count[s][e]]]
  /\ sai' = [s \in Servers |-> [e \in Entries |->
               IF e \in Reset(s) THEN 0 ELSE sai[s][e]]]
  /\ old_accesses' = [s \in Servers |-> [e \in Entries |->
                        IF e \in Reset(s) THEN <<>> ELSE old_accesses[s][e]]]
  /\ since' = [e \in Entries |-> IF Changed(e) THEN 0 ELSE since[e]]
  /\ UNCHANGED <<load_lvl, help, accesses, waiting, rounds, merged, mgrTable, loops>>

Next ==
  \/ \E e \in Entries : eacl_incr_access(e)
  \/ Signal \/ NothingToDo \/ Ask
  \/ \E s \in Servers : distribution_signal2_action(s) \/ Gather(s)
  \/ CalculateLoads \/ NextGiver \/ Fill \/ TakersDone \/ Update \/ Transfer

Spec == Init /\ [][Next]_vars

-----------------------------------------------------------------------------
(* Safety. *)

Redistribution == INSTANCE Rebalancing WITH assigned <- srvTable

(* Whatever the loops do, entries move from overloaded to underloaded servers *)
(* and the version of what moves is raised, in one step of all processes.     *)
ImplementsRelab == Redistribution!SpecMany

(* The window of an entry at its server has one value for each step since the *)
(* entry came there, up to WINDOW_SIZE, whatever it had on the way.           *)
WindowIsOwners ==
  pc = "step" =>
    \A e \in Entries : Len(old_accesses[srvTable[e].id_srv][e])
                         = IF since[e] < Count THEN since[e] ELSE Count

(* The other servers have counted nothing for it, so that load_lvl, a sum over *)
(* all entries, is the load of what the server is in charge of.                *)
LoadIsOwners ==
  pc = "gather" =>
    \A s \in Servers : load_lvl[s] = Total(sai[s], Own(srvTable, s))

Mean == mean(all_list)

Given(e) == to[e] # srvTable[e].id_srv

GivenTo(s) == Total(global_list, {e \in Entries : Given(e) /\ to[e] = s})
GivenBy(s) == Total(global_list, {e \in Own(srvTable, s) : Given(e)})

(* No underloaded server gets more than it lacks, although the loops may give *)
(* an entry several times.                                                    *)
NoTakerOvershoots ==
  pc = "publish" => \A s \in Servers : all_list[s] < Mean => all_list[s] + GivenTo(s) <= Mean

Overloaded == {s \in Servers : all_list[s] > Mean}

(* The only overloaded server gives no more than its excess. *)
OnlyGiverKeepsItsShare ==
  pc = "publish" =>
    \A s \in Servers : Overloaded = {s} => all_list[s] - GivenBy(s) >= Mean

(* The greedy choice stops at the first zero: what nobody used stays where it is. *)
IdleEntriesStay ==
  pc = "publish" => \A e \in Entries : global_list[e] = 0 => mgrTable[e] = srvTable[e]

=============================================================================
