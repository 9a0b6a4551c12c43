----------------------- MODULE BalanceWindowedProofs -----------------------
(***************************************************************************)
(* The redistributions of the windowed build, for any number of servers    *)
(* and entries and any counters: what the loops of manager_calculate_relab *)
(* keep true from one iteration to the next, that they implement the       *)
(* relation RelabMany and overshoot nowhere, and that what the servers     *)
(* measure is their own load.                                              *)
(***************************************************************************)
EXTENDS BalanceWindowed, LoadsProofs

-----------------------------------------------------------------------------
(* The invariant of the loops. *)

Excess  == RelativeLoad(all_list)
Givers  == {s \in Servers : Excess[s] > 0}
Takers  == {s \in Servers : Excess[s] < 0}
Looping == pc \in {"givers", "takers"}
Planned == pc \in {"givers", "takers", "publish"}

TablesOK ==
  /\ pc \in {"step", "measure", "gather", "givers", "takers", "publish"}
  /\ srvTable \in [Entries -> Assignment]
  /\ mgrTable \in [Entries -> Assignment]
  /\ to \in [Entries -> Servers]
  /\ pc # "publish" => mgrTable = srvTable
  /\ pc = "publish" => mgrTable = [e \in Entries |-> Reassign(srvTable[e], to[e])]

ListsOK ==
  /\ global_list \in Sai
  /\ all_list \in [Servers -> Nat]
  /\ load \in [Servers -> Int]

SubsetsOK ==
  /\ subset_l \in Seq(Servers) /\ IsInjective(subset_l)
  /\ subset_s \in Seq(Servers) /\ IsInjective(subset_s)
  /\ subset_srv \in Seq(Entries) /\ IsInjective(subset_srv)
  /\ idx_in_l \in 1 .. NbSrv + 1
  /\ idx_in_s \in 1 .. NbSrv + 1

(* The subsets have the servers that still give or get, and subset_srv no    *)
(* entry of a server the outer loop has still to come to.                    *)
Coming(i) == i > idx_in_l \/ (i = idx_in_l /\ pc = "givers")

SubsetsInv ==
  Looping =>
    /\ \A s \in ToSet(subset_l) : s \in Givers /\ load[s] > 0
    /\ \A s \in ToSet(subset_s) : s \in Takers /\ load[s] < 0
    /\ \A e \in ToSet(subset_srv) : srvTable[e].id_srv \in Givers
    /\ pc = "takers" => idx_in_l \in DOMAIN subset_l
    /\ \A i \in DOMAIN subset_l : Coming(i) =>
         \A e \in ToSet(subset_srv) : srvTable[e].id_srv # subset_l[i]

(* Entries that weigh something go from overloaded to underloaded servers.   *)
TargetsInv ==
  Planned => \A e \in Entries : Given(e) =>
    srvTable[e].id_srv \in Givers /\ to[e] \in Takers /\ global_list[e] # 0

(* The loads have gone the way of the entries, and not beyond the mean.      *)
LoadsInv ==
  Planned =>
    /\ \A s \in Takers : load[s] <= 0 /\ GivenTo(s) <= load[s] - Excess[s]
    /\ \A s \in Givers : load[s] >= 0
    /\ \A s \in Servers : Givers = {s} => GivenBy(s) <= Excess[s] - load[s]

RelabInv == TablesOK /\ ListsOK /\ SubsetsOK /\ SubsetsInv /\ TargetsInv /\ LoadsInv

-----------------------------------------------------------------------------
(* The operators. *)

(* What a set of entries adds up to. *)
LEMMA SumOfEntries ==
  ASSUME global_list \in Sai, NEW E \in SUBSET Entries
  PROVE  /\ IsFiniteSet(E) /\ Total(global_list, E) \in Nat
         /\ \A F \in SUBSET Entries :
              /\ Total(global_list, E \cup F) <= Total(global_list, E) + Total(global_list, F)
              /\ F \in SUBSET E => Total(global_list, F) <= Total(global_list, E)
  <1>1. \A e \in Entries : global_list[e] \in Nat
    BY DEF Sai
  <1>2. IsFiniteSet(E) /\ IsFiniteSet(Entries) /\ \A e \in E : global_list[e] \in Nat
    BY <1>1, Counted, FS_Subset
  <1>3. Total(global_list, E) \in Nat
    BY <1>2, SumType DEF Total
  <1>4. \A F \in SUBSET Entries :
          Total(global_list, E \cup F) <= Total(global_list, E) + Total(global_list, F)
    BY <1>1, <1>2, SumUnion DEF Total
  <1>5. \A F \in SUBSET E : Total(global_list, F) <= Total(global_list, E)
    BY <1>2, SumMonotone DEF Total
  <1>. QED
    BY <1>2, <1>3, <1>4, <1>5

(* The mean of the levels, and the relative loads. *)
LEMMA MeanType ==
  ASSUME NEW levels \in [Servers -> Nat]
  PROVE  mean(levels) \in Nat /\ RelativeLoad(levels) \in [Servers -> Int]
  <1>1. Total(levels, Servers) \in Nat
    BY Counted, SumType DEF Total
  <1>2. mean(levels) \in Nat
    BY <1>1, SizesAssumption DEF mean
  <1>. QED
    BY <1>2 DEF RelativeLoad

(* manager_calculate_relab removes an element by moving the last one.      *)
LEMMA RemovedWithLast ==
  ASSUME NEW S, NEW list \in Seq(S), IsInjective(list), NEW i \in DOMAIN list
  PROVE  /\ RemoveWithLast(list, i) \in Seq(S)
         /\ Len(RemoveWithLast(list, i)) = Len(list) - 1
         /\ IsInjective(RemoveWithLast(list, i))
         /\ \A x \in ToSet(RemoveWithLast(list, i)) : x \in ToSet(list) /\ x # list[i]
         /\ \A j \in DOMAIN RemoveWithLast(list, i) :
              j \in DOMAIN list /\ (j # i => RemoveWithLast(list, i)[j] = list[j])
  <1>. DEFINE N == Len(list)
              moved == [list EXCEPT ![i] = list[N]]
              r == RemoveWithLast(list, i)
  <1>1. N \in Nat \ {0} /\ DOMAIN list = 1 .. N /\ i \in 1 .. N /\ list \in [1 .. N -> S]
    OBVIOUS
  <1>2. N \in DOMAIN list
    BY <1>1
  <1>3. moved \in Seq(S) /\ Len(moved) = N
    BY <1>1, <1>2
  <1>4. \A j \in 1 .. N : moved[j] = IF j = i THEN list[N] ELSE list[j]
    BY <1>1
  <1>5. r = SubSeq(moved, 1, N - 1)
    BY DEF RemoveWithLast
  <1>. HIDE DEF r, moved, N
  <1>6. r \in Seq(S) /\ Len(r) = N - 1 /\ \A j \in 1 .. N - 1 : r[j] = moved[j]
    BY <1>1, <1>3, <1>5
  <1>7. DOMAIN r = 1 .. N - 1
    BY <1>1, <1>6
  <1>8. \A j \in 1 .. N - 1 : j \in 1 .. N /\ r[j] = IF j = i THEN list[N] ELSE list[j]
    BY <1>1, <1>4, <1>6
  <1>9. IsInjective(r)
    <2>. SUFFICES ASSUME NEW j \in 1 .. N - 1, NEW k \in 1 .. N - 1, r[j] = r[k] PROVE j = k
      BY <1>7 DEF IsInjective
    <2>1. \A a, b \in 1 .. N : list[a] = list[b] => a = b
      BY <1>1 DEF IsInjective
    <2>. QED BY <1>1, <1>8, <2>1
  <1>10. ASSUME NEW x \in ToSet(r) PROVE x \in ToSet(list) /\ x # list[i]
    <2>1. PICK j \in 1 .. N - 1 : x = r[j]
      BY <1>7 DEF ToSet
    <2>2. \A a, b \in 1 .. N : list[a] = list[b] => a = b
      BY <1>1 DEF IsInjective
    <2>3. N \in 1 .. N /\ i \in 1 .. N /\ j # N
      BY <1>1
    <2>4. PICK k \in 1 .. N : x = list[k] /\ k # i
      BY <1>8, <2>1, <2>3
    <2>. QED BY <1>1, <2>2, <2>3, <2>4 DEF ToSet
  <1>. QED
    BY <1>1, <1>6, <1>7, <1>8, <1>9, <1>10 DEF r, N

-----------------------------------------------------------------------------
(* The steps. *)

(* The invariant of the loops holds at the start. *)
LEMMA RelabInit == Init => RelabInv
  <1>. SUFFICES ASSUME Init PROVE RelabInv
    OBVIOUS
  <1>1. TablesOK
    <2>1. \A e \in Entries : InitialAssignments[e].id_srv \in Servers
      BY InitialType DEF Assignment
    <2>. QED BY <2>1, InitialType DEF Init, TablesOK
  <1>2. ListsOK
    BY NoSaiType DEF Init, ListsOK
  <1>3. SubsetsOK
    BY SizesAssumption DEF Init, SubsetsOK, IsInjective
  <1>4. SubsetsInv /\ TargetsInv /\ LoadsInv
    BY DEF Init, SubsetsInv, TargetsInv, LoadsInv, Looping, Planned
  <1>. QED
    BY <1>1, <1>2, <1>3, <1>4 DEF RelabInv

(* Steps that touch nothing the loops use. *)
LEMMA RelabFrame ==
  ASSUME RelabInv, UNCHANGED <<pc, srvTable, mgrTable, merged, loops>>
  PROVE  RelabInv'
  <1>1. UNCHANGED <<pc, srvTable, mgrTable, to, global_list, all_list, load, subset_l, subset_s,
                    subset_srv, idx_in_l, idx_in_s>>
    BY DEF merged, loops
  <1>2. TablesOK' /\ ListsOK' /\ SubsetsOK'
    BY <1>1 DEF RelabInv, TablesOK, ListsOK, SubsetsOK
  <1>3. UNCHANGED <<Excess, Givers, Takers, Looping, Planned>>
    BY <1>1 DEF Excess, Givers, Takers, Looping, Planned
  <1>4. SubsetsInv'
    BY <1>1, <1>3 DEF RelabInv, SubsetsInv, Coming
  <1>5. TargetsInv'
    BY <1>1, <1>3 DEF RelabInv, TargetsInv, Given
  <1>6. LoadsInv'
    BY <1>1, <1>3 DEF RelabInv, LoadsInv, GivenTo, GivenBy, Given, Own
  <1>. QED
    BY <1>2, <1>4, <1>5, <1>6 DEF RelabInv

(* Steps outside the computation. *)
LEMMA RelabOutside ==
  ASSUME RelabInv, pc' \in {"step", "measure", "gather"}, mgrTable' = srvTable',
         srvTable' \in [Entries -> Assignment], UNCHANGED loops, ListsOK'
  PROVE  RelabInv'
  <1>1. UNCHANGED <<to, subset_l, subset_s, subset_srv, idx_in_l, idx_in_s>>
    BY DEF loops
  <1>2. TablesOK'
    BY <1>1 DEF RelabInv, TablesOK
  <1>3. SubsetsOK'
    BY <1>1 DEF RelabInv, SubsetsOK
  <1>4. SubsetsInv' /\ TargetsInv' /\ LoadsInv'
    BY DEF SubsetsInv, TargetsInv, LoadsInv, Looping, Planned
  <1>. QED
    BY <1>2, <1>3, <1>4 DEF RelabInv

(* A set of servers in a list: by load, or in their order. *)
LEMMA ServerList ==
  ASSUME NEW E \in SUBSET Servers, NEW weight \in [Servers -> Int]
  PROVE  /\ InOrder(E) \in Seq(Servers) /\ IsInjective(InOrder(E)) /\ ToSet(InOrder(E)) = E
         /\ manager_sort_subset(InOrder(E), weight) \in Seq(Servers)
         /\ IsInjective(manager_sort_subset(InOrder(E), weight))
         /\ ToSet(manager_sort_subset(InOrder(E), weight)) = E
  <1>1. E \in SUBSET Nat /\ IsFiniteSet(E)
    BY Counted, FS_Subset
  <1>2. InOrder(E) \in Seq(E) /\ ToSet(InOrder(E)) = E /\ IsInjective(InOrder(E))
    BY <1>1, InOrderList
  <1>. DEFINE list == InOrder(E)
  <1>. HIDE DEF list
  <1>3. list \in Seq(Servers)
    <2>1. \A i \in 1 .. Len(list) : list[i] \in Servers
      BY <1>2 DEF list
    <2>2. list \in [1 .. Len(list) -> Servers] /\ Len(list) \in Nat
      BY <1>2, <2>1 DEF list
    <2>. QED BY <2>2
  <1>4. \A s \in Servers : weight[s] \in Int
    OBVIOUS
  <1>5. /\ manager_sort_subset(list, weight) \in Seq(Servers)
        /\ ToSet(manager_sort_subset(list, weight)) = ToSet(list)
        /\ IsInjective(list) => IsInjective(manager_sort_subset(list, weight))
    BY <1>3, <1>4, SortedList
  <1>. QED
    BY <1>2, <1>3, <1>5 DEF list

(* Before the first iteration nothing is given. *)
LEMMA RelabStart ==
  ASSUME RelabInv, CalculateLoads
  PROVE  RelabInv'
  <1>1. /\ pc = "gather" /\ pc' = "givers" /\ mgrTable = srvTable
        /\ UNCHANGED <<srvTable, mgrTable, global_list, all_list, idx_in_s>>
        /\ to' = [e \in Entries |-> mgrTable[e].id_srv]
        /\ load' = Excess /\ idx_in_l' = 1 /\ subset_srv' = <<>>
    BY DEF CalculateLoads, RelabInv, TablesOK, Excess, merged, step
  <1>2. Excess \in [Servers -> Int]
    BY MeanType DEF RelabInv, ListsOK, Excess
  <1>3. UNCHANGED <<Excess, Givers, Takers>>
    BY <1>1 DEF Excess, Givers, Takers
  <1>4. /\ subset_l' = manager_sort_subset(InOrder(Givers), Excess)
        /\ subset_s' = InOrder(Takers)
    BY <1>1 DEF CalculateLoads, Givers, Takers
  <1>5. /\ subset_l' \in Seq(Servers) /\ IsInjective(subset_l') /\ ToSet(subset_l') = Givers
        /\ subset_s' \in Seq(Servers) /\ IsInjective(subset_s') /\ ToSet(subset_s') = Takers
    <2>1. Givers \in SUBSET Servers /\ Takers \in SUBSET Servers
      BY DEF Givers, Takers
    <2>. QED BY <1>2, <1>4, <2>1, ServerList
  <1>6. \A e \in Entries : srvTable[e] \in Assignment /\ srvTable[e].id_srv \in Servers
    BY DEF RelabInv, TablesOK, Assignment
  <1>7. TablesOK'
    BY <1>1, <1>6 DEF RelabInv, TablesOK
  <1>8. ListsOK'
    BY <1>1, <1>2 DEF RelabInv, ListsOK
  <1>9. SubsetsOK'
    <2>1. <<>> \in Seq(Entries) /\ IsInjective(<<>>)
      BY DEF IsInjective
    <2>. QED BY <1>1, <1>5, <2>1, SizesAssumption DEF RelabInv, SubsetsOK
  <1>10. \A e \in Entries : ~ Given(e)'
    BY <1>1 DEF Given
  <1>11. SubsetsInv'
    <2>1. \A e : e \notin ToSet(<<>>)
      BY DEF ToSet
    <2>. QED BY <1>1, <1>3, <1>5, <2>1 DEF SubsetsInv, Givers, Takers
  <1>12. TargetsInv'
    BY <1>10 DEF TargetsInv
  <1>13. LoadsInv'
    <2>1. Total(global_list, {}) = 0
      BY FS_EmptySet, SumRecursion DEF Total
    <2>2. ASSUME NEW s \in Servers PROVE GivenTo(s)' = 0 /\ GivenBy(s)' = 0
      <3>1. {e \in Entries : Given(e)' /\ to'[e] = s} = {} /\ {e \in Own(srvTable', s) : Given(e)'} = {}
        BY <1>10 DEF Own
      <3>. QED BY <1>1, <2>1, <3>1 DEF GivenTo, GivenBy
    <2>. QED BY <1>1, <1>2, <1>3, <2>2 DEF LoadsInv, Givers, Takers
  <1>. QED
    BY <1>7, <1>8, <1>9, <1>11, <1>12, <1>13 DEF RelabInv

(* A list of servers has at most NbSrv of them. *)
LEMMA ServersListed ==
  ASSUME NEW list \in Seq(Servers), IsInjective(list)
  PROVE  Len(list) <= NbSrv
  <1>1. ToSet(list) \in SUBSET Servers /\ Cardinality(ToSet(list)) = Len(list)
    BY ElementsOfList
  <1>2. Cardinality(ToSet(list)) <= Cardinality(Servers)
    BY <1>1, Counted, FS_Subset
  <1>. QED
    BY <1>1, <1>2, Counted

(* The next giver adds its entries, which are not in subset_srv yet. *)
LEMMA RelabNextGiver ==
  ASSUME RelabInv, NextGiver
  PROVE  RelabInv'
  <1>. DEFINE l    == subset_l[idx_in_l]
              own  == InOrder(Own(mgrTable, l))
  <1>1. /\ pc = "givers" /\ pc' = "takers" /\ mgrTable = srvTable
        /\ UNCHANGED <<srvTable, mgrTable, global_list, all_list, to, load, subset_l, idx_in_l>>
        /\ subset_srv' = subset_srv \o own
        /\ subset_s' = manager_sort_subset(subset_s, load)
        /\ idx_in_s' = 1 /\ idx_in_l <= Len(subset_l)
    BY DEF NextGiver, RelabInv, TablesOK, merged, step
  <1>2. /\ subset_l \in Seq(Servers) /\ IsInjective(subset_l) /\ idx_in_l \in 1 .. NbSrv + 1
        /\ subset_s \in Seq(Servers) /\ IsInjective(subset_s)
        /\ subset_srv \in Seq(Entries) /\ IsInjective(subset_srv)
        /\ load \in [Servers -> Int]
    BY DEF RelabInv, SubsetsOK, ListsOK
  <1>3. idx_in_l \in DOMAIN subset_l /\ l \in ToSet(subset_l) /\ l \in Givers
    <2>1. idx_in_l \in DOMAIN subset_l
      BY <1>1, <1>2
    <2>. QED BY <1>1, <2>1 DEF ToSet, RelabInv, SubsetsInv, Looping
  <1>4. UNCHANGED <<Excess, Givers, Takers, Looping, Planned>>
    BY <1>1 DEF Excess, Givers, Takers, Looping, Planned
  <1>5. /\ own \in Seq(Entries) /\ IsInjective(own)
        /\ \A i \in DOMAIN own : own[i] \in Entries /\ srvTable[own[i]].id_srv = l
        /\ \A e \in ToSet(own) : srvTable[e].id_srv = l
    <2>. DEFINE E == Own(mgrTable, l)
    <2>1. E \in SUBSET Entries /\ E \in SUBSET Nat /\ IsFiniteSet(E)
      BY Counted, FS_Subset DEF Own
    <2>2. own \in Seq(E) /\ IsInjective(own) /\ ToSet(own) = E
      <3>1. own = InOrder(E)
        OBVIOUS
      <3>. HIDE DEF E, own
      <3>. QED BY <2>1, <3>1, InOrderList
    <2>3. \A e \in E : srvTable[e].id_srv = l
      BY <1>1 DEF Own
    <2>. HIDE DEF E, own
    <2>4. DOMAIN own = 1 .. Len(own) /\ Len(own) \in Nat /\ \A i \in DOMAIN own : own[i] \in E
      BY <2>2
    <2>5. own \in Seq(Entries)
      <3>1. \A i \in 1 .. Len(own) : own[i] \in Entries
        BY <2>1, <2>4
      <3>2. own = [i \in 1 .. Len(own) |-> own[i]]
        BY <2>2
      <3>3. own \in [1 .. Len(own) -> Entries]
        BY <3>1, <3>2
      <3>. QED BY <2>4, <3>3
    <2>. QED BY <2>1, <2>2, <2>3, <2>4, <2>5
  <1>6. \A e \in ToSet(subset_srv) : srvTable[e].id_srv # l /\ srvTable[e].id_srv \in Givers
    BY <1>1, <1>3 DEF RelabInv, SubsetsInv, Looping, Coming
  <1>. HIDE DEF own, l
  <1>7. /\ subset_srv' \in Seq(Entries)
        /\ DOMAIN subset_srv = 1 .. Len(subset_srv) /\ DOMAIN own = 1 .. Len(own)
        /\ Len(subset_srv) \in Nat /\ Len(own) \in Nat
        /\ DOMAIN subset_srv' = 1 .. Len(subset_srv) + Len(own)
        /\ \A i \in DOMAIN subset_srv' :
             subset_srv'[i] = IF i <= Len(subset_srv) THEN subset_srv[i]
                              ELSE own[i - Len(subset_srv)]
    BY <1>1, <1>2, <1>5
  <1>8. \A i \in DOMAIN subset_srv : subset_srv[i] \in ToSet(subset_srv)
    BY DEF ToSet
  <1>9. IsInjective(subset_srv')
    <2>. SUFFICES ASSUME NEW i \in DOMAIN subset_srv', NEW j \in DOMAIN subset_srv',
                         subset_srv'[i] = subset_srv'[j]
                  PROVE  i = j
      BY DEF IsInjective
    <2>1. CASE i <= Len(subset_srv) /\ j <= Len(subset_srv)
      BY <1>2, <1>7, <2>1 DEF IsInjective
    <2>2. CASE ~ (i <= Len(subset_srv)) /\ ~ (j <= Len(subset_srv))
      <3>1. i - Len(subset_srv) \in DOMAIN own /\ j - Len(subset_srv) \in DOMAIN own
        BY <1>7, <2>2
      <3>2. own[i - Len(subset_srv)] = own[j - Len(subset_srv)]
        BY <1>7, <2>2
      <3>3. i - Len(subset_srv) = j - Len(subset_srv)
        BY <1>5, <3>1, <3>2 DEF IsInjective
      <3>. QED BY <1>7, <3>3
    <2>3. ASSUME NEW a \in DOMAIN subset_srv', NEW b \in DOMAIN subset_srv',
                 a <= Len(subset_srv), ~ (b <= Len(subset_srv))
          PROVE  subset_srv'[a] # subset_srv'[b]
      <3>1. a \in DOMAIN subset_srv /\ b - Len(subset_srv) \in DOMAIN own
        BY <1>7, <2>3
      <3>. QED BY <1>5, <1>6, <1>7, <1>8, <2>3, <3>1
    <2>. QED BY <2>1, <2>2, <2>3
  <1>10. \A e \in ToSet(subset_srv') : e \in ToSet(subset_srv) \/ srvTable[e].id_srv = l
    <2>. SUFFICES ASSUME NEW i \in DOMAIN subset_srv'
                  PROVE  \/ subset_srv'[i] \in ToSet(subset_srv)
                         \/ srvTable[subset_srv'[i]].id_srv = l
      BY DEF ToSet
    <2>1. CASE i <= Len(subset_srv)
      <3>1. i \in DOMAIN subset_srv
        BY <1>7, <2>1
      <3>. QED BY <1>7, <1>8, <2>1, <3>1
    <2>2. CASE ~ (i <= Len(subset_srv))
      <3>1. i - Len(subset_srv) \in DOMAIN own
        BY <1>7, <2>2
      <3>. QED BY <1>5, <1>7, <2>2, <3>1
    <2>. QED BY <2>1, <2>2
  <1>11. /\ subset_s' \in Seq(Servers) /\ IsInjective(subset_s')
         /\ ToSet(subset_s') = ToSet(subset_s)
    <2>1. \A s \in Servers : load[s] \in Int
      BY <1>2
    <2>. QED BY <1>1, <1>2, <2>1, SortedList
  <1>12. TablesOK' /\ ListsOK'
    BY <1>1 DEF RelabInv, TablesOK, ListsOK
  <1>13. SubsetsOK'
    BY <1>1, <1>2, <1>7, <1>9, <1>11, SizesAssumption DEF SubsetsOK
  <1>14. SubsetsInv'
    <2>1. /\ \A s \in ToSet(subset_l) : s \in Givers /\ load[s] > 0
          /\ \A s \in ToSet(subset_s) : s \in Takers /\ load[s] < 0
      BY <1>1 DEF RelabInv, SubsetsInv, Looping
    <2>2. \A i \in DOMAIN subset_l : i > idx_in_l => subset_l[i] # l
      BY <1>2, <1>3 DEF IsInjective, l
    <2>3. \A i \in DOMAIN subset_l : i > idx_in_l =>
            \A e \in ToSet(subset_srv) : srvTable[e].id_srv # subset_l[i]
      BY <1>1 DEF RelabInv, SubsetsInv, Looping, Coming
    <2>4. \A i \in DOMAIN subset_l : Coming(i)' =>
            \A e \in ToSet(subset_srv') : srvTable[e].id_srv # subset_l[i]
      BY <1>1, <1>10, <2>2, <2>3 DEF Coming
    <2>5. \A e \in ToSet(subset_srv') : srvTable[e].id_srv \in Givers
      BY <1>3, <1>6, <1>10
    <2>. QED BY <1>1, <1>3, <1>4, <1>11, <2>1, <2>4, <2>5 DEF SubsetsInv, Coming
  <1>15. TargetsInv'
    BY <1>1, <1>4 DEF RelabInv, TargetsInv, Given
  <1>16. LoadsInv'
    BY <1>1, <1>4 DEF RelabInv, LoadsInv, GivenTo, GivenBy, Given, Own
  <1>. QED
    BY <1>12, <1>13, <1>14, <1>15, <1>16 DEF RelabInv

(* The outer loop goes on when no taker is left. *)
LEMMA RelabTakersDone ==
  ASSUME RelabInv, TakersDone
  PROVE  RelabInv'
  <1>1. /\ pc = "takers" /\ pc' = "givers" /\ idx_in_l' = idx_in_l + 1
        /\ UNCHANGED <<srvTable, mgrTable, global_list, all_list, to, load, subset_l, subset_s,
                       subset_srv, idx_in_s>>
    BY DEF TakersDone, merged, step
  <1>2. UNCHANGED <<Excess, Givers, Takers, Looping, Planned>>
    BY <1>1 DEF Excess, Givers, Takers, Looping, Planned
  <1>3. idx_in_l \in DOMAIN subset_l
    BY <1>1 DEF RelabInv, SubsetsInv, Looping
  <1>4. TablesOK' /\ ListsOK'
    BY <1>1 DEF RelabInv, TablesOK, ListsOK
  <1>5. SubsetsOK'
    <2>1. Len(subset_l) <= NbSrv /\ Len(subset_l) \in Nat /\ idx_in_l \in 1 .. Len(subset_l)
      BY <1>3, ServersListed DEF RelabInv, SubsetsOK
    <2>2. idx_in_l + 1 \in 1 .. NbSrv + 1
      BY <2>1, SizesAssumption
    <2>. QED BY <1>1, <2>2 DEF RelabInv, SubsetsOK
  <1>6. SubsetsInv'
    <2>1. \A i \in DOMAIN subset_l : Coming(i)' => i > idx_in_l
      BY <1>1, <1>3 DEF Coming, RelabInv, SubsetsOK
    <2>. QED BY <1>1, <1>2, <2>1 DEF RelabInv, SubsetsInv, Coming
  <1>7. TargetsInv'
    BY <1>1, <1>2 DEF RelabInv, TargetsInv, Given
  <1>8. LoadsInv'
    BY <1>1, <1>2 DEF RelabInv, LoadsInv, GivenTo, GivenBy, Given, Own
  <1>. QED
    BY <1>4, <1>5, <1>6, <1>7, <1>8 DEF RelabInv

(* What manager_balance_load chooses for a pair of servers.                  *)
LEMMA FilledSet ==
  ASSUME RelabInv, pc = "takers", NEW l \in Servers, NEW s \in Servers,
         l \in Givers, s \in Takers, load[l] > 0, load[s] < 0,
         NEW set, set = ToSet(manager_balance_load(0, subset_srv, global_list, Goal(s, l)))
  PROVE  /\ set \in SUBSET Entries
         /\ \A e \in set : srvTable[e].id_srv \in Givers /\ global_list[e] # 0
         /\ Total(global_list, set) \in Nat
         /\ Total(global_list, set) <= load[l] /\ Total(global_list, set) <= - load[s]
  <1>1. load[l] \in Int /\ load[s] \in Int
    BY DEF RelabInv, ListsOK
  <1>2. Goal(s, l) \in Nat /\ Goal(s, l) <= load[l] /\ Goal(s, l) <= - load[s]
    BY <1>1 DEF Goal, Abs
  <1>3. global_list \in Sai /\ \A e \in Entries : global_list[e] \in Nat
    BY DEF RelabInv, ListsOK, Sai
  <1>4. subset_srv \in Seq(Entries) /\ IsInjective(subset_srv)
    BY DEF RelabInv, SubsetsOK
  <1>. DEFINE goal   == Goal(s, l)
              chosen == manager_balance_load(0, subset_srv, global_list, goal)
  <1>5. goal \in Nat /\ goal <= load[l] /\ goal <= - load[s] /\ set = ToSet(chosen)
    BY <1>2
  <1>. HIDE DEF goal
  <1>6. /\ chosen \in Seq(Entries)
        /\ \A e \in ToSet(chosen) : e \in ToSet(subset_srv) /\ global_list[e] # 0
    <2>1. goal \in Int /\ 0 \in Int /\ \A e \in Entries : global_list[e] \in Int
      BY <1>3, <1>5
    <2>. QED BY <1>4, <2>1, GreedyChoice
  <1>7. Total(global_list, ToSet(chosen)) <= goal
    BY <1>3, <1>4, <1>5, GreedyWithin
  <1>. HIDE DEF chosen
  <1>8. ToSet(chosen) \in SUBSET Entries
    BY <1>6, ElementsOfList
  <1>9. set \in SUBSET Entries
    BY <1>5, <1>8
  <1>10. Total(global_list, set) \in Nat
    BY <1>3, <1>9, SumOfEntries
  <1>11. Total(global_list, set) <= goal
    BY <1>5, <1>7
  <1>12. \A e \in ToSet(subset_srv) : srvTable[e].id_srv \in Givers
    BY DEF RelabInv, SubsetsInv, Looping
  <1>13. Total(global_list, set) <= load[l] /\ Total(global_list, set) <= - load[s]
    BY <1>1, <1>5, <1>10, <1>11
  <1>. QED
    BY <1>5, <1>6, <1>9, <1>10, <1>12, <1>13

(* One iteration of the inner loop. *)
LEMMA RelabFill ==
  ASSUME RelabInv, Fill
  PROVE  RelabInv'
  <1>. DEFINE l    == subset_l[idx_in_l]
              s    == subset_s[idx_in_s]
              set  == ToSet(manager_balance_load(0, subset_srv, global_list, Goal(s, l)))
              sum  == Total(global_list, set)
              done == load[l] - sum <= 0
  <1>1. /\ pc = "takers" /\ idx_in_s <= Len(subset_s) /\ mgrTable = srvTable
        /\ UNCHANGED <<srvTable, mgrTable, global_list, all_list>>
        /\ subset_srv' = manager_sort_subset(subset_srv, global_list)
        /\ to' = [e \in Entries |-> IF e \in set THEN s ELSE to[e]]
        /\ load' = [load EXCEPT ![s] = @ + sum, ![l] = @ - sum]
        /\ subset_s' = IF load'[s] >= 0 THEN RemoveWithLast(subset_s, idx_in_s) ELSE subset_s
        /\ subset_l' = IF done THEN RemoveWithLast(subset_l, idx_in_l) ELSE subset_l
        /\ pc' = IF done THEN "givers" ELSE "takers"
        /\ idx_in_s' = IF done THEN idx_in_s ELSE idx_in_s + 1
        /\ idx_in_l' = IF done THEN idx_in_l + 1 ELSE idx_in_l
    BY DEF Fill, RelabInv, TablesOK, merged, step
  <1>2. /\ subset_l \in Seq(Servers) /\ IsInjective(subset_l) /\ idx_in_l \in 1 .. NbSrv + 1
        /\ subset_s \in Seq(Servers) /\ IsInjective(subset_s) /\ idx_in_s \in 1 .. NbSrv + 1
        /\ subset_srv \in Seq(Entries) /\ IsInjective(subset_srv)
        /\ load \in [Servers -> Int] /\ global_list \in Sai /\ all_list \in [Servers -> Nat]
        /\ to \in [Entries -> Servers]
    BY DEF RelabInv, SubsetsOK, ListsOK, TablesOK
  <1>3. /\ \A t \in ToSet(subset_l) : t \in Givers /\ load[t] > 0
        /\ \A t \in ToSet(subset_s) : t \in Takers /\ load[t] < 0
        /\ \A e \in ToSet(subset_srv) : srvTable[e].id_srv \in Givers
        /\ idx_in_l \in DOMAIN subset_l
        /\ \A i \in DOMAIN subset_l : Coming(i) =>
             \A e \in ToSet(subset_srv) : srvTable[e].id_srv # subset_l[i]
    BY <1>1 DEF RelabInv, SubsetsInv, Looping
  <1>4. idx_in_s \in DOMAIN subset_s
    BY <1>1, <1>2
  <1>5. l \in Givers /\ load[l] > 0 /\ s \in Takers /\ load[s] < 0
    BY <1>3, <1>4 DEF ToSet
  <1>6. l \in Servers /\ s \in Servers /\ l # s
    BY <1>2, <1>3, <1>4, <1>5
  <1>7. /\ set \in SUBSET Entries
        /\ \A e \in set : srvTable[e].id_srv \in Givers /\ global_list[e] # 0
        /\ sum \in Nat /\ sum <= load[l] /\ sum <= - load[s]
    BY <1>1, <1>5, <1>6, FilledSet
  <1>. HIDE DEF set, sum, l, s, done
  <1>8. \A t \in Servers : load[t] \in Int
    BY <1>2
  <1>9. /\ load' \in [Servers -> Int]
        /\ load'[l] = load[l] - sum /\ load'[s] = load[s] + sum
        /\ \A t \in Servers : t # l /\ t # s => load'[t] = load[t]
    <2>1. load' = [load EXCEPT ![s] = @ + sum, ![l] = @ - sum]
      BY <1>1
    <2>2. load \in [Servers -> Int] /\ l \in Servers /\ s \in Servers /\ l # s /\ sum \in Int
      BY <1>2, <1>6, <1>7
    <2>3. load[s] + sum \in Int /\ load[l] - sum \in Int
      BY <2>2, <1>8
    <2>. QED BY <2>1, <2>2, <2>3
  <1>10. load'[l] >= 0 /\ load'[s] <= 0 /\ (done <=> load'[l] <= 0)
    <2>1. load[l] - sum >= 0 /\ load[s] + sum <= 0
      BY <1>6, <1>7, <1>8
    <2>. QED BY <1>9, <2>1 DEF done, l, sum
  <1>11. /\ UNCHANGED <<Excess, Givers, Takers>>
         /\ Excess \in [Servers -> Int]
         /\ \A t : ~ (t \in Givers /\ t \in Takers)
    <2>1. Excess \in [Servers -> Int]
      BY <1>2, MeanType DEF Excess
    <2>2. UNCHANGED Excess
      BY <1>1 DEF Excess
    <2>3. UNCHANGED <<Givers, Takers>>
      BY <2>2 DEF Givers, Takers
    <2>4. \A t : ~ (t \in Givers /\ t \in Takers)
      BY <2>1 DEF Givers, Takers
    <2>. QED BY <2>1, <2>2, <2>3, <2>4
  <1>12. /\ subset_srv' \in Seq(Entries) /\ IsInjective(subset_srv')
         /\ ToSet(subset_srv') = ToSet(subset_srv)
    <2>1. \A e \in Entries : global_list[e] \in Int
      BY <1>2 DEF Sai
    <2>. QED BY <1>1, <1>2, <2>1, SortedList
  <1>13. /\ subset_l' \in Seq(Servers) /\ IsInjective(subset_l')
         /\ \A t \in ToSet(subset_l') : t \in ToSet(subset_l) /\ (done => t # l)
         /\ \A i \in DOMAIN subset_l' :
              i \in DOMAIN subset_l /\ (i # idx_in_l => subset_l'[i] = subset_l[i])
         /\ ~ done => subset_l' = subset_l
    <2>. DEFINE removed == RemoveWithLast(subset_l, idx_in_l)
    <2>1. /\ removed \in Seq(Servers) /\ IsInjective(removed)
          /\ \A t \in ToSet(removed) : t \in ToSet(subset_l) /\ t # l
          /\ \A i \in DOMAIN removed :
               i \in DOMAIN subset_l /\ (i # idx_in_l => removed[i] = subset_l[i])
      BY <1>2, <1>3, RemovedWithLast DEF l
    <2>2. subset_l' = IF done THEN removed ELSE subset_l
      BY <1>1
    <2>. HIDE DEF removed
    <2>3. CASE done
      BY <2>1, <2>2, <2>3
    <2>4. CASE ~ done
      BY <1>2, <2>2, <2>4
    <2>. QED BY <2>3, <2>4
  <1>14. /\ subset_s' \in Seq(Servers) /\ IsInjective(subset_s')
         /\ \A t \in ToSet(subset_s') : t \in ToSet(subset_s) /\ (load'[s] >= 0 => t # s)
    BY <1>1, <1>2, <1>4, RemovedWithLast DEF s
  <1>15. \A e \in Entries : to'[e] = IF e \in set THEN s ELSE to[e]
    BY <1>1
  <1>16. TablesOK'
    BY <1>1, <1>2, <1>6 DEF RelabInv, TablesOK
  <1>17. ListsOK'
    BY <1>1, <1>9 DEF RelabInv, ListsOK
  <1>18. SubsetsOK'
    <2>1. idx_in_l \in 1 .. NbSrv /\ idx_in_s \in 1 .. NbSrv
      <3>1. Len(subset_l) <= NbSrv /\ Len(subset_s) <= NbSrv
        BY <1>2, ServersListed
      <3>2. Len(subset_l) \in Nat /\ Len(subset_s) \in Nat /\ idx_in_l <= Len(subset_l)
        BY <1>2, <1>3
      <3>3. idx_in_l \in Nat /\ idx_in_l >= 1 /\ idx_in_s \in Nat /\ idx_in_s >= 1
        BY <1>2
      <3>4. idx_in_s <= Len(subset_s) /\ NbSrv \in Nat
        BY <1>1, SizesAssumption
      <3>. QED BY <3>1, <3>2, <3>3, <3>4
    <2>2. idx_in_l' \in 1 .. NbSrv + 1 /\ idx_in_s' \in 1 .. NbSrv + 1
      BY <1>1, <2>1, SizesAssumption
    <2>. QED BY <1>12, <1>13, <1>14, <2>2 DEF SubsetsOK
  <1>19. SubsetsInv'
    <2>1. ASSUME NEW t \in ToSet(subset_l') PROVE t \in Givers /\ load'[t] > 0
      <3>1. t \in ToSet(subset_l) /\ (done => t # l)
        BY <1>13, <2>1
      <3>2. t \in Givers /\ load[t] > 0 /\ t \in Servers /\ t # s
        BY <1>3, <1>5, <1>11, <3>1 DEF Givers
      <3>3. CASE t = l
        BY <1>6, <1>9, <1>10, <3>1, <3>2, <3>3
      <3>4. CASE t # l
        BY <1>9, <3>2, <3>4
      <3>. QED BY <3>3, <3>4
    <2>2. ASSUME NEW t \in ToSet(subset_s') PROVE t \in Takers /\ load'[t] < 0
      <3>1. t \in ToSet(subset_s) /\ (load'[s] >= 0 => t # s)
        BY <1>14, <2>2
      <3>2. t \in Takers /\ load[t] < 0 /\ t \in Servers /\ t # l
        BY <1>3, <1>5, <1>11, <3>1 DEF Takers
      <3>3. CASE t = s
        BY <1>6, <1>9, <1>10, <3>1, <3>2, <3>3
      <3>4. CASE t # s
        BY <1>9, <3>2, <3>4
      <3>. QED BY <3>3, <3>4
    <2>3. pc' = "takers" => idx_in_l' \in DOMAIN subset_l'
      BY <1>1, <1>3, <1>13
    <2>4. ASSUME NEW i \in DOMAIN subset_l', Coming(i)'
          PROVE  \A e \in ToSet(subset_srv') : srvTable'[e].id_srv # subset_l'[i]
      <3>1. i \in DOMAIN subset_l /\ (i # idx_in_l => subset_l'[i] = subset_l[i])
        BY <1>13, <2>4
      <3>2. i > idx_in_l
        <4>1. i \in Nat /\ idx_in_l \in Nat
          BY <1>2, <3>1
        <4>. QED BY <1>1, <2>4, <4>1 DEF Coming
      <3>3. Coming(i) /\ i # idx_in_l
        BY <1>2, <3>1, <3>2 DEF Coming
      <3>. QED BY <1>1, <1>3, <1>12, <3>1, <3>3
    <2>. QED BY <1>1, <1>3, <1>11, <1>12, <2>1, <2>2, <2>3, <2>4 DEF SubsetsInv
  <1>20. TargetsInv'
    <2>. SUFFICES ASSUME NEW e \in Entries, Given(e)'
                  PROVE  srvTable[e].id_srv \in Givers /\ to'[e] \in Takers /\ global_list[e] # 0
      BY <1>1, <1>11 DEF TargetsInv
    <2>1. CASE e \in set
      BY <1>5, <1>7, <1>15, <2>1
    <2>2. CASE e \notin set
      <3>1. to'[e] = to[e] /\ Given(e)
        BY <1>1, <1>15, <2>2 DEF Given
      <3>. QED BY <1>1, <3>1 DEF RelabInv, TargetsInv, Planned
    <2>. QED BY <2>1, <2>2
  <1>21. LoadsInv'
    <2>1. /\ \A t \in Takers : load[t] <= 0 /\ GivenTo(t) <= load[t] - Excess[t]
          /\ \A t \in Givers : load[t] >= 0
          /\ \A t \in Servers : Givers = {t} => GivenBy(t) <= Excess[t] - load[t]
      BY <1>1 DEF RelabInv, LoadsInv, Planned
    <2>. DEFINE Gets(t) == {e \in Entries : Given(e) /\ to[e] = t}
                Gives(t) == {e \in Own(srvTable, t) : Given(e)}
                NewGets(t) == {e \in Entries : Given(e)' /\ to'[e] = t}
                NewGives(t) == {e \in Own(srvTable, t) : Given(e)'}
    <2>2. \A t \in Servers : /\ GivenTo(t) = Total(global_list, Gets(t))
                             /\ GivenBy(t) = Total(global_list, Gives(t))
                             /\ GivenTo(t)' = Total(global_list, NewGets(t))
                             /\ GivenBy(t)' = Total(global_list, NewGives(t))
      BY <1>1 DEF GivenTo, GivenBy
    <2>3. \A t \in Servers : /\ Gets(t) \in SUBSET Entries /\ Gives(t) \in SUBSET Entries
                             /\ NewGets(t) \in SUBSET (Gets(t) \cup set)
                             /\ NewGives(t) \in SUBSET (Gives(t) \cup set)
                             /\ t # s => NewGets(t) \in SUBSET Gets(t)
      BY <1>1, <1>15 DEF Own, Given
    <2>. HIDE DEF Gets, Gives, NewGets, NewGives
    <2>4. \A E \in SUBSET Entries, F \in SUBSET Entries :
            /\ Total(global_list, E) \in Nat
            /\ F \in SUBSET E => Total(global_list, F) <= Total(global_list, E)
            /\ Total(global_list, E \cup F) <= Total(global_list, E) + Total(global_list, F)
      BY <1>2, SumOfEntries
    <2>5. ASSUME NEW t \in Servers
          PROVE  /\ GivenTo(t) \in Nat /\ GivenTo(t)' \in Nat /\ GivenTo(t)' <= GivenTo(t) + sum
                 /\ GivenBy(t) \in Nat /\ GivenBy(t)' \in Nat /\ GivenBy(t)' <= GivenBy(t) + sum
                 /\ t # s => GivenTo(t)' <= GivenTo(t)
      <3>1. /\ Gets(t) \in SUBSET Entries /\ Gives(t) \in SUBSET Entries
            /\ Gets(t) \cup set \in SUBSET Entries /\ Gives(t) \cup set \in SUBSET Entries
            /\ NewGets(t) \in SUBSET Entries /\ NewGives(t) \in SUBSET Entries
            /\ NewGets(t) \in SUBSET (Gets(t) \cup set)
            /\ NewGives(t) \in SUBSET (Gives(t) \cup set)
            /\ t # s => NewGets(t) \in SUBSET Gets(t)
        BY <1>7, <2>3
      <3>2. /\ Total(global_list, Gets(t)) \in Nat /\ Total(global_list, Gives(t)) \in Nat
            /\ Total(global_list, NewGets(t)) \in Nat /\ Total(global_list, NewGives(t)) \in Nat
            /\ Total(global_list, Gets(t) \cup set) \in Nat
            /\ Total(global_list, Gives(t) \cup set) \in Nat
        BY <2>4, <3>1
      <3>3. /\ Total(global_list, Gets(t) \cup set) <= Total(global_list, Gets(t)) + sum
            /\ Total(global_list, Gives(t) \cup set) <= Total(global_list, Gives(t)) + sum
        BY <1>7, <2>4, <3>1 DEF sum
      <3>4. /\ Total(global_list, NewGets(t)) <= Total(global_list, Gets(t) \cup set)
            /\ Total(global_list, NewGives(t)) <= Total(global_list, Gives(t) \cup set)
        BY <2>4, <3>1
      <3>5. t # s => Total(global_list, NewGets(t)) <= Total(global_list, Gets(t))
        BY <2>4, <3>1
      <3>6. /\ Total(global_list, NewGets(t)) <= Total(global_list, Gets(t)) + sum
            /\ Total(global_list, NewGives(t)) <= Total(global_list, Gives(t)) + sum
        BY <1>7, <3>2, <3>3, <3>4
      <3>. QED BY <2>2, <3>2, <3>5, <3>6
    <2>6. ASSUME NEW t \in Takers
          PROVE  load'[t] <= 0 /\ GivenTo(t)' <= load'[t] - Excess[t]
      <3>1. t \in Servers /\ t # l /\ load[t] \in Int /\ Excess[t] \in Int
        BY <1>5, <1>8, <1>11 DEF Takers
      <3>2. load[t] <= 0 /\ GivenTo(t) <= load[t] - Excess[t]
        BY <2>1
      <3>3. CASE t = s
        BY <1>7, <1>9, <1>10, <2>5, <3>1, <3>2, <3>3
      <3>4. CASE t # s
        BY <1>9, <2>5, <3>1, <3>2, <3>4
      <3>. QED BY <3>3, <3>4
    <2>7. ASSUME NEW t \in Givers PROVE load'[t] >= 0
      <3>1. t \in Servers /\ t # s /\ load[t] >= 0
        BY <1>5, <1>11, <2>1 DEF Givers
      <3>. QED BY <1>9, <1>10, <3>1
    <2>8. ASSUME NEW t \in Servers, Givers = {t} PROVE GivenBy(t)' <= Excess[t] - load'[t]
      <3>1. t = l /\ load[t] \in Int /\ Excess[t] \in Int
        BY <1>5, <1>8, <1>11, <2>8
      <3>2. GivenBy(t) <= Excess[t] - load[t]
        BY <2>1, <2>8
      <3>3. GivenBy(t) \in Nat /\ GivenBy(t)' \in Nat /\ GivenBy(t)' <= GivenBy(t) + sum
        BY <2>5
      <3>4. load'[t] = load[t] - sum
        BY <1>9, <3>1
      <3>. QED BY <1>7, <3>1, <3>2, <3>3, <3>4
    <2>. QED BY <1>1, <1>11, <2>6, <2>7, <2>8 DEF LoadsInv, Planned
  <1>. QED
    BY <1>16, <1>17, <1>18, <1>19, <1>20, <1>21 DEF RelabInv

(* The targets become the manager's table. *)
LEMMA RelabUpdate ==
  ASSUME RelabInv, Update
  PROVE  RelabInv'
  <1>1. /\ pc = "givers" /\ pc' = "publish" /\ mgrTable = srvTable
        /\ UNCHANGED <<srvTable, global_list, all_list, load, subset_l, subset_s, subset_srv,
                       idx_in_l, idx_in_s, to>>
        /\ mgrTable' = [e \in Entries |-> Reassign(mgrTable[e], to[e])]
    BY DEF Update, RelabInv, TablesOK, merged, step, loops
  <1>2. UNCHANGED <<Excess, Givers, Takers>>
    BY <1>1 DEF Excess, Givers, Takers
  <1>3. TablesOK'
    <2>1. \A e \in Entries : Reassign(mgrTable[e], to[e]) \in Assignment
      BY ReassignLine DEF RelabInv, TablesOK
    <2>. QED BY <1>1, <2>1 DEF RelabInv, TablesOK
  <1>4. ListsOK' /\ SubsetsOK'
    BY <1>1 DEF RelabInv, ListsOK, SubsetsOK
  <1>5. SubsetsInv'
    BY <1>1 DEF SubsetsInv, Looping
  <1>6. TargetsInv'
    BY <1>1, <1>2 DEF RelabInv, TargetsInv, Planned, Given
  <1>7. LoadsInv'
    BY <1>1, <1>2 DEF RelabInv, LoadsInv, Planned, GivenTo, GivenBy, Given, Own
  <1>. QED
    BY <1>3, <1>4, <1>5, <1>6, <1>7 DEF RelabInv

-----------------------------------------------------------------------------
(* What the servers measure. *)

CountersOK ==
  /\ access_count \in [Servers -> Sai]
  /\ sai \in [Servers -> Sai]
  /\ old_accesses \in [Servers -> [Entries -> Seq(Nat)]]
  /\ load_lvl \in [Servers -> Nat]
  /\ since \in Sai

Span(n) == IF n < Count THEN n ELSE Count

(* A window is as long as its entry has been at the server; the other servers *)
(* keep nothing but zeros for it.                                             *)
WindowsInv ==
  \A s \in Servers, e \in Entries :
    /\ Len(old_accesses[s][e]) <= Count
    /\ srvTable[e].id_srv = s => Len(old_accesses[s][e]) = Span(since[e])
    /\ srvTable[e].id_srv # s =>
         /\ access_count[s][e] = 0 /\ sai[s][e] = 0
         /\ \A i \in DOMAIN old_accesses[s][e] : old_accesses[s][e][i] = 0

Measured(s) == pc = "gather" \/ (pc = "measure" /\ s \notin waiting)

(* The level is that of the SAI list from the measure until it is sent. *)
LevelsInv == \A s \in Servers : Measured(s) => load_lvl[s] = Total(sai[s], Entries)

BoundsOK ==
  /\ mean_load \in Nat /\ help \in BOOLEAN
  /\ accesses \in 0 .. MaxAccesses /\ waiting \subseteq Servers
  /\ rounds \in 0 .. MaxRounds

MeasureInv == CountersOK /\ WindowsInv /\ LevelsInv /\ BoundsOK

(* queue_mean is a number, zero for a window of zeros. *)
LEMMA QueueMean ==
  ASSUME NEW w \in Seq(Nat)
  PROVE  /\ queue_mean(w) \in Nat
         /\ (\A i \in DOMAIN w : w[i] = 0) => queue_mean(w) = 0
  <1>. DEFINE D == DOMAIN w
  <1>1. IsFiniteSet(D) /\ (\A i \in D : w[i] \in Nat) /\ (\A i \in D : w[i] \in Int)
    <2>1. D = 1 .. Len(w) /\ Len(w) \in Nat
      OBVIOUS
    <2>2. \A i \in D : w[i] \in Nat
      OBVIOUS
    <2>. HIDE DEF D
    <2>3. IsFiniteSet(D)
      <3>1. IsFiniteSet(1 .. Len(w))
        BY <2>1, FS_Interval
      <3>. QED BY <2>1, <3>1
    <2>. QED BY <2>2, <2>3
  <1>2. FoldSeq(+, 0, w) = SumFunctionOnSet(w, D)
    BY DEF FoldSeq, FoldFunction, SumFunctionOnSet
  <1>. HIDE DEF D
  <1>3. SumFunctionOnSet(w, D) \in Nat
    BY <1>1, SumType
  <1>4. ASSUME \A i \in D : w[i] = 0 PROVE SumFunctionOnSet(w, D) = 0
    <2>1. {} \in SUBSET D /\ \A i \in D \ {} : w[i] = 0
      BY <1>4
    <2>2. SumFunctionOnSet(w, D) = SumFunctionOnSet(w, {})
      BY <1>1, <2>1, SumPart
    <2>3. SumFunctionOnSet(w, {}) = 0
      BY FS_EmptySet, SumRecursion
    <2>. QED BY <2>2, <2>3
  <1>5. w # <<>> => Len(w) \in Nat \ {0}
    OBVIOUS
  <1>. DEFINE sum == SumFunctionOnSet(w, D)
              n   == Len(w)
  <1>6. queue_mean(w) = IF w = <<>> THEN 0 ELSE sum \div n
    BY <1>2 DEF queue_mean
  <1>7. sum \in Nat /\ (w # <<>> => n \in Nat \ {0}) /\ ((\A i \in D : w[i] = 0) => sum = 0)
    BY <1>3, <1>4, <1>5
  <1>. HIDE DEF sum, n
  <1>8. w # <<>> => sum \div n \in Nat /\ 0 \div n = 0
    BY <1>7
  <1>. QED
    BY <1>6, <1>7, <1>8 DEF D

(* queue_put makes the window longer until it is full. *)
LEMMA QueuePut ==
  ASSUME NEW w \in Seq(Nat), NEW v \in Nat, Len(w) <= Count
  PROVE  /\ queue_put(w, v) \in Seq(Nat)
         /\ Len(queue_put(w, v)) = Span(Len(w) + 1)
         /\ (\A i \in DOMAIN w : w[i] = 0) /\ v = 0 =>
              \A i \in DOMAIN queue_put(w, v) : queue_put(w, v)[i] = 0
  <1>1. Count \in Nat /\ Count > 0 /\ Len(w) \in Nat /\ DOMAIN w = 1 .. Len(w)
    BY WindowedAssumption
  <1>2. CASE Len(w) < Count
    <2>1. queue_put(w, v) = Append(w, v)
      BY <1>2 DEF queue_put
    <2>. QED BY <1>1, <1>2, <2>1 DEF Span
  <1>3. CASE ~ (Len(w) < Count)
    <2>1. queue_put(w, v) = Append(Tail(w), v)
      BY <1>3 DEF queue_put
    <2>2. w # <<>> /\ Len(w) = Count
      <3>1. Len(w) = Count
        <4>. DEFINE n == Len(w)
        <4>1. n \in Nat /\ Count \in Nat
          BY <1>1
        <4>2. n <= Count
          OBVIOUS
        <4>3. ~ (n < Count)
          BY <1>3
        <4>. HIDE DEF n
        <4>4. n = Count
          BY <4>1, <4>2, <4>3
        <4>. QED BY <4>4 DEF n
      <3>2. w = <<>> => Len(w) = 0
        OBVIOUS
      <3>. QED BY <1>1, <3>1, <3>2
    <2>3. Tail(w) \in Seq(Nat) /\ Len(Tail(w)) = Count - 1
      BY <1>1, <2>2
    <2>4. \A i \in 1 .. Count - 1 : Tail(w)[i] = w[i + 1] /\ i + 1 \in DOMAIN w
      BY <1>1, <2>2
    <2>. QED BY <1>1, <1>3, <2>1, <2>2, <2>3, <2>4 DEF Span
  <1>. QED BY <1>2, <1>3

(* The SAI list of a server is one, with zeros where it counted nothing. *)
LEMMA CalculatedSai ==
  ASSUME NEW windows \in [Entries -> Seq(Nat)], NEW count \in Sai
  PROVE  /\ eacl_calculate_sai(windows, count) \in Sai
         /\ \A e \in Entries :
              (\A i \in DOMAIN windows[e] : windows[e][i] = 0) /\ count[e] = 0 =>
                eacl_calculate_sai(windows, count)[e] = 0
  <1>1. \A e \in Entries : /\ windows[e] \in Seq(Nat) /\ count[e] \in Nat
                           /\ queue_mean(windows[e]) \in Nat
    BY QueueMean DEF Sai
  <1>2. \A e \in Entries : (queue_mean(windows[e]) + count[e]) \div 2 \in Nat
    BY <1>1
  <1>3. ASSUME NEW e \in Entries, \A i \in DOMAIN windows[e] : windows[e][i] = 0, count[e] = 0
        PROVE  (queue_mean(windows[e]) + count[e]) \div 2 = 0
    <2>1. queue_mean(windows[e]) = 0
      BY <1>1, <1>3, QueueMean
    <2>. QED BY <1>3, <2>1
  <1>. QED
    BY <1>2, <1>3 DEF eacl_calculate_sai, Sai

(* So does the invariant of the measures. *)
LEMMA MeasureInit == Init => MeasureInv
  <1>. SUFFICES ASSUME Init PROVE MeasureInv
    OBVIOUS
  <1>1. <<>> \in Seq(Nat) /\ Len(<<>>) = 0 /\ DOMAIN <<>> = {}
    OBVIOUS
  <1>2. CountersOK
    BY <1>1, NoSaiType DEF Init, CountersOK
  <1>3. WindowsInv
    <2>1. \A s \in Servers, e \in Entries :
            old_accesses[s][e] = <<>> /\ access_count[s][e] = 0 /\ sai[s][e] = 0 /\ since[e] = 0
      BY DEF Init, NoSai
    <2>2. Span(0) = 0 /\ 0 <= Count
      BY WindowedAssumption DEF Span
    <2>. QED BY <1>1, <2>1, <2>2 DEF WindowsInv
  <1>4. LevelsInv
    BY DEF Init, LevelsInv, Measured
  <1>5. BoundsOK
    <2>1. help \in BOOLEAN /\ waiting \subseteq Servers
      BY DEF Init
    <2>2. mean_load \in Nat /\ accesses \in 0 .. MaxAccesses /\ rounds \in 0 .. MaxRounds
      BY WindowedAssumption DEF Init
    <2>. QED BY <2>1, <2>2 DEF BoundsOK
  <1>. QED
    BY <1>2, <1>3, <1>4, <1>5 DEF MeasureInv

(* Steps that touch no counter. *)
LEMMA MeasureFrame ==
  ASSUME MeasureInv, UNCHANGED <<counters, srvTable>>, BoundsOK', LevelsInv'
  PROVE  MeasureInv'
  <1>1. UNCHANGED <<access_count, sai, old_accesses, load_lvl, since, srvTable>>
    BY DEF counters
  <1>2. CountersOK' /\ WindowsInv'
    BY <1>1 DEF MeasureInv, CountersOK, WindowsInv
  <1>. QED
    BY <1>2 DEF MeasureInv

(* A server counts only the accesses to the entries it is in charge of. *)
LEMMA MeasureAccess ==
  ASSUME RelabInv, MeasureInv, NEW e \in Entries, eacl_incr_access(e)
  PROVE  MeasureInv'
  <1>. DEFINE s == srvTable[e].id_srv
  <1>1. /\ pc = "step" /\ pc' = "step" /\ accesses < MaxAccesses
        /\ access_count' = [access_count EXCEPT ![s][e] = @ + Burst]
        /\ accesses' = accesses + 1
        /\ UNCHANGED <<sai, old_accesses, load_lvl, since, mean_load, help, waiting, srvTable, rounds>>
    BY DEF eacl_incr_access
  <1>2. access_count \in [Servers -> Sai] /\ s \in Servers
    BY DEF MeasureInv, CountersOK, RelabInv, TablesOK, Assignment
  <1>. HIDE DEF s
  <1>3. \A r \in Servers, f \in Entries :
          /\ access_count[r][f] \in Nat
          /\ access_count'[r][f] = IF r = s /\ f = e THEN access_count[r][f] + Burst
                                   ELSE access_count[r][f]
    BY <1>1, <1>2 DEF Sai
  <1>4. access_count' \in [Servers -> Sai]
    <2>1. access_count' = [access_count EXCEPT ![s][e] = @ + Burst]
      BY <1>1
    <2>. QED BY <1>2, <2>1, WindowedAssumption DEF Sai
  <1>5. CountersOK'
    BY <1>1, <1>4 DEF MeasureInv, CountersOK
  <1>6. WindowsInv'
    <2>1. \A r \in Servers, f \in Entries :
            srvTable[f].id_srv # r => access_count'[r][f] = access_count[r][f]
      BY <1>3 DEF s
    <2>. QED BY <1>1, <2>1 DEF MeasureInv, WindowsInv
  <1>7. LevelsInv'
    BY <1>1 DEF LevelsInv, Measured
  <1>8. BoundsOK'
    BY <1>1, WindowedAssumption DEF MeasureInv, BoundsOK
  <1>. QED
    BY <1>5, <1>6, <1>7, <1>8 DEF MeasureInv

(* The handler of a server shifts its windows and computes its level. *)
LEMMA MeasureSignal ==
  ASSUME RelabInv, MeasureInv, NEW s \in Servers, distribution_signal2_action(s)
  PROVE  MeasureInv'
  <1>. DEFINE list    == eacl_calculate_sai(old_accesses[s], access_count[s])
              windows == [e \in Entries |-> queue_put(old_accesses[s][e], access_count[s][e])]
  <1>1. /\ pc = "measure" /\ pc' = "measure" /\ waiting' = waiting \ {s}
        /\ sai' = [sai EXCEPT ![s] = list]
        /\ load_lvl' = [load_lvl EXCEPT ![s] = Total(sai'[s], Entries)]
        /\ old_accesses' = [old_accesses EXCEPT ![s] = windows]
        /\ access_count' = [access_count EXCEPT ![s] = NoSai]
        /\ since' = [e \in Entries |-> IF srvTable[e].id_srv = s THEN since[e] + 1 ELSE since[e]]
        /\ help' = (help \/ ~WithinThresholds(load_lvl'[s]))
        /\ UNCHANGED <<mean_load, accesses, srvTable, rounds>>
    BY DEF distribution_signal2_action
  <1>2. /\ access_count \in [Servers -> Sai] /\ sai \in [Servers -> Sai]
        /\ old_accesses \in [Servers -> [Entries -> Seq(Nat)]]
        /\ load_lvl \in [Servers -> Nat] /\ since \in Sai
        /\ old_accesses[s] \in [Entries -> Seq(Nat)] /\ access_count[s] \in Sai
    BY DEF MeasureInv, CountersOK
  <1>3. \A r \in Servers, e \in Entries :
          /\ Len(old_accesses[r][e]) <= Count
          /\ srvTable[e].id_srv = r => Len(old_accesses[r][e]) = Span(since[e])
          /\ srvTable[e].id_srv # r =>
               /\ access_count[r][e] = 0 /\ sai[r][e] = 0
               /\ \A i \in DOMAIN old_accesses[r][e] : old_accesses[r][e][i] = 0
    BY DEF MeasureInv, WindowsInv
  <1>4. /\ list \in Sai
        /\ \A e \in Entries : srvTable[e].id_srv # s => list[e] = 0
    BY <1>2, <1>3, CalculatedSai
  <1>5. \A e \in Entries :
          /\ windows[e] \in Seq(Nat)
          /\ Len(windows[e]) = Span(Len(old_accesses[s][e]) + 1)
          /\ srvTable[e].id_srv # s => \A i \in DOMAIN windows[e] : windows[e][i] = 0
    <2>. TAKE e \in Entries
    <2>1. old_accesses[s][e] \in Seq(Nat) /\ access_count[s][e] \in Nat
      BY <1>2 DEF Sai
    <2>2. Len(old_accesses[s][e]) <= Count
      BY <1>3
    <2>3. /\ queue_put(old_accesses[s][e], access_count[s][e]) \in Seq(Nat)
          /\ Len(queue_put(old_accesses[s][e], access_count[s][e]))
               = Span(Len(old_accesses[s][e]) + 1)
          /\ (\A i \in DOMAIN old_accesses[s][e] : old_accesses[s][e][i] = 0)
               /\ access_count[s][e] = 0 =>
               \A i \in DOMAIN queue_put(old_accesses[s][e], access_count[s][e]) :
                 queue_put(old_accesses[s][e], access_count[s][e])[i] = 0
      BY <2>1, <2>2, QueuePut
    <2>4. windows[e] = queue_put(old_accesses[s][e], access_count[s][e])
      OBVIOUS
    <2>. HIDE DEF windows
    <2>. QED BY <1>3, <2>3, <2>4
  <1>6. windows \in [Entries -> Seq(Nat)]
    BY <1>5
  <1>. HIDE DEF list, windows
  <1>7. sai'[s] = list /\ Total(list, Entries) \in Nat
    <2>1. Total(list, Entries) \in Nat
      BY <1>4, Counted, SumType DEF Total, Sai
    <2>. QED BY <1>1, <1>2, <2>1
  <1>8. CountersOK'
    <2>1. since' \in Sai
      BY <1>1, <1>2 DEF Sai
    <2>. QED BY <1>1, <1>2, <1>4, <1>6, <1>7, <2>1, NoSaiType DEF CountersOK
  <1>9. WindowsInv'
    <2>. SUFFICES ASSUME NEW r \in Servers, NEW e \in Entries
                  PROVE  /\ Len(old_accesses'[r][e]) <= Count
                         /\ srvTable[e].id_srv = r => Len(old_accesses'[r][e]) = Span(since'[e])
                         /\ srvTable[e].id_srv # r =>
                              /\ access_count'[r][e] = 0 /\ sai'[r][e] = 0
                              /\ \A i \in DOMAIN old_accesses'[r][e] : old_accesses'[r][e][i] = 0
      BY <1>1 DEF WindowsInv
    <2>1. CASE r # s
      <3>1. /\ old_accesses'[r] = old_accesses[r] /\ access_count'[r] = access_count[r]
            /\ sai'[r] = sai[r] /\ (srvTable[e].id_srv = r => since'[e] = since[e])
        BY <1>1, <1>2, <2>1
      <3>. QED BY <1>3, <3>1
    <2>2. CASE r = s
      <3>1. /\ old_accesses'[r][e] = windows[e] /\ access_count'[r][e] = 0
            /\ sai'[r][e] = list[e] /\ (srvTable[e].id_srv = r => since'[e] = since[e] + 1)
        BY <1>1, <1>2, <2>2 DEF NoSai
      <3>2. \A n \in Nat : Span(n) <= Count /\ Span(Span(n) + 1) = Span(n + 1)
        BY WindowedAssumption DEF Span
      <3>3. Len(old_accesses[s][e]) \in Nat /\ since[e] \in Nat
        BY <1>2 DEF Sai
      <3>4. Len(windows[e]) = Span(Len(old_accesses[s][e]) + 1)
        BY <1>5
      <3>5. Len(windows[e]) <= Count
        BY <3>2, <3>3, <3>4
      <3>6. CASE srvTable[e].id_srv = s
        <4>1. Len(old_accesses[s][e]) = Span(since[e])
          BY <1>3, <3>6
        <4>2. Len(windows[e]) = Span(since[e] + 1)
          BY <3>2, <3>3, <3>4, <4>1
        <4>. QED BY <2>2, <3>1, <3>5, <3>6, <4>2
      <3>7. CASE srvTable[e].id_srv # s
        <4>1. list[e] = 0 /\ \A i \in DOMAIN windows[e] : windows[e][i] = 0
          BY <1>4, <1>5, <3>7
        <4>. QED BY <2>2, <3>1, <3>5, <3>7, <4>1
      <3>. QED BY <3>6, <3>7
    <2>. QED BY <2>1, <2>2
  <1>10. LevelsInv'
    <2>. SUFFICES ASSUME NEW r \in Servers, r \notin waiting'
                  PROVE  load_lvl'[r] = Total(sai'[r], Entries)
      BY <1>1 DEF LevelsInv, Measured
    <2>1. CASE r # s
      <3>1. load_lvl'[r] = load_lvl[r] /\ sai'[r] = sai[r] /\ r \notin waiting
        BY <1>1, <1>2, <2>1
      <3>. QED BY <1>1, <3>1 DEF MeasureInv, LevelsInv, Measured
    <2>2. CASE r = s
      BY <1>1, <1>2, <2>2
    <2>. QED BY <2>1, <2>2
  <1>11. BoundsOK'
    <2>1. help' \in BOOLEAN
      BY <1>1
    <2>. QED BY <1>1, <2>1 DEF MeasureInv, BoundsOK
  <1>. QED
    BY <1>8, <1>9, <1>10, <1>11 DEF MeasureInv

(* Both servers of a moved entry reset it. *)
LEMMA MeasureTransfer ==
  ASSUME RelabInv, MeasureInv, Transfer
  PROVE  MeasureInv'
  <1>1. /\ pc' = "step" /\ srvTable' = mgrTable /\ mean_load' = mean(all_list)
        /\ access_count' = [s \in Servers |-> [e \in Entries |->
                              IF e \in Reset(s) THEN 0 ELSE access_count[s][e]]]
        /\ sai' = [s \in Servers |-> [e \in Entries |->
                     IF e \in Reset(s) THEN 0 ELSE sai[s][e]]]
        /\ old_accesses' = [s \in Servers |-> [e \in Entries |->
                              IF e \in Reset(s) THEN <<>> ELSE old_accesses[s][e]]]
        /\ since' = [e \in Entries |-> IF Changed(e) THEN 0 ELSE since[e]]
        /\ UNCHANGED <<load_lvl, help, accesses, waiting, rounds>>
    BY DEF Transfer
  <1>2. /\ load_lvl \in [Servers -> Nat]
        /\ \A s \in Servers, e \in Entries :
             /\ access_count[s][e] \in Nat /\ sai[s][e] \in Nat
             /\ old_accesses[s][e] \in Seq(Nat) /\ since[e] \in Nat
    BY DEF MeasureInv, CountersOK, Sai
  <1>3. <<>> \in Seq(Nat) /\ Len(<<>>) = 0 /\ DOMAIN <<>> = {}
    OBVIOUS
  <1>4. \A s \in Servers, e \in Entries :
          e \in Reset(s) <=> Changed(e) /\ s \in {mgrTable[e].id_srv, srvTable[e].id_srv}
    BY DEF Reset
  <1>5. \A s \in Servers, e \in Entries :
          IF e \in Reset(s)
          THEN old_accesses'[s][e] = <<>> /\ access_count'[s][e] = 0 /\ sai'[s][e] = 0
          ELSE /\ old_accesses'[s][e] = old_accesses[s][e]
               /\ access_count'[s][e] = access_count[s][e] /\ sai'[s][e] = sai[s][e]
    BY <1>1
  <1>6. CountersOK'
    <2>1. access_count' \in [Servers -> Sai]
      <3>1. \A s \in Servers : [e \in Entries |-> IF e \in Reset(s) THEN 0 ELSE access_count[s][e]] \in Sai
        BY <1>2 DEF Sai
      <3>. QED BY <1>1, <3>1
    <2>2. sai' \in [Servers -> Sai]
      <3>1. \A s \in Servers : [e \in Entries |-> IF e \in Reset(s) THEN 0 ELSE sai[s][e]] \in Sai
        BY <1>2 DEF Sai
      <3>. QED BY <1>1, <3>1
    <2>3. since' \in Sai
      <3>1. \A e \in Entries : since[e] \in Nat
        BY DEF MeasureInv, CountersOK, Sai
      <3>. QED BY <1>1, <3>1 DEF Sai
    <2>4. old_accesses' \in [Servers -> [Entries -> Seq(Nat)]]
      BY <1>1, <1>2, <1>3
    <2>. QED BY <1>1, <1>2, <2>1, <2>2, <2>3, <2>4 DEF CountersOK
  <1>7. WindowsInv'
    <2>. SUFFICES ASSUME NEW s \in Servers, NEW e \in Entries
                  PROVE  /\ Len(old_accesses'[s][e]) <= Count
                         /\ mgrTable[e].id_srv = s => Len(old_accesses'[s][e]) = Span(since'[e])
                         /\ mgrTable[e].id_srv # s =>
                              /\ access_count'[s][e] = 0 /\ sai'[s][e] = 0
                              /\ \A i \in DOMAIN old_accesses'[s][e] : old_accesses'[s][e][i] = 0
      BY <1>1 DEF WindowsInv
    <2>1. CASE e \in Reset(s)
      <3>1. since'[e] = 0 /\ Span(0) = 0 /\ 0 <= Count
        BY <1>1, <1>4, <2>1, WindowedAssumption DEF Span
      <3>. QED BY <1>3, <1>5, <2>1, <3>1
    <2>2. CASE e \notin Reset(s)
      <3>1. /\ Len(old_accesses[s][e]) <= Count
            /\ srvTable[e].id_srv = s => Len(old_accesses[s][e]) = Span(since[e])
            /\ srvTable[e].id_srv # s =>
                 /\ access_count[s][e] = 0 /\ sai[s][e] = 0
                 /\ \A i \in DOMAIN old_accesses[s][e] : old_accesses[s][e][i] = 0
        BY DEF MeasureInv, WindowsInv
      <3>2. mgrTable[e].id_srv = s => ~ Changed(e) /\ srvTable[e].id_srv = s /\ since'[e] = since[e]
        BY <1>1, <1>4, <2>2 DEF Changed
      <3>3. mgrTable[e].id_srv # s => srvTable[e].id_srv # s
        BY <1>4, <2>2 DEF Changed
      <3>. QED BY <1>5, <2>2, <3>1, <3>2, <3>3
    <2>. QED BY <2>1, <2>2
  <1>8. LevelsInv'
    BY <1>1 DEF LevelsInv, Measured
  <1>9. BoundsOK'
    <2>1. mean(all_list) \in Nat
      BY MeanType DEF RelabInv, ListsOK
    <2>. QED BY <1>1, <2>1 DEF MeasureInv, BoundsOK
  <1>. QED
    BY <1>6, <1>7, <1>8, <1>9 DEF MeasureInv

(* Every step keeps the invariant of the measures. *)
LEMMA MeasureStep == RelabInv /\ MeasureInv /\ [Next]_vars => MeasureInv'
  <1>. SUFFICES ASSUME RelabInv, MeasureInv, [Next]_vars PROVE MeasureInv'
    OBVIOUS
  <1>1. ASSUME NEW e \in Entries, eacl_incr_access(e) PROVE MeasureInv'
    BY <1>1, MeasureAccess
  <1>2. ASSUME NEW s \in Servers, distribution_signal2_action(s) PROVE MeasureInv'
    BY <1>2, MeasureSignal
  <1>3. CASE Transfer
    BY <1>3, MeasureTransfer
  <1>4. ASSUME UNCHANGED <<counters, srvTable, mean_load, accesses>>, help' \in BOOLEAN,
               waiting' \subseteq Servers, rounds' \in 0 .. MaxRounds,
               \A s \in Servers : Measured(s)' => Measured(s)
        PROVE  MeasureInv'
    <2>1. UNCHANGED <<load_lvl, sai>>
      BY <1>4 DEF counters
    <2>2. LevelsInv'
      BY <1>4, <2>1 DEF MeasureInv, LevelsInv
    <2>3. BoundsOK'
      BY <1>4 DEF MeasureInv, BoundsOK
    <2>. QED BY <1>4, <2>2, <2>3, MeasureFrame
  <1>5. help \in BOOLEAN /\ waiting \subseteq Servers /\ rounds \in 0 .. MaxRounds
    BY DEF MeasureInv, BoundsOK
  <1>6. CASE Signal
    <2>1. UNCHANGED <<counters, srvTable, mean_load, accesses>> /\ waiting' = Servers
      BY <1>6 DEF Signal
    <2>2. help' \in BOOLEAN
      BY <1>6 DEF Signal
    <2>3. rounds' \in 0 .. MaxRounds
      BY <1>5, <1>6, WindowedAssumption DEF Signal
    <2>4. \A s \in Servers : ~ Measured(s)'
      BY <1>6 DEF Signal, Measured
    <2>. QED BY <1>4, <2>1, <2>2, <2>3, <2>4
  <1>7. CASE Ask
    <2>1. UNCHANGED <<counters, srvTable, mean_load, accesses, help, rounds>> /\ waiting' = Servers
      BY <1>7 DEF Ask
    <2>2. \A s \in Servers : Measured(s)
      BY <1>7 DEF Ask, Measured
    <2>. QED BY <1>4, <1>5, <2>1, <2>2
  <1>8. ASSUME NEW s \in Servers, Gather(s) PROVE MeasureInv'
    <2>1. UNCHANGED <<counters, srvTable, mean_load, accesses, help, rounds>>
      BY <1>8 DEF Gather
    <2>2. waiting' \subseteq Servers
      BY <1>5, <1>8 DEF Gather
    <2>3. \A r \in Servers : Measured(r)
      BY <1>8 DEF Gather, Measured
    <2>. QED BY <1>4, <1>5, <2>1, <2>2, <2>3
  <1>9. ASSUME UNCHANGED <<counters, step>>, \A s \in Servers : Measured(s)' => Measured(s)
        PROVE  MeasureInv'
    <2>1. UNCHANGED <<mean_load, help, accesses, waiting, srvTable, rounds>>
      BY <1>9 DEF step
    <2>. QED BY <1>4, <1>5, <1>9, <2>1
  <1>10. CASE NothingToDo \/ CalculateLoads \/ NextGiver \/ Fill \/ TakersDone \/ Update
    <2>1. UNCHANGED <<counters, step>>
      BY <1>10 DEF NothingToDo, CalculateLoads, NextGiver, Fill, TakersDone, Update
    <2>2. pc' \in {"step", "givers", "takers", "publish"}
      BY <1>10 DEF NothingToDo, CalculateLoads, NextGiver, Fill, TakersDone, Update
    <2>3. \A s \in Servers : ~ Measured(s)'
      BY <2>2 DEF Measured
    <2>. QED BY <1>9, <2>1, <2>3
  <1>11. CASE UNCHANGED vars
    <2>1. UNCHANGED <<counters, step, pc>>
      BY <1>11 DEF vars
    <2>2. UNCHANGED waiting
      BY <2>1 DEF step
    <2>3. \A s \in Servers : Measured(s)' => Measured(s)
      BY <2>1, <2>2 DEF Measured
    <2>. QED BY <1>9, <2>1, <2>3
  <1>. QED
    BY <1>1, <1>2, <1>3, <1>6, <1>7, <1>8, <1>10, <1>11 DEF Next

-----------------------------------------------------------------------------
(* All steps. *)

(* Every step keeps the invariant of the loops. *)
LEMMA RelabStep == RelabInv /\ MeasureInv /\ [Next]_vars => RelabInv'
  <1>. SUFFICES ASSUME RelabInv, MeasureInv, [Next]_vars PROVE RelabInv'
    OBVIOUS
  <1>1. /\ srvTable \in [Entries -> Assignment] /\ mgrTable \in [Entries -> Assignment]
        /\ pc # "publish" => mgrTable = srvTable
        /\ ListsOK
    BY DEF RelabInv, TablesOK
  <1>2. ASSUME UNCHANGED <<pc, srvTable, mgrTable, merged, loops>> PROVE RelabInv'
    BY <1>2, RelabFrame
  <1>3. ASSUME pc # "publish", pc' \in {"step", "measure", "gather"},
               UNCHANGED <<srvTable, mgrTable, loops>>, ListsOK'
        PROVE  RelabInv'
    BY <1>1, <1>3, RelabOutside
  <1>4. ASSUME NEW e \in Entries, eacl_incr_access(e) PROVE RelabInv'
    BY <1>2, <1>4 DEF eacl_incr_access
  <1>5. ASSUME NEW s \in Servers, distribution_signal2_action(s) PROVE RelabInv'
    BY <1>2, <1>5 DEF distribution_signal2_action
  <1>6. CASE Signal \/ NothingToDo \/ Ask
    <2>1. pc # "publish" /\ pc' \in {"step", "measure", "gather"}
      BY <1>6 DEF Signal, NothingToDo, Ask
    <2>2. UNCHANGED <<srvTable, mgrTable, loops, merged>>
      BY <1>6 DEF Signal, NothingToDo, Ask, step
    <2>3. ListsOK'
      BY <1>1, <2>2 DEF ListsOK, merged, loops
    <2>. QED BY <1>3, <2>1, <2>2, <2>3
  <1>7. ASSUME NEW s \in Servers, Gather(s) PROVE RelabInv'
    <2>1. /\ pc = "gather" /\ pc' = "gather" /\ UNCHANGED <<srvTable, mgrTable, loops>>
          /\ global_list' = manager_merge_eacl(global_list, sai[s])
          /\ all_list' = [all_list EXCEPT ![s] = load_lvl[s]]
      BY <1>7 DEF Gather
    <2>2. sai[s] \in Sai /\ load_lvl[s] \in Nat
      BY DEF MeasureInv, CountersOK
    <2>3. global_list' \in Sai
      BY <1>1, <2>1, <2>2, MergedList DEF ListsOK
    <2>4. ListsOK'
      BY <1>1, <2>1, <2>2, <2>3 DEF ListsOK, loops
    <2>. QED BY <1>3, <2>1, <2>4
  <1>8. CASE Transfer
    <2>1. pc' = "step" /\ mgrTable' = srvTable' /\ srvTable' = mgrTable /\ UNCHANGED <<loops, merged>>
      BY <1>8 DEF Transfer
    <2>2. ListsOK'
      BY <1>1, <2>1 DEF ListsOK, merged, loops
    <2>. QED BY <1>1, <2>1, <2>2, RelabOutside
  <1>9. CASE UNCHANGED vars
    BY <1>2, <1>9 DEF vars, step
  <1>. QED
    BY <1>4, <1>5, <1>6, <1>7, <1>8, <1>9, RelabStart, RelabNextGiver, RelabFill,
       RelabTakersDone, RelabUpdate DEF Next

-----------------------------------------------------------------------------
(* The theorems. *)

(* What the loops of manager_calculate_relab and the handlers of SIGUSR2     *)
(* keep true in every state: the strengthening the properties follow from.   *)
THEOREM WindowedInvariance == Spec => [](RelabInv /\ MeasureInv)
  <1>1. Init => RelabInv /\ MeasureInv
    BY RelabInit, MeasureInit
  <1>2. RelabInv /\ MeasureInv /\ [Next]_vars => (RelabInv /\ MeasureInv)'
    BY RelabStep, MeasureStep
  <1>. QED BY <1>1, <1>2, PTL DEF Spec

(* The state of the servers and of the manager has its types: no list        *)
(* outgrows its array, no index leaves its list, no window its queue.        *)
THEOREM WindowedTypes == Spec => []TypeOK
  <1>1. RelabInv /\ MeasureInv => TypeOK
    <2>. SUFFICES ASSUME RelabInv, MeasureInv PROVE TypeOK
      OBVIOUS
    <2>1. /\ access_count \in [Servers -> Sai] /\ sai \in [Servers -> Sai]
          /\ load_lvl \in [Servers -> Nat] /\ since \in Sai
      BY DEF MeasureInv, CountersOK
    <2>2. \A s \in Servers, e \in Entries :
            old_accesses[s][e] \in Seq(Nat) /\ Len(old_accesses[s][e]) <= Count
      BY DEF MeasureInv, CountersOK, WindowsInv
    <2>3. /\ mean_load \in Nat /\ help \in BOOLEAN
          /\ accesses \in 0 .. MaxAccesses /\ waiting \subseteq Servers
          /\ rounds \in 0 .. MaxRounds
      BY DEF MeasureInv, BoundsOK
    <2>4. /\ global_list \in Sai /\ all_list \in [Servers -> Nat] /\ load \in [Servers -> Int]
          /\ mgrTable \in [Entries -> Assignment] /\ srvTable \in [Entries -> Assignment]
          /\ to \in [Entries -> Servers]
          /\ pc \in {"step", "measure", "gather", "givers", "takers", "publish"}
      BY DEF RelabInv, ListsOK, TablesOK
    <2>5. /\ subset_l \in Seq(Servers) /\ subset_s \in Seq(Servers) /\ subset_srv \in Seq(Entries)
          /\ idx_in_l \in 1 .. NbSrv + 1 /\ idx_in_s \in 1 .. NbSrv + 1 /\ IsInjective(subset_srv)
      BY DEF RelabInv, SubsetsOK
    <2>6. Len(subset_srv) <= NEntry
      <3>1. ToSet(subset_srv) \in SUBSET Entries /\ Cardinality(ToSet(subset_srv)) = Len(subset_srv)
        BY <2>5, ElementsOfList
      <3>2. Cardinality(ToSet(subset_srv)) <= Cardinality(Entries)
        BY <3>1, Counted, FS_Subset
      <3>. QED BY <3>1, <3>2, Counted
    <2>. QED BY <2>1, <2>2, <2>3, <2>4, <2>5, <2>6 DEF TypeOK
  <1>. QED BY <1>1, WindowedInvariance, PTL

(* The window of an entry at its server (eacl_windowed.c) has one value per  *)
(* step since the entry came there, whatever servers it was at before.       *)
THEOREM WindowsFollowEntries == Spec => []WindowIsOwners
  <1>1. RelabInv /\ MeasureInv => WindowIsOwners
    <2>. SUFFICES ASSUME RelabInv, MeasureInv, NEW e \in Entries
                  PROVE  Len(old_accesses[srvTable[e].id_srv][e])
                           = IF since[e] < Count THEN since[e] ELSE Count
      BY DEF WindowIsOwners
    <2>1. srvTable[e].id_srv \in Servers
      BY DEF RelabInv, TablesOK, Assignment
    <2>. QED BY <2>1 DEF MeasureInv, WindowsInv, Span
  <1>. QED BY <1>1, WindowedInvariance, PTL

(* eacl_get_load sums over all entries, and the sum a server sends is its    *)
(* own load: it has counted nothing for the entries of others.               *)
THEOREM LevelsAreOwnLoads == Spec => []LoadIsOwners
  <1>1. RelabInv /\ MeasureInv => LoadIsOwners
    <2>. SUFFICES ASSUME RelabInv, MeasureInv, pc = "gather", NEW s \in Servers
                  PROVE  load_lvl[s] = Total(sai[s], Own(srvTable, s))
      BY DEF LoadIsOwners
    <2>1. load_lvl[s] = Total(sai[s], Entries)
      BY DEF MeasureInv, LevelsInv, Measured
    <2>2. Own(srvTable, s) \in SUBSET Entries
      BY DEF Own
    <2>3. \A e \in Entries : sai[s][e] \in Int
      BY DEF MeasureInv, CountersOK, Sai
    <2>4. \A e \in Entries \ Own(srvTable, s) : sai[s][e] = 0
      BY DEF MeasureInv, WindowsInv, Own
    <2>5. Total(sai[s], Entries) = Total(sai[s], Own(srvTable, s))
      BY <2>2, <2>3, <2>4, Counted, SumPart DEF Total
    <2>. QED BY <2>1, <2>5
  <1>. QED BY <1>1, WindowedInvariance, PTL

(* What RelabInv says of the loads, in terms of the levels of the servers.   *)
LEMMA LoadsMeanExcess ==
  ASSUME RelabInv, NEW s \in Servers
  PROVE  /\ Mean \in Int /\ all_list[s] \in Int /\ Excess[s] = all_list[s] - Mean
         /\ load[s] \in Int /\ GivenTo(s) \in Int /\ GivenBy(s) \in Int
         /\ s \in Takers <=> all_list[s] < Mean
         /\ s \in Givers <=> all_list[s] > Mean
  <1>1. all_list \in [Servers -> Nat] /\ load \in [Servers -> Int] /\ global_list \in Sai
    BY DEF RelabInv, ListsOK
  <1>2. Mean \in Nat
    BY <1>1, MeanType DEF Mean
  <1>3. Excess[s] = all_list[s] - Mean
    BY DEF Excess, RelativeLoad, Mean
  <1>4. /\ {e \in Entries : Given(e) /\ to[e] = s} \in SUBSET Entries
        /\ {e \in Own(srvTable, s) : Given(e)} \in SUBSET Entries
    BY DEF Own
  <1>5. GivenTo(s) \in Nat /\ GivenBy(s) \in Nat
    BY <1>1, <1>4, SumOfEntries DEF GivenTo, GivenBy
  <1>. QED
    BY <1>1, <1>2, <1>3, <1>5 DEF Takers, Givers

(* No underloaded server is given more than it lacks, although the loops of  *)
(* manager_calculate_relab may look at it, and give an entry, several times. *)
THEOREM TakersStayBelowMean == Spec => []NoTakerOvershoots
  <1>1. RelabInv => NoTakerOvershoots
    <2>. SUFFICES ASSUME RelabInv, pc = "publish", NEW s \in Servers, all_list[s] < Mean
                  PROVE  all_list[s] + GivenTo(s) <= Mean
      BY DEF NoTakerOvershoots
    <2>1. s \in Takers
      BY LoadsMeanExcess
    <2>2. load[s] <= 0 /\ GivenTo(s) <= load[s] - Excess[s]
      BY <2>1 DEF RelabInv, LoadsInv, Planned
    <2>3. /\ Mean \in Int /\ all_list[s] \in Int /\ Excess[s] = all_list[s] - Mean
          /\ load[s] \in Int /\ GivenTo(s) \in Int
      BY LoadsMeanExcess
    <2>. QED BY <2>2, <2>3
  <1>. QED BY <1>1, WindowedInvariance, PTL

(* A server that is the only overloaded one keeps at least the mean.         *)
THEOREM OnlyGiverStaysAboveMean == Spec => []OnlyGiverKeepsItsShare
  <1>1. RelabInv => OnlyGiverKeepsItsShare
    <2>. SUFFICES ASSUME RelabInv, pc = "publish", NEW s \in Servers, Overloaded = {s}
                  PROVE  all_list[s] - GivenBy(s) >= Mean
      BY DEF OnlyGiverKeepsItsShare
    <2>1. Givers = {s}
      <3>1. \A r \in Servers : r \in Givers <=> all_list[r] > Mean
        BY LoadsMeanExcess
      <3>2. Givers \in SUBSET Servers
        BY DEF Givers
      <3>. QED BY <3>1, <3>2 DEF Overloaded
    <2>2. load[s] >= 0 /\ GivenBy(s) <= Excess[s] - load[s]
      BY <2>1 DEF RelabInv, LoadsInv, Planned
    <2>3. /\ Mean \in Int /\ all_list[s] \in Int /\ Excess[s] = all_list[s] - Mean
          /\ load[s] \in Int /\ GivenBy(s) \in Int
      BY LoadsMeanExcess
    <2>. QED BY <2>2, <2>3
  <1>. QED BY <1>1, WindowedInvariance, PTL

(* manager_balance_load stops at the first zero of the sorted list, so an    *)
(* entry nobody used keeps its server and its version.                       *)
THEOREM IdleStay == Spec => []IdleEntriesStay
  <1>1. RelabInv => IdleEntriesStay
    <2>. SUFFICES ASSUME RelabInv, pc = "publish", NEW e \in Entries, global_list[e] = 0
                  PROVE  mgrTable[e] = srvTable[e]
      BY DEF IdleEntriesStay
    <2>1. to[e] = srvTable[e].id_srv
      BY DEF RelabInv, TargetsInv, Planned, Given
    <2>2. mgrTable[e] = Reassign(srvTable[e], to[e])
      BY DEF RelabInv, TablesOK
    <2>. QED BY <2>1, <2>2 DEF Reassign
  <1>. QED BY <1>1, WindowedInvariance, PTL

(* Rebalancing and BalanceWindowed share the module Reassignment. *)
LEMMA SameReassignment ==
  /\ Redistribution!InitialAssignments = InitialAssignments
  /\ Redistribution!Entries = Entries
  /\ \A line, srv : Redistribution!Reassign(line, srv) = Reassign(line, srv)
  /\ \A t : Redistribution!RelabMany(t) = RelabMany(t)
  <1>1. /\ Redistribution!Entries = Entries
        /\ Redistribution!Servers = Servers
    BY DEF Redistribution!Entries, Entries, Redistribution!Servers, Servers
  <1>2. Redistribution!InitialAssignments = InitialAssignments
    BY <1>1 DEF Redistribution!InitialAssignments, InitialAssignments, Redistribution!mlt_init,
                mlt_init, Redistribution!AssignmentOf, AssignmentOf
  <1>3. ASSUME NEW t PROVE Redistribution!RelabMany(t) = RelabMany(t)
    BY <1>1 DEF Redistribution!RelabMany, RelabMany, Redistribution!Moved, Moved
  <1>4. \A line, srv : Redistribution!Reassign(line, srv) = Reassign(line, srv)
    BY DEF Redistribution!Reassign, Reassign
  <1>. QED BY <1>1, <1>2, <1>3, <1>4

(* A transfer is a redistribution by the relation RelabMany. *)
LEMMA TransferIsRelabMany ==
  ASSUME RelabInv, Transfer
  PROVE  Redistribution!Redistribute(Redistribution!RelabMany(srvTable))
  <1>1. pc = "publish" /\ srvTable' = mgrTable
    BY DEF Transfer
  <1>2. mgrTable = [e \in Entries |-> Reassign(srvTable[e], to[e])] /\ to \in [Entries -> Servers]
    BY <1>1 DEF RelabInv, TablesOK
  <1>3. \A e \in Entries : to[e] # srvTable[e].id_srv =>
          srvTable[e].id_srv \in Givers /\ to[e] \in Takers
    BY <1>1 DEF RelabInv, TargetsInv, Planned, Given
  <1>4. \A s : ~ (s \in Givers /\ s \in Takers)
    BY MeanType DEF Givers, Takers, RelabInv, ListsOK, Excess
  <1>5. to \in RelabMany(srvTable)
    BY <1>2, <1>3, <1>4 DEF RelabMany, Moved
  <1>. QED
    BY <1>1, <1>2, <1>5, SameReassignment DEF Redistribution!Redistribute

(* Whatever the counters are, entries move from overloaded to underloaded    *)
(* servers and the version of what moves is raised: manager_calculate_relab  *)
(* (manager_windowed.c) implements Rebalancing.                              *)
THEOREM WindowedImplementsRelab == Spec => ImplementsRelab
  <1>1. Init => Redistribution!Init
    BY SameReassignment DEF Init, Redistribution!Init
  <1>2. RelabInv /\ [Next]_vars =>
          [Redistribution!Redistribute(Redistribution!RelabMany(srvTable))]_srvTable
    <2>. SUFFICES ASSUME RelabInv, [Next]_vars, srvTable' # srvTable
                  PROVE  Redistribution!Redistribute(Redistribution!RelabMany(srvTable))
      OBVIOUS
    <2>1. Transfer
      BY DEF Next, vars, step, eacl_incr_access, Signal, NothingToDo, Ask,
             distribution_signal2_action, Gather, CalculateLoads, NextGiver, Fill, TakersDone,
             Update
    <2>. QED BY <2>1, TransferIsRelabMany
  <1>. QED
    BY <1>1, <1>2, WindowedInvariance, PTL DEF Spec, ImplementsRelab, Redistribution!SpecMany
=============================================================================
