------------------------------- MODULE Loads -------------------------------
(***************************************************************************)
(* What the managers of the DH, indedh and windowed builds have in common: *)
(* the merged SAI list and the greedy choice of manager_balance_load.      *)
(***************************************************************************)
EXTENDS Reassignment, SequencesExt, TLC

Sai   == [Entries -> Nat]
NoSai == [e \in Entries |-> 0]

Own(t, s) == {e \in Entries : t[e].id_srv = s}

Total(list, E) == SumFunctionOnSet(list, E)

Abs(x) == IF x < 0 THEN -x ELSE x

(* Faulty variant: zero values are merged as well. *)
manager_merge_eaclAll(list, new_list) == new_list

manager_merge_eacl(list, new_list) ==
  [e \in Entries |-> IF new_list[e] # 0 THEN new_list[e] ELSE list[e]]

(* The elements of a finite set in an order: the n-th has n - 1 before it. *)
Sorted(E, Before(_, _)) ==
  [n \in 1 .. Cardinality(E) |->
     CHOOSE x \in E : Cardinality({y \in E : Before(y, x)}) = n - 1]

InOrder(E) == Sorted(E, LAMBDA a, b : a < b)

(* A list by decreasing weight, in absolute value.  The bubble sort of       *)
(* manager_sort_subset keeps the order of equal weights; qsort in            *)
(* manager_dh.c sorts plain values, for which it makes no difference.        *)
manager_sort_subset(list, weight) ==
  LET Before(i, j) == \/ Abs(weight[list[i]]) > Abs(weight[list[j]])
                      \/ Abs(weight[list[i]]) = Abs(weight[list[j]]) /\ i < j
      order == Sorted(DOMAIN list, Before)
  IN  [n \in DOMAIN order |-> list[order[n]]]

(* Faulty variant: the greedy choice goes on with zero weights. *)
manager_balance_loadZeros(current_load, list, weight, goal_load) ==
  FoldLeft(LAMBDA acc, x : IF acc.sum + weight[x] <= goal_load
                           THEN [acc EXCEPT !.sum = @ + weight[x], !.subset = Append(@, x)]
                           ELSE acc,
           [sum |-> current_load, subset |-> <<>>], manager_sort_subset(list, weight)).subset

(* Faulty variant: the test of the goal is off by one. *)
manager_balance_loadBeyond(current_load, list, weight, goal_load) ==
  FoldLeft(LAMBDA acc, x : IF acc.sum + weight[x] <= goal_load + 1 /\ weight[x] # 0
                           THEN [acc EXCEPT !.sum = @ + weight[x], !.subset = Append(@, x)]
                           ELSE acc,
           [sum |-> current_load, subset |-> <<>>], manager_sort_subset(list, weight)).subset

(* One element of the loop of manager_balance_load: taken if it does not     *)
(* exceed the goal, else remembered as the last one that did.  The loop ends *)
(* at the first zero, and only zeros follow it.                              *)
Take(acc, x, weight, goal_load) ==
  IF acc.sum + weight[x] > goal_load THEN [acc EXCEPT !.last = <<x>>]
  ELSE IF weight[x] = 0 THEN acc
  ELSE [acc EXCEPT !.sum = @ + weight[x], !.subset = Append(@, x)]

(* Elements of the list whose weights bring current_load close to goal_load: *)
(* each one, heaviest first, that does not exceed the goal, and the last one *)
(* that did if exceeding brings the sum closer to zero.                      *)
manager_balance_load(current_load, list, weight, goal_load) ==
  LET sorted == manager_sort_subset(list, weight)
      acc[n \in 0 .. Len(sorted)] ==
        IF n = 0 THEN [sum |-> current_load, subset |-> <<>>, last |-> <<>>]
        ELSE Take(acc[n - 1], sorted[n], weight, goal_load)
      end == acc[Len(sorted)]
  IN  IF end.last # <<>> /\ Abs(end.sum + weight[end.last[1]]) < Abs(end.sum)
      THEN end.subset \o end.last ELSE end.subset
=============================================================================
