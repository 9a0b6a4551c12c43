---------------------------- MODULE LoadsProofs ----------------------------
(***************************************************************************)
(* What the operators of Loads return, for any lists: sorted lists, the    *)
(* choice of manager_balance_load, and the tables and lists themselves.    *)
(***************************************************************************)
EXTENDS Loads, SumProofs

-----------------------------------------------------------------------------
(* Sorted lists. *)

Rank(E, R, x) == Cardinality({y \in E : <<y, x>> \in R})

(* In a finite set with a strict order exactly one element has n before it. *)
LEMMA Ranks ==
  ASSUME NEW E, IsFiniteSet(E), NEW R,
         \A x \in E : <<x, x>> \notin R,
         \A x, y, z \in E : <<x, y>> \in R /\ <<y, z>> \in R => <<x, z>> \in R,
         \A x, y \in E : x # y => <<x, y>> \in R \/ <<y, x>> \in R
  PROVE  /\ \A n \in 1 .. Cardinality(E) : \E x \in E : Rank(E, R, x) = n - 1
         /\ \A x \in E : Rank(E, R, x) \in 0 .. Cardinality(E) - 1
         /\ \A x, z \in E : x # z => Rank(E, R, x) # Rank(E, R, z)
         /\ \A x, z \in E : <<x, z>> \in R => Rank(E, R, x) < Rank(E, R, z)
  <1>. DEFINE Below(x) == {y \in E : <<y, x>> \in R}
              Indices  == 0 .. Cardinality(E) - 1
              f        == [x \in E |-> Cardinality(Below(x))]
  <1>1. Cardinality(E) \in Nat
    BY FS_CardinalityType
  <1>2. /\ \A x \in E : Below(x) \in SUBSET E /\ Below(x) \in SUBSET (E \ {x})
        /\ \A x, z \in E : <<x, z>> \in R =>
             Below(x) \in SUBSET Below(z) /\ Below(x) # Below(z)
    OBVIOUS
  <1>. HIDE DEF Below
  <1>3. ASSUME NEW x \in E PROVE IsFiniteSet(Below(x)) /\ Cardinality(Below(x)) \in Indices
    <2>1. IsFiniteSet(E \ {x}) /\ Cardinality(E \ {x}) = Cardinality(E) - 1
      BY FS_RemoveElement
    <2>2. IsFiniteSet(Below(x)) /\ Cardinality(Below(x)) \in Nat
      BY <1>2, FS_Subset, FS_CardinalityType
    <2>3. Cardinality(Below(x)) <= Cardinality(E \ {x})
      BY <1>2, <2>1, FS_Subset
    <2>. QED BY <1>1, <2>1, <2>2, <2>3
  <1>4. ASSUME NEW x \in E, NEW z \in E, <<x, z>> \in R
        PROVE  Cardinality(Below(x)) < Cardinality(Below(z))
    <2>1. /\ Below(x) \in SUBSET Below(z) /\ Below(x) # Below(z) /\ IsFiniteSet(Below(z))
          /\ Cardinality(Below(x)) \in Nat /\ Cardinality(Below(z)) \in Nat
      BY <1>2, <1>3, <1>4
    <2>2. Cardinality(Below(x)) <= Cardinality(Below(z))
      BY <2>1, FS_Subset
    <2>3. Cardinality(Below(x)) # Cardinality(Below(z))
      BY <2>1, FS_Subset
    <2>. QED BY <2>1, <2>2, <2>3
  <1>5. f \in [E -> Indices]
    BY <1>3
  <1>6. \A x, z \in E : f[x] = f[z] => x = z
    <2>. SUFFICES ASSUME NEW x \in E, NEW z \in E, f[x] = f[z], x # z PROVE FALSE
      OBVIOUS
    <2>1. Cardinality(Below(x)) = Cardinality(Below(z))
      OBVIOUS
    <2>2. ~ (<<x, z>> \in R) /\ ~ (<<z, x>> \in R)
      BY <1>1, <1>3, <1>4, <2>1
    <2>. QED BY <2>2
  <1>7. f \in Injection(E, Indices)
    BY <1>5, <1>6 DEF Injection, IsInjective
  <1>8. IsFiniteSet(Indices) /\ Cardinality(Indices) = Cardinality(E)
    <2>. DEFINE last == Cardinality(E) - 1
    <2>1. last \in Int /\ 0 \in Int /\ last >= -1
      BY <1>1
    <2>2. IsFiniteSet(0 .. last) /\ Cardinality(0 .. last) = IF 0 > last THEN 0 ELSE last - 0 + 1
      <3>. HIDE DEF last
      <3>. QED BY <2>1, FS_Interval
    <2>. QED BY <1>1, <2>2
  <1>9. f \in Surjection(E, Indices)
    BY <1>7, <1>8, FS_Injection
  <1>10. \A n \in Indices : \E x \in E : f[x] = n
    BY <1>9 DEF Surjection
  <1>11. \A n \in 1 .. Cardinality(E) : n - 1 \in Indices
    BY <1>1
  <1>12. \A x \in E : Rank(E, R, x) = f[x]
    BY DEF Rank, Below
  <1>. QED
    BY <1>3, <1>4, <1>6, <1>10, <1>11, <1>12

(* A list of the elements by their rank has each of them once. *)
LEMMA ByRank ==
  ASSUME NEW E, NEW R, NEW N \in Nat, NEW list \in [1 .. N -> E],
         \A n \in 1 .. N : Rank(E, R, list[n]) = n - 1,
         \A x \in E : Rank(E, R, x) \in 0 .. N - 1,
         \A x, z \in E : x # z => Rank(E, R, x) # Rank(E, R, z)
  PROVE  /\ list \in Seq(E) /\ Len(list) = N
         /\ ToSet(list) = E
         /\ IsInjective(list)
  <1>3. list \in Seq(E) /\ Len(list) = N /\ DOMAIN list = 1 .. N
    OBVIOUS
  <1>4. ASSUME NEW x \in E PROVE \E n \in 1 .. N : list[n] = x
    <2>. DEFINE n == Rank(E, R, x) + 1
    <2>1. n \in 1 .. N /\ n - 1 = Rank(E, R, x)
      OBVIOUS
    <2>2. list[n] = x
      BY <2>1
    <2>. QED BY <2>1, <2>2
  <1>5. ToSet(list) = E
    BY <1>3, <1>4 DEF ToSet
  <1>6. IsInjective(list)
    <2>. SUFFICES ASSUME NEW m \in 1 .. N, NEW n \in 1 .. N, list[m] = list[n] PROVE m = n
      BY <1>3 DEF IsInjective
    <2>1. m - 1 = n - 1
      OBVIOUS
    <2>. QED BY <2>1
  <1>. QED
    BY <1>3, <1>5, <1>6

(* The list of a set of integers has each of them once. *)
LEMMA InOrderList ==
  ASSUME NEW E \in SUBSET Nat, IsFiniteSet(E)
  PROVE  /\ InOrder(E) \in Seq(E) /\ Len(InOrder(E)) = Cardinality(E)
         /\ ToSet(InOrder(E)) = E
         /\ IsInjective(InOrder(E))
  <1>. DEFINE R    == {p \in E \X E : p[1] < p[2]}
              list == InOrder(E)
              N    == Cardinality(E)
  <1>1. N \in Nat
    BY FS_CardinalityType
  <1>2. /\ \A x \in E : <<x, x>> \notin R
        /\ \A x, y, z \in E : <<x, y>> \in R /\ <<y, z>> \in R => <<x, z>> \in R
        /\ \A x, y \in E : x # y => <<x, y>> \in R \/ <<y, x>> \in R
    OBVIOUS
  <1>3. \A x \in E : Cardinality({y \in E : y < x}) = Rank(E, R, x)
    <2>. SUFFICES ASSUME NEW x \in E PROVE {y \in E : y < x} = {y \in E : <<y, x>> \in R}
      BY DEF Rank
    <2>. QED OBVIOUS
  <1>. DEFINE Before(x) == Cardinality({y \in E : y < x})
  <1>4. list = [n \in 1 .. N |-> CHOOSE x \in E : Before(x) = n - 1]
    BY DEF InOrder, Sorted
  <1>. HIDE DEF list, N, R, Before
  <1>5. /\ \A n \in 1 .. N : \E x \in E : Before(x) = n - 1
        /\ \A x \in E : Rank(E, R, x) \in 0 .. N - 1
        /\ \A x, z \in E : x # z => Rank(E, R, x) # Rank(E, R, z)
    <2>1. /\ \A n \in 1 .. N : \E x \in E : Rank(E, R, x) = n - 1
          /\ \A x \in E : Rank(E, R, x) \in 0 .. N - 1
          /\ \A x, z \in E : x # z => Rank(E, R, x) # Rank(E, R, z)
      BY <1>2, Ranks DEF N
    <2>2. \A x \in E : Before(x) = Rank(E, R, x)
      BY <1>3 DEF Before
    <2>. QED BY <2>1, <2>2
  <1>6. \A n \in 1 .. N : list[n] \in E /\ Before(list[n]) = n - 1
    BY <1>4, <1>5
  <1>7. list \in [1 .. N -> E] /\ \A n \in 1 .. N : Rank(E, R, list[n]) = n - 1
    BY <1>3, <1>4, <1>6 DEF Before
  <1>. QED
    BY <1>1, <1>5, <1>7, ByRank DEF list, N

(* manager_sort_subset permutes the list. *)
LEMMA SortedList ==
  ASSUME NEW S, NEW list \in Seq(S), NEW weight, \A x \in S : weight[x] \in Int
  PROVE  /\ manager_sort_subset(list, weight) \in Seq(S)
         /\ Len(manager_sort_subset(list, weight)) = Len(list)
         /\ ToSet(manager_sort_subset(list, weight)) = ToSet(list)
         /\ IsInjective(list) => IsInjective(manager_sort_subset(list, weight))
  <1>. DEFINE Before(i, j) == \/ Abs(weight[list[i]]) > Abs(weight[list[j]])
                              \/ Abs(weight[list[i]]) = Abs(weight[list[j]]) /\ i < j
              E     == DOMAIN list
              N     == Len(list)
              R     == {p \in E \X E : Before(p[1], p[2])}
              order == Sorted(E, Before)
              sorted == manager_sort_subset(list, weight)
              w(i)  == Abs(weight[list[i]])
  <1>1. N \in Nat /\ E = 1 .. N
    OBVIOUS
  <1>2. IsFiniteSet(E) /\ Cardinality(E) = N
    <2>1. IsFiniteSet(1 .. N) /\ Cardinality(1 .. N) = IF 1 > N THEN 0 ELSE N - 1 + 1
      <3>1. N \in Int /\ 1 \in Int
        BY <1>1
      <3>. HIDE DEF N
      <3>. QED BY <3>1, FS_Interval
    <2>. QED BY <1>1, <2>1
  <1>3. \A i \in E : w(i) \in Int
    <2>. SUFFICES ASSUME NEW i \in E PROVE w(i) \in Int
      OBVIOUS
    <2>1. weight[list[i]] \in Int
      OBVIOUS
    <2>. QED BY <2>1 DEF Abs
  <1>4. sorted = [n \in DOMAIN order |-> list[order[n]]]
    BY DEF manager_sort_subset
  <1>5. /\ \A x \in E : <<x, x>> \notin R
        /\ \A x, y, z \in E : <<x, y>> \in R /\ <<y, z>> \in R => <<x, z>> \in R
        /\ \A x, y \in E : x # y => <<x, y>> \in R \/ <<y, x>> \in R
        /\ \A x, y \in E : <<x, y>> \in R <=> Before(x, y)
    <2>1. \A x, y \in E : <<x, y>> \in R <=> Before(x, y)
      OBVIOUS
    <2>2. \A x, y \in E : Before(x, y) <=> (w(x) > w(y) \/ (w(x) = w(y) /\ x < y))
      OBVIOUS
    <2>. HIDE DEF R, Before, w
    <2>. QED BY <1>1, <1>3, <2>1, <2>2
  <1>. DEFINE Place(x) == Cardinality({y \in E : Before(y, x)})
  <1>6. \A x \in E : Place(x) = Rank(E, R, x)
    <2>. SUFFICES ASSUME NEW x \in E PROVE {y \in E : Before(y, x)} = {y \in E : <<y, x>> \in R}
      BY DEF Rank
    <2>. HIDE DEF Before, R
    <2>. QED BY <1>5
  <1>7. order = [n \in 1 .. Cardinality(E) |-> CHOOSE x \in E : Place(x) = n - 1]
    BY DEF Sorted
  <1>. HIDE DEF order, R, Before, Place, E, w
  <1>8. /\ \A n \in 1 .. N : \E x \in E : Rank(E, R, x) = n - 1
        /\ \A x \in E : Rank(E, R, x) \in 0 .. N - 1
        /\ \A x, z \in E : x # z => Rank(E, R, x) # Rank(E, R, z)
    <2>1. /\ \A x \in E : <<x, x>> \notin R
          /\ \A x, y, z \in E : <<x, y>> \in R /\ <<y, z>> \in R => <<x, z>> \in R
          /\ \A x, y \in E : x # y => <<x, y>> \in R \/ <<y, x>> \in R
      BY <1>5
    <2>. QED BY <1>2, <2>1, Ranks
  <1>9. order = [n \in 1 .. N |-> CHOOSE x \in E : Place(x) = n - 1]
    BY <1>2, <1>7
  <1>. HIDE DEF N, sorted
  <1>10. \A n \in 1 .. N : order[n] \in E /\ Place(order[n]) = n - 1
    BY <1>6, <1>8, <1>9
  <1>11. order \in [1 .. N -> E] /\ \A n \in 1 .. N : Rank(E, R, order[n]) = n - 1
    BY <1>6, <1>9, <1>10
  <1>12. order \in Seq(E) /\ Len(order) = N /\ ToSet(order) = E /\ IsInjective(order)
    <2>1. N \in Nat /\ order \in [1 .. N -> E]
      BY <1>1, <1>11
    <2>2. \A n \in 1 .. N : Rank(E, R, order[n]) = n - 1
      BY <1>11
    <2>3. \A x \in E : Rank(E, R, x) \in 0 .. N - 1
      BY <1>8
    <2>4. \A x, z \in E : x # z => Rank(E, R, x) # Rank(E, R, z)
      BY <1>8
    <2>. QED BY <2>1, <2>2, <2>3, <2>4, ByRank
  <1>13. DOMAIN order = 1 .. N /\ DOMAIN list = 1 .. N
    BY <1>1, <1>11 DEF E
  <1>14. sorted \in [1 .. N -> S] /\ \A n \in 1 .. N : sorted[n] = list[order[n]]
    BY <1>1, <1>4, <1>11, <1>13
  <1>15. sorted \in Seq(S) /\ Len(sorted) = N /\ DOMAIN sorted = 1 .. N
    BY <1>1, <1>14
  <1>16. \A i \in 1 .. N : \E n \in 1 .. N : order[n] = i
    BY <1>1, <1>12, <1>13 DEF ToSet
  <1>17. ToSet(sorted) = ToSet(list)
    BY <1>1, <1>11, <1>13, <1>14, <1>15, <1>16 DEF ToSet
  <1>18. IsInjective(list) => IsInjective(sorted)
    BY <1>1, <1>11, <1>12, <1>13, <1>14, <1>15 DEF IsInjective
  <1>. QED
    BY <1>15, <1>17, <1>18 DEF sorted, N

-----------------------------------------------------------------------------
(* The greedy choice. *)

(* The states of the loop of manager_balance_load on a set of elements. *)
LoopStates(T, weight) ==
  [sum : Int, subset : Seq({x \in T : weight[x] # 0}), last : {<<>>} \cup {<<x>> : x \in T}]

LoopStart(current_load) == [sum |-> current_load, subset |-> <<>>, last |-> <<>>]

ExceedingHelps(end, weight) ==
  end.last # <<>> /\ Abs(end.sum + weight[end.last[1]]) < Abs(end.sum)

Chosen(end, weight) ==
  IF ExceedingHelps(end, weight) THEN end.subset \o end.last ELSE end.subset

(* acc is what the loop computes, element by element of a sorted list. *)
GreedyLoop(acc, sorted, weight, current_load, goal_load) ==
  /\ acc[0] = LoopStart(current_load)
  /\ \A n \in 1 .. Len(sorted) : acc[n] = Take(acc[n - 1], sorted[n], weight, goal_load)

(* The loop is well defined: it goes through the sorted list. *)
LEMMA GreedyRun ==
  ASSUME NEW S, NEW list \in Seq(S), NEW weight, \A x \in S : weight[x] \in Int,
         NEW current_load \in Int, NEW goal_load \in Int,
         NEW sorted, sorted = manager_sort_subset(list, weight)
  PROVE  \E acc :
           /\ GreedyLoop(acc, sorted, weight, current_load, goal_load)
           /\ \A n \in 0 .. Len(sorted) : acc[n] \in LoopStates(ToSet(list), weight)
           /\ manager_balance_load(current_load, list, weight, goal_load)
                = Chosen(acc[Len(sorted)], weight)
  <1>. DEFINE N      == Len(sorted)
              first  == LoopStart(current_load)
              Eqn(acc) == acc = [n \in 0 .. N |->
                                   IF n = 0 THEN first
                                   ELSE Take(acc[n - 1], sorted[n], weight, goal_load)]
              acc    == CHOOSE acc : Eqn(acc)
              end    == acc[N]
              T      == ToSet(list)
              Heavy  == {x \in T : weight[x] # 0}
              Acc    == LoopStates(T, weight)
  <1>1. manager_balance_load(current_load, list, weight, goal_load)
          = Chosen(end, weight)
    BY DEF manager_balance_load, Chosen, ExceedingHelps, LoopStart
  <1>2. sorted \in Seq(S) /\ ToSet(sorted) = T
    BY SortedList
  <1>3. N \in Nat /\ \A n \in 1 .. N : sorted[n] \in T
    <2>1. N \in Nat /\ DOMAIN sorted = 1 .. N
      BY <1>2
    <2>2. \A n \in DOMAIN sorted : sorted[n] \in ToSet(sorted)
      BY DEF ToSet
    <2>. HIDE DEF T
    <2>. QED BY <1>2, <2>1, <2>2
  <1>4. T \in SUBSET S /\ \A x \in T : weight[x] \in Int
    BY DEF ToSet
  <1>5. first \in Acc
    BY DEF LoopStart, LoopStates
  <1>6. ASSUME NEW a \in Acc, NEW x \in T PROVE Take(a, x, weight, goal_load) \in Acc
    <2>1. a.sum \in Int /\ a.subset \in Seq(Heavy) /\ weight[x] \in Int
      BY <1>4 DEF LoopStates
    <2>2. [a EXCEPT !.last = <<x>>] \in Acc
      BY DEF LoopStates
    <2>3. ASSUME weight[x] # 0
          PROVE  [a EXCEPT !.sum = a.sum + weight[x], !.subset = Append(a.subset, x)] \in Acc
      <3>1. x \in Heavy
        BY <2>3
      <3>. HIDE DEF Heavy
      <3>2. a.sum + weight[x] \in Int /\ Append(a.subset, x) \in Seq(Heavy)
        BY <2>1, <3>1
      <3>. QED BY <3>2 DEF LoopStates, Heavy
    <2>. HIDE DEF Acc
    <2>. QED BY <2>2, <2>3 DEF Take
  <1>. HIDE DEF first, T, Acc, N
  <1>7. Eqn(acc)
    <2>. DEFINE step == [n \in 1 .. N |-> [a \in Acc |-> Take(a, sorted[n], weight, goal_load)]]
    <2>1. step \in [1 .. N -> [Acc -> Acc]]
      BY <1>3, <1>6
    <2>2. \A n \in 1 .. N, a \in Acc : step[n][a] = Take(a, sorted[n], weight, goal_load)
      OBVIOUS
    <2>. HIDE DEF step
    <2>3. PICK f : Solves(f, Acc, N, first, step)
      <3>1. N \in Nat
        BY <1>3
      <3>. QED BY <1>5, <2>1, <3>1, FoldExists
    <2>4. f \in [0 .. N -> Acc] /\ f[0] = first /\ \A n \in 1 .. N : f[n] = step[n][f[n - 1]]
      BY <2>3 DEF Solves
    <2>5. \A n \in 0 .. N : f[n] = IF n = 0 THEN first
                                   ELSE Take(f[n - 1], sorted[n], weight, goal_load)
      <3>1. ASSUME NEW n \in 1 .. N
            PROVE  step[n][f[n - 1]] = Take(f[n - 1], sorted[n], weight, goal_load)
        <4>1. n - 1 \in 0 .. N
          BY <1>3
        <4>. QED BY <2>2, <2>4, <4>1
      <3>2. \A n \in 0 .. N : n # 0 => n \in 1 .. N
        BY <1>3
      <3>. QED BY <2>4, <3>1, <3>2
    <2>6. Eqn(f)
      BY <2>4, <2>5
    <2>. HIDE DEF Eqn
    <2>. QED BY <2>6
  <1>. HIDE DEF acc
  <1>8. \A n \in 0 .. N : acc[n] = IF n = 0 THEN first
                                   ELSE Take(acc[n - 1], sorted[n], weight, goal_load)
    BY <1>7
  <1>9. \A n \in 0 .. N : acc[n] \in Acc
    <2>. DEFINE P == {n \in 0 .. N : acc[n] \in Acc}
    <2>1. 0 \in P
      BY <1>3, <1>5, <1>8
    <2>2. ASSUME NEW n \in 1 .. N, n - 1 \in P PROVE n \in P
      BY <1>3, <1>6, <1>8, <2>2
    <2>3. \A n \in 0 .. N : n \in P
      <3>. HIDE DEF P
      <3>. QED BY <1>3, <2>1, <2>2, UpTo
    <2>. QED BY <2>3
  <1>10. GreedyLoop(acc, sorted, weight, current_load, goal_load)
    BY <1>3, <1>8 DEF GreedyLoop, first, N
  <1>. QED
    BY <1>1, <1>9, <1>10 DEF Acc, T, N

(* It takes elements of the list that weigh something. *)
LEMMA GreedyChoice ==
  ASSUME NEW S, NEW list \in Seq(S), NEW weight, \A x \in S : weight[x] \in Int,
         NEW current_load \in Int, NEW goal_load \in Int
  PROVE  /\ manager_balance_load(current_load, list, weight, goal_load) \in Seq(S)
         /\ \A x \in ToSet(manager_balance_load(current_load, list, weight, goal_load)) :
              x \in ToSet(list) /\ weight[x] # 0
  <1>. DEFINE sorted == manager_sort_subset(list, weight)
              N      == Len(sorted)
              T      == ToSet(list)
              Heavy  == {x \in T : weight[x] # 0}
  <1>1. PICK acc : /\ \A n \in 0 .. N : acc[n] \in LoopStates(T, weight)
                   /\ manager_balance_load(current_load, list, weight, goal_load)
                        = Chosen(acc[N], weight)
    BY GreedyRun
  <1>2. sorted \in Seq(S)
    BY SortedList
  <1>. HIDE DEF sorted
  <1>3. N \in 0 .. N
    BY <1>2
  <1>. DEFINE end == acc[N]
  <1>4. T \in SUBSET S /\ \A x \in T : weight[x] \in Int
    BY DEF ToSet
  <1>5. end \in LoopStates(T, weight)
    BY <1>1, <1>3
  <1>6. manager_balance_load(current_load, list, weight, goal_load)
          = Chosen(end, weight)
    BY <1>1
  <1>. HIDE DEF end, T, N
  <1>7. /\ end.subset \in Seq(Heavy) /\ end.sum \in Int
        /\ end.last = <<>> \/ \E x \in T : end.last = <<x>>
    BY <1>5 DEF LoopStates
  <1>. DEFINE more == ExceedingHelps(end, weight)
  <1>10. more => end.last \in Seq(Heavy)
    <2>. SUFFICES ASSUME more PROVE end.last \in Seq(Heavy)
      OBVIOUS
    <2>1. PICK x \in T : end.last = <<x>> /\ end.last[1] = x
      BY <1>7 DEF ExceedingHelps
    <2>2. weight[x] # 0
      <3>1. SUFFICES ASSUME weight[x] = 0 PROVE FALSE
        OBVIOUS
      <3>2. end.sum + weight[x] = end.sum
        BY <1>7, <3>1
      <3>3. Abs(end.sum) \in Int
        BY <1>7 DEF Abs
      <3>. QED BY <2>1, <3>2, <3>3 DEF ExceedingHelps
    <2>. QED BY <2>1, <2>2
  <1>. DEFINE c == IF more THEN end.subset \o end.last ELSE end.subset
  <1>11. c \in Seq(Heavy)
    <2>. HIDE DEF more, Heavy
    <2>. QED BY <1>7, <1>10
  <1>12. Seq(Heavy) \subseteq Seq(S) /\ \A x \in ToSet(c) : x \in Heavy
    <2>. HIDE DEF c
    <2>1. Heavy \in SUBSET S
      BY <1>4
    <2>. HIDE DEF Heavy
    <2>2. DOMAIN c = 1 .. Len(c) /\ \A i \in 1 .. Len(c) : c[i] \in Heavy
      BY <1>11
    <2>. QED BY <2>1, <2>2 DEF ToSet
  <1>. HIDE DEF c
  <1>13. c \in Seq(S) /\ \A x \in ToSet(c) : x \in T /\ weight[x] # 0
    BY <1>11, <1>12
  <1>. QED
    BY <1>6, <1>13 DEF c, T, Chosen

(* A list has finitely many elements: as many as it is long if none is     *)
(* there twice.                                                            *)
LEMMA ElementsOfList ==
  ASSUME NEW S, NEW list \in Seq(S)
  PROVE  /\ IsFiniteSet(ToSet(list)) /\ ToSet(list) \in SUBSET S
         /\ IsInjective(list) => Cardinality(ToSet(list)) = Len(list)
  <1>. DEFINE N == Len(list)
              T == ToSet(list)
  <1>1. N \in Nat /\ DOMAIN list = 1 .. N
    OBVIOUS
  <1>2. IsFiniteSet(1 .. N) /\ Cardinality(1 .. N) = N
    <2>1. IsFiniteSet(1 .. N) /\ Cardinality(1 .. N) = IF 1 > N THEN 0 ELSE N - 1 + 1
      <3>1. N \in Int /\ 1 \in Int
        BY <1>1
      <3>. HIDE DEF N
      <3>. QED BY <3>1, FS_Interval
    <2>. QED BY <1>1, <2>1
  <1>3. list \in Surjection(1 .. N, T)
    BY <1>1 DEF Surjection, ToSet
  <1>4. IsInjective(list) => list \in Injection(1 .. N, T)
    BY <1>1 DEF Injection, ToSet
  <1>5. T \in SUBSET S
    BY DEF ToSet
  <1>. HIDE DEF N, T
  <1>6. IsFiniteSet(T) /\ (list \in Injection(1 .. N, T) => Cardinality(T) = N)
    BY <1>2, <1>3, FS_Surjection
  <1>. QED
    BY <1>4, <1>5, <1>6 DEF N, T

(* The elements of a list with one more element. *)
LEMMA ToSetAppend ==
  ASSUME NEW S, NEW list \in Seq(S), NEW x \in S
  PROVE  ToSet(Append(list, x)) = ToSet(list) \cup {x}
  <1>1. DOMAIN Append(list, x) = 1 .. Len(list) + 1 /\ DOMAIN list = 1 .. Len(list)
    OBVIOUS
  <1>2. /\ \A i \in 1 .. Len(list) : Append(list, x)[i] = list[i]
        /\ Append(list, x)[Len(list) + 1] = x
    OBVIOUS
  <1>3. 1 .. Len(list) + 1 = (1 .. Len(list)) \cup {Len(list) + 1}
    OBVIOUS
  <1>. QED
    BY <1>1, <1>2, <1>3 DEF ToSet

(* The choice brings current_load to the goal at most, or less far from zero  *)
(* than it was.                                                               *)
THEOREM GreedyBound ==
  ASSUME NEW S, NEW list \in Seq(S), NEW weight, \A x \in S : weight[x] \in Nat,
         NEW current_load \in Int, NEW goal_load \in Int, current_load <= goal_load,
         NEW chosen, chosen = ToSet(manager_balance_load(current_load, list, weight, goal_load))
  PROVE  /\ Total(weight, chosen) \in Nat
         /\ \/ current_load + Total(weight, chosen) <= goal_load
            \/ current_load + Total(weight, chosen) < Abs(current_load)
  <1>. DEFINE sorted == manager_sort_subset(list, weight)
              N      == Len(sorted)
              T      == ToSet(list)
              Sum(s) == SumFunctionOnSet(weight, s)
              c      == manager_balance_load(current_load, list, weight, goal_load)
  <1>0. \A x \in S : weight[x] \in Int
    OBVIOUS
  <1>1. PICK acc : /\ GreedyLoop(acc, sorted, weight, current_load, goal_load)
                   /\ \A n \in 0 .. N : acc[n] \in LoopStates(T, weight)
                   /\ c = Chosen(acc[N], weight)
    BY <1>0, GreedyRun
  <1>2. sorted \in Seq(S) /\ ToSet(sorted) = T
    BY <1>0, SortedList
  <1>3. IsFiniteSet(T) /\ T \in SUBSET S
    BY ElementsOfList
  <1>. HIDE DEF sorted, c, T
  <1>4. N \in Nat /\ (\A n \in 1 .. N : sorted[n] \in T)
    <2>1. N \in Nat /\ DOMAIN sorted = 1 .. N
      BY <1>2
    <2>2. \A n \in DOMAIN sorted : sorted[n] \in ToSet(sorted)
      BY DEF ToSet
    <2>. QED BY <1>2, <2>1, <2>2
  <1>. HIDE DEF N
  <1>5. ASSUME NEW V \in SUBSET T, NEW x \in T
        PROVE  Sum(V) \in Nat /\ Sum(V \cup {x}) \in Nat /\ Sum(V \cup {x}) <= Sum(V) + weight[x]
    <2>1. \A y \in T : weight[y] \in Nat
      BY <1>3
    <2>2. {x} \in SUBSET T /\ V \cup {x} \in SUBSET T
      OBVIOUS
    <2>3. Sum(V \cup {x}) <= Sum(V) + Sum({x})
      BY <1>3, <2>1, <2>2, SumUnion
    <2>4. Sum({x}) = weight[x] + Sum({})
      <3>0. IsFiniteSet({x})
        BY FS_Singleton
      <3>1. (\A y \in {x} : weight[y] \in Int) /\ x \in {x} /\ {x} \ {x} = {}
        BY <2>1
      <3>2. Sum({x}) = weight[x] + Sum({x} \ {x})
        BY <3>0, <3>1, SumRemove
      <3>. HIDE DEF Sum
      <3>. QED BY <3>1, <3>2
    <2>5. Sum({}) = 0
      BY FS_EmptySet, SumRecursion
    <2>6. /\ IsFiniteSet(V) /\ (\A y \in V : weight[y] \in Nat)
          /\ IsFiniteSet(V \cup {x}) /\ (\A y \in V \cup {x} : weight[y] \in Nat)
      BY <1>3, <2>1, <2>2, FS_Subset
    <2>7. Sum(V) \in Nat
      BY <2>6, SumType
    <2>8. Sum(V \cup {x}) \in Nat
      BY <2>6, SumType
    <2>9. weight[x] \in Nat
      BY <2>1
    <2>. HIDE DEF Sum
    <2>. QED BY <2>3, <2>4, <2>5, <2>7, <2>8, <2>9
  <1>. DEFINE Good(a) == /\ current_load <= a.sum /\ a.sum <= goal_load
                         /\ current_load + Sum(ToSet(a.subset)) <= a.sum
              P == {n \in 0 .. N : Good(acc[n])}
  <1>6. \A a \in LoopStates(T, weight) : /\ a.sum \in Int /\ a.subset \in Seq(T)
                                         /\ ToSet(a.subset) \in SUBSET T
    <2>. TAKE a \in LoopStates(T, weight)
    <2>. DEFINE Heavy == {x \in T : weight[x] # 0}
    <2>1. a.sum \in Int /\ a.subset \in Seq(Heavy) /\ Heavy \in SUBSET T
      BY DEF LoopStates
    <2>. HIDE DEF Heavy
    <2>2. ToSet(a.subset) \in SUBSET Heavy
      BY <2>1, ElementsOfList
    <2>3. a.subset \in Seq(T)
      <3>1. \A i \in 1 .. Len(a.subset) : a.subset[i] \in T
        BY <2>1
      <3>2. a.subset = [i \in 1 .. Len(a.subset) |-> a.subset[i]] /\ Len(a.subset) \in Nat
        BY <2>1
      <3>3. a.subset \in [1 .. Len(a.subset) -> T]
        BY <3>1, <3>2
      <3>. QED BY <3>2, <3>3
    <2>. QED BY <2>1, <2>2, <2>3
  <1>7. 0 \in P
    <2>1. acc[0].sum = current_load /\ acc[0].subset = <<>>
      BY <1>1 DEF GreedyLoop, LoopStart
    <2>2. ToSet(<<>>) = {}
      BY DEF ToSet
    <2>3. Sum({}) = 0
      BY FS_EmptySet, SumRecursion
    <2>4. Good(acc[0])
      <3>. HIDE DEF Sum
      <3>1. Sum(ToSet(acc[0].subset)) = 0
        BY <2>1, <2>2, <2>3
      <3>. QED BY <2>1, <3>1
    <2>. HIDE DEF Good
    <2>. QED BY <1>4, <2>4
  <1>8. ASSUME NEW n \in 1 .. N, n - 1 \in P PROVE n \in P
    <2>. DEFINE a == acc[n - 1]
                x == sorted[n]
    <2>1. /\ n - 1 \in 0 .. N
          /\ acc[n] = Take(a, x, weight, goal_load)
          /\ a \in LoopStates(T, weight)
          /\ x \in T /\ weight[x] \in Nat
          /\ Good(a)
      BY <1>1, <1>3, <1>4, <1>8 DEF GreedyLoop, N
    <2>. HIDE DEF a, x
    <2>2. a.sum \in Int /\ a.subset \in Seq(T) /\ ToSet(a.subset) \in SUBSET T
      BY <1>6, <2>1
    <2>3. CASE acc[n] = [a EXCEPT !.last = <<x>>] \/ acc[n] = a
      <3>1. acc[n].sum = a.sum /\ acc[n].subset = a.subset
        BY <2>1, <2>3 DEF LoopStates
      <3>2. Good(acc[n])
        BY <2>1, <3>1
      <3>. HIDE DEF Good
      <3>. QED BY <3>2
    <2>4. CASE /\ ~ (a.sum + weight[x] > goal_load)
               /\ acc[n] = [a EXCEPT !.sum = a.sum + weight[x], !.subset = Append(a.subset, x)]
      <3>1. acc[n].sum = a.sum + weight[x] /\ acc[n].subset = Append(a.subset, x)
        BY <2>1, <2>4 DEF LoopStates
      <3>2. ToSet(acc[n].subset) = ToSet(a.subset) \cup {x}
        BY <2>1, <2>2, <3>1, ToSetAppend
      <3>. DEFINE old == Sum(ToSet(a.subset))
                  new == Sum(ToSet(acc[n].subset))
      <3>3. old \in Nat /\ new \in Nat /\ new <= old + weight[x]
        BY <1>5, <2>1, <2>2, <3>2
      <3>4. current_load <= a.sum /\ a.sum <= goal_load /\ current_load + old <= a.sum
        BY <2>1
      <3>. HIDE DEF old, new, Sum
      <3>5. current_load <= acc[n].sum /\ acc[n].sum <= goal_load
        BY <2>1, <2>2, <2>4, <3>1, <3>4
      <3>6. current_load + new <= acc[n].sum
        BY SMTT(20), <2>1, <2>2, <3>1, <3>3, <3>4
      <3>7. Good(acc[n])
        BY <3>5, <3>6 DEF new
      <3>. HIDE DEF Good
      <3>. QED BY <3>7
    <2>. QED BY <2>1, <2>3, <2>4 DEF Take
  <1>9. \A n \in 0 .. N : n \in P
    <2>. HIDE DEF P
    <2>. QED BY <1>4, <1>7, <1>8, UpTo
  <1>. DEFINE end == acc[N]
              old == Sum(ToSet(end.subset))
              all == Sum(ToSet(c))
  <1>10. /\ current_load <= end.sum /\ end.sum <= goal_load /\ current_load + old <= end.sum
    <2>1. N \in P
      <3>. HIDE DEF P
      <3>. QED BY <1>4, <1>9
    <2>. QED BY <2>1
  <1>11. end \in LoopStates(T, weight) /\ c = Chosen(end, weight)
    BY <1>1, <1>4
  <1>. HIDE DEF end
  <1>12. end.sum \in Int /\ end.subset \in Seq(T) /\ ToSet(end.subset) \in SUBSET T
    BY <1>6, <1>11
  <1>13. old \in Nat
    <2>1. IsFiniteSet(ToSet(end.subset)) /\ \A y \in ToSet(end.subset) : weight[y] \in Nat
      BY <1>3, <1>12, FS_Subset
    <2>. QED BY <2>1, SumType
  <1>14. CASE ~ ExceedingHelps(end, weight)
    <2>1. all = old
      BY <1>11, <1>14 DEF Chosen
    <2>. HIDE DEF all, old
    <2>2. all \in Nat /\ current_load + all <= goal_load
      BY <1>10, <1>12, <1>13, <2>1
    <2>. QED BY <2>2 DEF all, Total, Sum, c
  <1>15. CASE ExceedingHelps(end, weight)
    <2>1. PICK x \in T : end.last = <<x>> /\ end.last[1] = x
      BY <1>11, <1>15 DEF LoopStates, ExceedingHelps
    <2>2. c = Append(end.subset, x)
      BY <1>11, <1>12, <1>15, <2>1 DEF Chosen
    <2>3. ToSet(c) = ToSet(end.subset) \cup {x}
      BY <1>12, <2>1, <2>2, ToSetAppend
    <2>4. all \in Nat /\ all <= old + weight[x]
      BY <1>5, <1>12, <2>1, <2>3
    <2>5. Abs(end.sum + weight[x]) < Abs(end.sum) /\ weight[x] \in Nat
      BY <1>3, <1>15, <2>1 DEF ExceedingHelps
    <2>. HIDE DEF all, old
    <2>6. current_load + all < Abs(current_load)
      BY <1>10, <1>12, <1>13, <2>4, <2>5 DEF Abs
    <2>. QED BY <2>4, <2>6 DEF all, Total, Sum, c
  <1>. QED
    BY <1>14, <1>15

(* Starting from nothing it does not exceed the goal. *)
LEMMA GreedyWithin ==
  ASSUME NEW S, NEW list \in Seq(S), NEW weight, \A x \in S : weight[x] \in Nat,
         NEW goal_load \in Nat
  PROVE  Total(weight, ToSet(manager_balance_load(0, list, weight, goal_load))) <= goal_load
  <1>. DEFINE chosen == ToSet(manager_balance_load(0, list, weight, goal_load))
              w      == Total(weight, chosen)
  <1>1. w \in Nat /\ (0 + w <= goal_load \/ 0 + w < Abs(0))
    <2>1. 0 \in Int /\ goal_load \in Int /\ 0 <= goal_load
      OBVIOUS
    <2>. QED BY <2>1, GreedyBound
  <1>. HIDE DEF w
  <1>2. w <= goal_load
    BY <1>1 DEF Abs
  <1>. QED
    BY <1>2 DEF w

-----------------------------------------------------------------------------
(* Tables. *)

(* Modulo assignment gives every entry to a server. *)
LEMMA InitialType == InitialAssignments \in [Entries -> Assignment]
  <1>1. \A e \in Entries : e % NbSrv \in Servers
    BY SizesAssumption DEF Entries, Servers
  <1>. QED
    BY <1>1 DEF InitialAssignments, AssignmentOf, mlt_init, Assignment

(* A reassigned line is one, at the server it was given to. *)
LEMMA ReassignLine ==
  ASSUME NEW line \in Assignment, NEW srv \in Servers
  PROVE  /\ Reassign(line, srv) \in Assignment
         /\ Reassign(line, srv).id_srv = srv
  BY DEF Reassign, Assignment

(* There are NbSrv servers and NEntry entries. *)
LEMMA Counted ==
  /\ IsFiniteSet(Servers) /\ Cardinality(Servers) = NbSrv /\ Servers \in SUBSET Nat
  /\ IsFiniteSet(Entries) /\ Cardinality(Entries) = NEntry /\ Entries \in SUBSET Nat
  BY FS_Interval, SizesAssumption DEF Servers, Entries

(* A merged list is a list. *)
LEMMA MergedList ==
  ASSUME NEW list \in Sai, NEW new_list \in Sai
  PROVE  manager_merge_eacl(list, new_list) \in Sai
  BY DEF manager_merge_eacl, Sai

(* So is one whose counters are all reset. *)
LEMMA NoSaiType == NoSai \in Sai
  BY DEF NoSai, Sai
=============================================================================
