----------------------------- MODULE SumProofs -----------------------------
(***************************************************************************)
(* Sums over finite sets (SumFunctionOnSet), and the induction on numbers  *)
(* and on finite sets they need.  A property to show by induction is a set *)
(* P and not an operator: the step is an assumption about its members.     *)
(***************************************************************************)
EXTENDS Integers, Functions, FiniteSetTheorems, WellFoundedInduction, TLAPS

-----------------------------------------------------------------------------
(* Induction on sets instead of predicates. *)

(* A set of naturals without a least element is empty. *)
LEMMA LeastElement ==
  ASSUME NEW T \in SUBSET Nat, T # {}
  PROVE  \E n \in T : \A m \in T : n <= m
  <1>1. PICK n \in T : \A m \in T : ~ (<<m, n>> \in OpToRel(<, Nat))
    BY NatLessThanWellFounded, WFMin
  <1>2. \A m \in T : ~ (m < n)
    BY <1>1 DEF OpToRel
  <1>. QED
    BY <1>2

(* What holds of 0, and of every number after one it holds of, holds up to N. *)
LEMMA UpTo ==
  ASSUME NEW N \in Nat, NEW P, 0 \in P, \A n \in 1 .. N : n - 1 \in P => n \in P
  PROVE  \A n \in 0 .. N : n \in P
  <1>. DEFINE Bad == {n \in 0 .. N : n \notin P}
  <1>. SUFFICES ASSUME Bad # {} PROVE FALSE
    OBVIOUS
  <1>1. Bad \in SUBSET Nat
    OBVIOUS
  <1>2. PICK n \in Bad : \A m \in Bad : n <= m
    <2>. HIDE DEF Bad
    <2>. QED BY <1>1, LeastElement
  <1>3. n \in 1 .. N /\ n - 1 \in 0 .. N
    BY <1>2
  <1>4. n - 1 \in P
    BY <1>2, <1>3
  <1>. QED
    BY <1>2, <1>3, <1>4

(* A property of every finite set that holds of one when it holds of its   *)
(* strict subsets.                                                         *)
LEMMA SubsetInduction ==
  ASSUME NEW U, IsFiniteSet(U), NEW P,
         \A S \in SUBSET U : (\A R \in SUBSET S : R # S => R \in P) => S \in P
  PROVE  \A S \in SUBSET U : S \in P
  <1>. DEFINE Bad == {n \in Nat : \E S \in SUBSET U : S \notin P /\ Cardinality(S) = n}
  <1>. SUFFICES ASSUME NEW S0 \in SUBSET U, S0 \notin P PROVE FALSE
    OBVIOUS
  <1>1. \A S \in SUBSET U : IsFiniteSet(S) /\ Cardinality(S) \in Nat
    BY FS_Subset, FS_CardinalityType
  <1>2. Bad \in SUBSET Nat /\ Bad # {}
    BY <1>1
  <1>3. PICK n \in Bad : \A m \in Bad : n <= m
    <2>. HIDE DEF Bad
    <2>. QED BY <1>2, LeastElement
  <1>4. PICK S \in SUBSET U : S \notin P /\ Cardinality(S) = n
    BY <1>3
  <1>5. PICK R \in SUBSET S : R # S /\ R \notin P
    BY <1>4
  <1>6. Cardinality(R) < Cardinality(S)
    <2>1. Cardinality(R) <= Cardinality(S) /\ Cardinality(R) # Cardinality(S)
      BY <1>1, <1>5, FS_Subset
    <2>. QED BY <1>1, <2>1
  <1>7. Cardinality(R) \in Bad
    BY <1>1, <1>5
  <1>. QED
    BY <1>1, <1>3, <1>4, <1>6, <1>7

(* A recursion on 1 .. N has a solution. *)
Solves(f, B, N, first, step) ==
  /\ f \in [0 .. N -> B]
  /\ f[0] = first
  /\ \A n \in 1 .. N : f[n] = step[n][f[n - 1]]

(* A function defined by recursion on 0 .. N exists. *)
LEMMA FoldExists ==
  ASSUME NEW B, NEW first \in B, NEW N \in Nat, NEW step \in [1 .. N -> [B -> B]]
  PROVE  \E f : Solves(f, B, N, first, step)
  <1>. DEFINE P == {M \in 0 .. N : \E f : Solves(f, B, M, first, step)}
  <1>1. 0 \in P
    <2>1. Solves([n \in {0} |-> first], B, 0, first, step)
      BY DEF Solves
    <2>. QED BY <2>1
  <1>2. ASSUME NEW M \in 1 .. N, M - 1 \in P PROVE M \in P
    <2>1. PICK f : Solves(f, B, M - 1, first, step)
      BY <1>2
    <2>. DEFINE g == [n \in 0 .. M |-> IF n = M THEN step[M][f[M - 1]] ELSE f[n]]
    <2>2. M - 1 \in 0 .. M - 1 /\ \A n \in 0 .. M : n # M => n \in 0 .. M - 1
      OBVIOUS
    <2>3. \A n \in 1 .. M : n - 1 \in 0 .. M - 1 /\ n - 1 # M /\ n - 1 \in 0 .. M
      OBVIOUS
    <2>4. step[M][f[M - 1]] \in B
      BY <2>1, <2>2 DEF Solves
    <2>5. g \in [0 .. M -> B] /\ g[0] = first
      BY <2>1, <2>2, <2>4 DEF Solves
    <2>6. ASSUME NEW n \in 1 .. M PROVE g[n] = step[n][g[n - 1]]
      <3>1. CASE n = M
        BY <2>3, <3>1
      <3>2. CASE n # M
        <4>1. n \in 1 .. M - 1 /\ g[n] = f[n] /\ g[n - 1] = f[n - 1]
          BY <2>3, <3>2
        <4>. QED BY <2>1, <4>1 DEF Solves
      <3>. QED BY <3>1, <3>2
    <2>7. Solves(g, B, M, first, step)
      BY <2>5, <2>6 DEF Solves
    <2>. HIDE DEF g
    <2>. QED BY <2>7
  <1>3. \A n \in 0 .. N : n \in P
    <2>. HIDE DEF P
    <2>. QED BY <1>1, <1>2, UpTo
  <1>. QED
    BY <1>3

-----------------------------------------------------------------------------
(* Sums. *)

Pick(s) == CHOOSE x \in s : TRUE

SumsTo(g, f, S) ==
  g = [s \in SUBSET S |-> IF s = {} THEN 0 ELSE f[Pick(s)] + g[s \ {Pick(s)}]]

(* SumFunctionOnSet is the solution of a recursion on the subsets. *)
LEMMA SumDefinition ==
  ASSUME NEW f, NEW S
  PROVE  SumFunctionOnSet(f, S) = (CHOOSE g : SumsTo(g, f, S))[S]
  BY DEF SumFunctionOnSet, FoldFunctionOnSet, MapThenFoldSet, SumsTo, Pick

(* The element a fold takes next. *)
LEMMA PickIn == \A s : s # {} => Pick(s) \in s
  BY DEF Pick

(* Two solutions agree on the subsets of both. *)
LEMMA SumUnique ==
  ASSUME NEW f, NEW S, NEW R \in SUBSET S, IsFiniteSet(R),
         NEW g, SumsTo(g, f, S), NEW h, SumsTo(h, f, R)
  PROVE  \A s \in SUBSET R : g[s] = h[s]
  <1>. DEFINE P == {s \in SUBSET R : g[s] = h[s]}
  <1>1. ASSUME NEW s \in SUBSET R, \A r \in SUBSET s : r # s => r \in P
        PROVE  s \in P
    <2>1. s \in SUBSET S
      OBVIOUS
    <2>2. /\ g[s] = IF s = {} THEN 0 ELSE f[Pick(s)] + g[s \ {Pick(s)}]
          /\ h[s] = IF s = {} THEN 0 ELSE f[Pick(s)] + h[s \ {Pick(s)}]
      BY <2>1 DEF SumsTo
    <2>3. CASE s = {}
      BY <2>2, <2>3
    <2>4. CASE s # {}
      <3>1. s \ {Pick(s)} \in SUBSET s /\ s \ {Pick(s)} # s
        BY <2>4, PickIn
      <3>2. g[s \ {Pick(s)}] = h[s \ {Pick(s)}]
        BY <1>1, <3>1
      <3>. QED BY <2>2, <2>4, <3>2
    <2>. QED BY <2>3, <2>4
  <1>2. \A s \in SUBSET R : s \in P
    <2>. HIDE DEF P
    <2>. QED BY <1>1, SubsetInduction
  <1>. QED
    BY <1>2

(* There is a solution for every finite set. *)
LEMMA SumExists ==
  ASSUME NEW f, NEW U, IsFiniteSet(U)
  PROVE  \E g : SumsTo(g, f, U)
  <1>. DEFINE V(s) == (CHOOSE g : SumsTo(g, f, s))[s]
              P == {S \in SUBSET U : \E g : SumsTo(g, f, S)}
  <1>1. ASSUME NEW S \in SUBSET U, \A R \in SUBSET S : R # S => R \in P
        PROVE  S \in P
    <2>. DEFINE Unfold(s) == IF s = {} THEN 0 ELSE f[Pick(s)] + V(s \ {Pick(s)})
                G == [s \in SUBSET S |-> IF s = S THEN Unfold(S) ELSE V(s)]
    <2>1. ASSUME NEW s \in SUBSET S, s # S PROVE V(s) = Unfold(s)
      <3>. DEFINE g == CHOOSE g : SumsTo(g, f, s)
      <3>1. SumsTo(g, f, s)
        BY <1>1, <2>1
      <3>. HIDE DEF g
      <3>2. g[s] = IF s = {} THEN 0 ELSE f[Pick(s)] + g[s \ {Pick(s)}]
        BY <3>1 DEF SumsTo
      <3>3. V(s) = g[s]
        BY DEF g
      <3>4. CASE s = {}
        BY <3>2, <3>3, <3>4
      <3>5. CASE s # {}
        <4>. DEFINE r == s \ {Pick(s)}
                    h == CHOOSE h : SumsTo(h, f, r)
        <4>1. r \in SUBSET s /\ r \in SUBSET S /\ r # S
          BY <2>1, <3>5, PickIn
        <4>2. IsFiniteSet(r)
          BY <4>1, FS_Subset
        <4>3. r \in P
          BY <1>1, <4>1
        <4>4. SumsTo(h, f, r)
          <5>. HIDE DEF r
          <5>. QED BY <4>3
        <4>. HIDE DEF h, r
        <4>5. g[r] = h[r]
          BY <3>1, <4>1, <4>2, <4>4, SumUnique
        <4>6. g[r] = V(r)
          BY <4>5 DEF h
        <4>. QED BY <3>2, <3>3, <3>5, <4>6 DEF r
      <3>. QED BY <3>4, <3>5
    <2>2. \A s \in SUBSET S : G[s] = Unfold(s)
      <3>. HIDE DEF V, Unfold
      <3>. QED BY <2>1
    <2>3. ASSUME NEW s \in SUBSET S, s # {} PROVE G[s \ {Pick(s)}] = V(s \ {Pick(s)})
      <3>1. s \ {Pick(s)} \in SUBSET S /\ s \ {Pick(s)} # S
        BY <2>3, PickIn
      <3>. HIDE DEF V, Unfold
      <3>. QED BY <3>1
    <2>4. G = [s \in SUBSET S |-> IF s = {} THEN 0 ELSE f[Pick(s)] + G[s \ {Pick(s)}]]
      <3>1. \A s \in SUBSET S : G[s] = IF s = {} THEN 0 ELSE f[Pick(s)] + G[s \ {Pick(s)}]
        <4>. HIDE DEF G, V
        <4>1. \A s \in SUBSET S : G[s] = IF s = {} THEN 0 ELSE f[Pick(s)] + V(s \ {Pick(s)})
          BY <2>2
        <4>. QED BY <2>3, <4>1
      <3>2. G = [s \in SUBSET S |-> G[s]]
        <4>. HIDE DEF Unfold, V
        <4>. QED OBVIOUS
      <3>. HIDE DEF G
      <3>. QED BY <3>1, <3>2
    <2>5. SumsTo(G, f, S)
      <3>. HIDE DEF G
      <3>. QED BY <2>4 DEF SumsTo
    <2>. HIDE DEF G
    <2>. QED BY <2>5
  <1>2. \A S \in SUBSET U : S \in P
    <2>. HIDE DEF P
    <2>. QED BY <1>1, SubsetInduction
  <1>. QED
    BY <1>2

(* The recursion itself. *)
LEMMA SumRecursion ==
  ASSUME NEW f, NEW S, IsFiniteSet(S)
  PROVE  /\ S = {} => SumFunctionOnSet(f, S) = 0
         /\ S # {} => /\ Pick(S) \in S
                      /\ SumFunctionOnSet(f, S)
                           = f[Pick(S)] + SumFunctionOnSet(f, S \ {Pick(S)})
  <1>. DEFINE g == CHOOSE g : SumsTo(g, f, S)
              R == S \ {Pick(S)}
              h == CHOOSE h : SumsTo(h, f, R)
  <1>1. SumsTo(g, f, S)
    BY SumExists
  <1>2. IsFiniteSet(R) /\ R \in SUBSET S
    BY FS_Subset
  <1>3. SumsTo(h, f, R)
    <2>. HIDE DEF R
    <2>. QED BY <1>2, SumExists
  <1>4. SumFunctionOnSet(f, S) = g[S]
    BY SumDefinition
  <1>5. SumFunctionOnSet(f, R) = h[R]
    <2>. HIDE DEF R
    <2>. QED BY SumDefinition
  <1>. HIDE DEF g, h
  <1>6. g[R] = h[R]
    <2>. HIDE DEF R
    <2>. QED BY <1>1, <1>2, <1>3, SumUnique
  <1>7. g[S] = IF S = {} THEN 0 ELSE f[Pick(S)] + g[R]
    BY <1>1 DEF SumsTo
  <1>. QED
    BY <1>4, <1>5, <1>6, <1>7, PickIn

(* A sum of integers is one, and a sum of naturals too. *)
LEMMA SumType ==
  ASSUME NEW f, NEW U, IsFiniteSet(U)
  PROVE  /\ (\A x \in U : f[x] \in Int) => SumFunctionOnSet(f, U) \in Int
         /\ (\A x \in U : f[x] \in Nat) => SumFunctionOnSet(f, U) \in Nat
  <1>. DEFINE P == {S \in SUBSET U :
                      /\ (\A x \in U : f[x] \in Int) => SumFunctionOnSet(f, S) \in Int
                      /\ (\A x \in U : f[x] \in Nat) => SumFunctionOnSet(f, S) \in Nat}
  <1>1. ASSUME NEW S \in SUBSET U, \A R \in SUBSET S : R # S => R \in P
        PROVE  S \in P
    <2>. DEFINE R == S \ {Pick(S)}
    <2>1. IsFiniteSet(S)
      BY FS_Subset
    <2>2. CASE S = {}
      <3>1. SumFunctionOnSet(f, S) = 0
        BY <2>1, <2>2, SumRecursion
      <3>. QED BY <3>1
    <2>3. CASE S # {}
      <3>1. Pick(S) \in U /\ SumFunctionOnSet(f, S) = f[Pick(S)] + SumFunctionOnSet(f, R)
        BY <2>1, <2>3, SumRecursion
      <3>2. R \in P
        BY <1>1, <2>3, PickIn
      <3>. HIDE DEF R
      <3>. QED BY <3>1, <3>2
    <2>. QED BY <2>2, <2>3
  <1>2. \A S \in SUBSET U : S \in P
    <2>. HIDE DEF P
    <2>. QED BY <1>1, SubsetInduction
  <1>. QED
    BY <1>2

(* Only the values on the set matter. *)
LEMMA SumSame ==
  ASSUME NEW f, NEW g, NEW U, IsFiniteSet(U), \A x \in U : f[x] = g[x]
  PROVE  SumFunctionOnSet(f, U) = SumFunctionOnSet(g, U)
  <1>. DEFINE P == {S \in SUBSET U : SumFunctionOnSet(f, S) = SumFunctionOnSet(g, S)}
  <1>1. ASSUME NEW S \in SUBSET U, \A R \in SUBSET S : R # S => R \in P
        PROVE  S \in P
    <2>. DEFINE R == S \ {Pick(S)}
    <2>1. IsFiniteSet(S)
      BY FS_Subset
    <2>2. CASE S = {}
      BY <2>1, <2>2, SumRecursion
    <2>3. CASE S # {}
      <3>1. /\ Pick(S) \in U
            /\ SumFunctionOnSet(f, S) = f[Pick(S)] + SumFunctionOnSet(f, R)
            /\ SumFunctionOnSet(g, S) = g[Pick(S)] + SumFunctionOnSet(g, R)
        BY <2>1, <2>3, SumRecursion
      <3>2. R \in P
        BY <1>1, <2>3, PickIn
      <3>. HIDE DEF R
      <3>. QED BY <3>1, <3>2
    <2>. QED BY <2>2, <2>3
  <1>2. \A S \in SUBSET U : S \in P
    <2>. HIDE DEF P
    <2>. QED BY <1>1, SubsetInduction
  <1>. QED
    BY <1>2

(* Any element may be added last. *)
LEMMA SumRemove ==
  ASSUME NEW f, NEW U, IsFiniteSet(U), \A x \in U : f[x] \in Int, NEW a \in U
  PROVE  SumFunctionOnSet(f, U) = f[a] + SumFunctionOnSet(f, U \ {a})
  <1>. DEFINE Sum(S) == SumFunctionOnSet(f, S)
              P == {S \in SUBSET U : \A x \in S : Sum(S) = f[x] + Sum(S \ {x})}
  <1>1. ASSUME NEW S \in SUBSET U, \A R \in SUBSET S : R # S => R \in P
        PROVE  S \in P
    <2>. SUFFICES ASSUME NEW x \in S PROVE Sum(S) = f[x] + Sum(S \ {x})
      OBVIOUS
    <2>. DEFINE p == Pick(S)
    <2>1. p \in S /\ Sum(S) = f[p] + Sum(S \ {p})
      BY FS_Subset, SumRecursion
    <2>. HIDE DEF p
    <2>2. CASE x = p
      BY <2>1, <2>2
    <2>3. CASE x # p
      <3>1. x \in S \ {p} /\ S \ {p} \in SUBSET S /\ S \ {p} # S
        BY <2>1, <2>3
      <3>2. p \in S \ {x} /\ S \ {x} \in SUBSET S /\ S \ {x} # S
        BY <2>1, <2>3
      <3>3. Sum(S \ {p}) = f[x] + Sum((S \ {p}) \ {x})
        BY <1>1, <3>1
      <3>4. Sum(S \ {x}) = f[p] + Sum((S \ {x}) \ {p})
        BY <1>1, <3>2
      <3>5. (S \ {p}) \ {x} = (S \ {x}) \ {p}
        OBVIOUS
      <3>6. Sum((S \ {x}) \ {p}) \in Int
        <4>1. IsFiniteSet((S \ {x}) \ {p})
          BY FS_Subset
        <4>. QED BY <4>1, SumType
      <3>7. f[p] \in Int /\ f[x] \in Int
        BY <2>1
      <3>. DEFINE rest == Sum((S \ {x}) \ {p})
      <3>8. Sum(S) = f[p] + (f[x] + rest) /\ Sum(S \ {x}) = f[p] + rest /\ rest \in Int
        BY <2>1, <3>3, <3>4, <3>5, <3>6
      <3>. HIDE DEF rest, Sum
      <3>. QED BY <3>7, <3>8
    <2>. QED BY <2>2, <2>3
  <1>2. \A S \in SUBSET U : S \in P
    <2>. HIDE DEF P
    <2>. QED BY <1>1, SubsetInduction
  <1>. QED
    BY <1>2

(* Elements of value zero need not be added. *)
LEMMA SumPart ==
  ASSUME NEW f, NEW U, IsFiniteSet(U), \A x \in U : f[x] \in Int,
         NEW W \in SUBSET U, \A x \in U \ W : f[x] = 0
  PROVE  SumFunctionOnSet(f, U) = SumFunctionOnSet(f, W)
  <1>. DEFINE P == {S \in SUBSET U : W \subseteq S => SumFunctionOnSet(f, S) = SumFunctionOnSet(f, W)}
  <1>1. ASSUME NEW S \in SUBSET U, \A R \in SUBSET S : R # S => R \in P
        PROVE  S \in P
    <2>. SUFFICES ASSUME W \subseteq S, S # W
                  PROVE  SumFunctionOnSet(f, S) = SumFunctionOnSet(f, W)
      OBVIOUS
    <2>1. PICK x \in S : x \notin W
      OBVIOUS
    <2>2. IsFiniteSet(S) /\ \A y \in S : f[y] \in Int
      BY FS_Subset
    <2>3. SumFunctionOnSet(f, S) = f[x] + SumFunctionOnSet(f, S \ {x})
      BY <2>2, SumRemove
    <2>4. S \ {x} \in SUBSET S /\ S \ {x} # S /\ W \subseteq S \ {x}
      BY <2>1
    <2>5. SumFunctionOnSet(f, S \ {x}) = SumFunctionOnSet(f, W)
      BY <1>1, <2>4
    <2>6. SumFunctionOnSet(f, W) \in Int
      BY FS_Subset, SumType
    <2>7. f[x] = 0
      BY <2>1
    <2>. QED BY <2>3, <2>5, <2>6, <2>7
  <1>2. \A S \in SUBSET U : S \in P
    <2>. HIDE DEF P
    <2>. QED BY <1>1, SubsetInduction
  <1>. QED
    BY <1>2

(* Sums of naturals grow with the set. *)
LEMMA SumMonotone ==
  ASSUME NEW f, NEW U, IsFiniteSet(U), \A x \in U : f[x] \in Nat, NEW W \in SUBSET U
  PROVE  SumFunctionOnSet(f, W) <= SumFunctionOnSet(f, U)
  <1>. DEFINE Sum(S) == SumFunctionOnSet(f, S)
              P == {S \in SUBSET U : \A R \in SUBSET S : Sum(R) <= Sum(S)}
  <1>1. ASSUME NEW S \in SUBSET U PROVE Sum(S) \in Nat
    <2>1. IsFiniteSet(S) /\ \A x \in S : f[x] \in Nat
      BY FS_Subset
    <2>. QED BY <2>1, SumType
  <1>2. ASSUME NEW S \in SUBSET U, \A R \in SUBSET S : R # S => R \in P
        PROVE  S \in P
    <2>. SUFFICES ASSUME NEW R \in SUBSET S PROVE Sum(R) <= Sum(S)
      OBVIOUS
    <2>1. Sum(R) \in Nat /\ Sum(S) \in Nat
      BY <1>1
    <2>2. CASE R = S
      BY <2>1, <2>2
    <2>3. CASE R # S
      <3>1. PICK x \in S : x \notin R
        BY <2>3
      <3>2. IsFiniteSet(S) /\ \A y \in S : f[y] \in Int
        BY FS_Subset
      <3>3. Sum(S) = f[x] + Sum(S \ {x})
        BY <3>2, SumRemove
      <3>4. S \ {x} \in SUBSET S /\ S \ {x} # S /\ R \in SUBSET (S \ {x})
        BY <3>1
      <3>5. Sum(R) <= Sum(S \ {x})
        BY <1>2, <3>4
      <3>6. f[x] \in Nat /\ Sum(S \ {x}) \in Nat
        BY <1>1
      <3>. HIDE DEF Sum
      <3>. QED BY <2>1, <3>3, <3>5, <3>6
    <2>. QED BY <2>2, <2>3
  <1>3. \A S \in SUBSET U : S \in P
    <2>. HIDE DEF P
    <2>. QED BY <1>2, SubsetInduction
  <1>. QED
    BY <1>3

(* The sum of a union is at most that of the sums, and the same if no        *)
(* element is in both sets.                                                  *)
LEMMA SumDisjoint ==
  ASSUME NEW f, NEW U, IsFiniteSet(U), \A x \in U : f[x] \in Int,
         NEW V \in SUBSET U, NEW W \in SUBSET U, V \cap W = {}
  PROVE  SumFunctionOnSet(f, V \cup W) = SumFunctionOnSet(f, V) + SumFunctionOnSet(f, W)
  <1>. DEFINE Sum(S) == SumFunctionOnSet(f, S)
              P == {S \in SUBSET U : V \cap S = {} => Sum(V \cup S) = Sum(V) + Sum(S)}
  <1>1. ASSUME NEW S \in SUBSET U
        PROVE  /\ Sum(S) \in Int
               /\ \A x \in S : Sum(S) = f[x] + Sum(S \ {x})
    <2>1. IsFiniteSet(S) /\ (\A x \in S : f[x] \in Int)
      BY FS_Subset
    <2>2. Sum(S) \in Int
      BY <2>1, SumType
    <2>3. \A x \in S : Sum(S) = f[x] + Sum(S \ {x})
      BY <2>1, SumRemove
    <2>. QED BY <2>2, <2>3
  <1>2. ASSUME NEW S \in SUBSET U, \A R \in SUBSET S : R # S => R \in P
        PROVE  S \in P
    <2>. SUFFICES ASSUME V \cap S = {} PROVE Sum(V \cup S) = Sum(V) + Sum(S)
      OBVIOUS
    <2>1. CASE S = {}
      <3>1. Sum({}) = 0
        BY FS_EmptySet, SumRecursion
      <3>2. Sum(V) \in Int /\ V \cup S = V
        BY <1>1, <2>1
      <3>. HIDE DEF Sum
      <3>. QED BY <2>1, <3>1, <3>2
    <2>2. CASE S # {}
      <3>1. PICK x \in S : TRUE
        BY <2>2
      <3>. DEFINE R == S \ {x}
      <3>2. R \in SUBSET S /\ R # S /\ V \cap R = {}
        BY <3>1
      <3>3. Sum(V \cup R) = Sum(V) + Sum(R)
        BY <1>2, <3>2
      <3>4. V \cup S \in SUBSET U /\ x \in V \cup S /\ (V \cup S) \ {x} = V \cup R
        BY <3>1
      <3>5. Sum(V \cup S) = f[x] + Sum((V \cup S) \ {x})
        BY <1>1, <3>4
      <3>6. Sum(S) = f[x] + Sum(R) /\ f[x] \in Int
        BY <1>1
      <3>7. Sum(V) \in Int /\ Sum(R) \in Int
        BY <1>1
      <3>. HIDE DEF Sum, R
      <3>8. Sum(V \cup S) = f[x] + Sum(V \cup R)
        BY <3>4, <3>5
      <3>9. f[x] \in Int
        BY <3>6
      <3>10. Sum(S) = f[x] + Sum(R)
        BY <3>6
      <3>. QED BY <3>3, <3>7, <3>8, <3>9, <3>10
    <2>. QED BY <2>1, <2>2
  <1>3. \A S \in SUBSET U : S \in P
    <2>. HIDE DEF P
    <2>. QED BY <1>2, SubsetInduction
  <1>. QED
    BY <1>3

(* A union adds up to no more than its parts do. *)
LEMMA SumUnion ==
  ASSUME NEW f, NEW U, IsFiniteSet(U), \A x \in U : f[x] \in Nat,
         NEW V \in SUBSET U, NEW W \in SUBSET U
  PROVE  SumFunctionOnSet(f, V \cup W) <= SumFunctionOnSet(f, V) + SumFunctionOnSet(f, W)
  <1>. DEFINE Sum(S) == SumFunctionOnSet(f, S)
              R == W \ V
  <1>1. V \cup W = V \cup R /\ V \cap R = {} /\ R \in SUBSET U /\ R \in SUBSET W
    OBVIOUS
  <1>. HIDE DEF R
  <1>2. \A x \in U : f[x] \in Int
    OBVIOUS
  <1>3. Sum(V \cup R) = Sum(V) + Sum(R)
    <2>1. R \in SUBSET U /\ V \cap R = {}
      BY <1>1
    <2>. QED BY <1>2, <2>1, SumDisjoint
  <1>4. IsFiniteSet(V) /\ IsFiniteSet(W) /\ IsFiniteSet(R)
    BY <1>1, FS_Subset
  <1>5. (\A x \in V : f[x] \in Nat) /\ (\A x \in W : f[x] \in Nat) /\ (\A x \in R : f[x] \in Nat)
    BY <1>1
  <1>6. Sum(V) \in Nat /\ Sum(W) \in Nat /\ Sum(R) \in Nat
    BY <1>4, <1>5, SumType
  <1>7. Sum(R) <= Sum(W)
    BY <1>1, <1>4, <1>5, SumMonotone
  <1>8. Sum(V \cup W) = Sum(V \cup R)
    BY <1>1
  <1>. HIDE DEF Sum
  <1>9. Sum(V \cup W) <= Sum(V) + Sum(W)
    BY <1>3, <1>6, <1>7, <1>8
  <1>. QED
    BY <1>9 DEF Sum

(* A sum is the same over other names of its elements. *)
LEMMA SumRenamed ==
  ASSUME NEW f, NEW U, IsFiniteSet(U), NEW h, \A x, y \in U : x # y => h[x] # h[y],
         NEW g, \A x \in U : g[h[x]] = f[x] /\ f[x] \in Int
  PROVE  SumFunctionOnSet(g, {h[x] : x \in U}) = SumFunctionOnSet(f, U)
  <1>. DEFINE Image(S) == {h[x] : x \in S}
              P == {S \in SUBSET U : SumFunctionOnSet(g, Image(S)) = SumFunctionOnSet(f, S)}
  <1>1. ASSUME NEW S \in SUBSET U, \A R \in SUBSET S : R # S => R \in P
        PROVE  S \in P
    <2>1. IsFiniteSet(S) /\ IsFiniteSet(Image(S))
      <3>1. IsFiniteSet(S)
        BY FS_Subset
      <3>2. [x \in S |-> h[x]] \in Surjection(S, Image(S))
        BY DEF Surjection
      <3>. HIDE DEF Image
      <3>. QED BY <3>1, <3>2, FS_Surjection
    <2>2. CASE S = {}
      <3>1. Image(S) = {}
        BY <2>2
      <3>2. SumFunctionOnSet(g, {}) = 0 /\ SumFunctionOnSet(f, {}) = 0
        BY FS_EmptySet, SumRecursion
      <3>. HIDE DEF Image
      <3>. QED BY <2>2, <3>1, <3>2
    <2>3. CASE S # {}
      <3>1. PICK x \in S : TRUE
        BY <2>3
      <3>. DEFINE R == S \ {x}
      <3>2. R \in SUBSET S /\ R # S
        BY <3>1
      <3>3. SumFunctionOnSet(g, Image(R)) = SumFunctionOnSet(f, R)
        BY <1>1, <3>2
      <3>4. h[x] \in Image(S) /\ Image(S) \ {h[x]} = Image(R)
        <4>1. \A y \in S : h[y] = h[x] => y = x
          OBVIOUS
        <4>. QED BY <4>1
      <3>5. \A z \in Image(S) : g[z] \in Int
        OBVIOUS
      <3>6. \A y \in S : f[y] \in Int
        OBVIOUS
      <3>7. g[h[x]] = f[x]
        OBVIOUS
      <3>. HIDE DEF Image, R
      <3>8. SumFunctionOnSet(g, Image(S)) = g[h[x]] + SumFunctionOnSet(g, Image(S) \ {h[x]})
        BY <2>1, <3>4, <3>5, SumRemove
      <3>9. SumFunctionOnSet(f, S) = f[x] + SumFunctionOnSet(f, R)
        BY <2>1, <3>6, SumRemove DEF R
      <3>. QED BY <3>3, <3>4, <3>7, <3>8, <3>9
    <2>. QED BY <2>2, <2>3
  <1>2. \A S \in SUBSET U : S \in P
    <2>. HIDE DEF P
    <2>. QED BY <1>1, SubsetInduction
  <1>. QED
    BY <1>2
=============================================================================
