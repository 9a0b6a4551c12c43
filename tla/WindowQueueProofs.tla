------------------------- MODULE WindowQueueProofs -------------------------
(***************************************************************************)
(* The ring buffer keeps the last Count values, and queue_mean is their    *)
(* mean, for every Count.                                                  *)
(***************************************************************************)
EXTENDS WindowQueue, SumProofs

(* Until it is full the ring is filled from slot 0. *)
RingInv == TypeOK /\ (used < Count => next = used)

(* The invariant is inductive. *)
LEMMA RingInductive ==
  /\ queue_new => RingInv
  /\ RingInv /\ [Next]_vars => RingInv'
  <1>1. queue_new => RingInv
    BY QueueAssumption DEF queue_new, RingInv, TypeOK, Slots
  <1>2. ASSUME RingInv, NEW v \in Values, queue_put(v) PROVE RingInv'
    BY <1>2, QueueAssumption DEF RingInv, TypeOK, queue_put, Slots
  <1>3. ASSUME RingInv, queue_reset PROVE RingInv'
    BY <1>3, QueueAssumption DEF RingInv, TypeOK, queue_reset, Slots
  <1>4. ASSUME RingInv, UNCHANGED vars PROVE RingInv'
    BY <1>4 DEF RingInv, TypeOK, vars
  <1> QED BY <1>1, <1>2, <1>3, <1>4 DEF Next

(* The types of the ring hold at all times (queue.c). *)
THEOREM RingTypes == Spec => []TypeOK
  <1>1. RingInv => TypeOK
    BY DEF RingInv
  <1> QED BY <1>1, RingInductive, PTL DEF Spec

(* The elements of a ring are a sequence of as many values as are used. *)
LEMMA ElementsType ==
  ASSUME NEW vals \in [Slots -> Values], NEW u \in 0 .. Count, NEW n \in Slots,
         u < Count => n = u
  PROVE  /\ Elements(vals, u, n) \in Seq(Values)
         /\ Len(Elements(vals, u, n)) = u
         /\ \A i \in 1 .. u : /\ Slot(u, n, i) \in Slots
                              /\ Elements(vals, u, n)[i] = vals[Slot(u, n, i)]
  <1>1. \A i \in 1 .. u : Slot(u, n, i) \in Slots
    BY QueueAssumption DEF Slot, Slots
  <1>2. Elements(vals, u, n) \in [1 .. u -> Values] /\ u \in Nat
    BY <1>1, QueueAssumption DEF Elements
  <1> QED BY <1>1, <1>2 DEF Elements

(* The last index, or one before. *)
LEMMA LastOrBefore ==
  ASSUME NEW n \in Nat, NEW i \in 1 .. n
  PROVE  i = n \/ i \in 1 .. n - 1
  OBVIOUS

(* A put is a put of the abstract window: when the ring is full the slot    *)
(* written is that of the oldest value.                                     *)
LEMMA PutImplements ==
  ASSUME RingInv, NEW v \in Values, queue_put(v)
  PROVE  Elements(values, used, next)' = Abstract!WindowPut(Elements(values, used, next), v)
  <1> DEFINE old == Elements(values, used, next)
             new == Elements(values', used', next')
             kept == IF Len(old) < Count THEN old ELSE Tail(old)
  <1>1. RingInv'
    BY RingInductive DEF Next
  <1>u. PICK u : u = used'
    OBVIOUS
  <1>0. u > 0 /\ u = used'
    BY <1>u, QueueAssumption DEF RingInv, TypeOK, queue_put
  <1>n. u \in Nat
    BY <1>0, QueueAssumption DEF RingInv, TypeOK, queue_put
  <1>2. /\ old \in Seq(Values) /\ Len(old) = used
        /\ \A i \in 1 .. used : old[i] = values[Slot(used, next, i)]
    BY ElementsType DEF RingInv, TypeOK
  <1>3. /\ new \in Seq(Values) /\ Len(new) = used'
        /\ \A i \in 1 .. used' : new[i] = values'[Slot(used', next', i)]
    BY <1>1, ElementsType DEF RingInv, TypeOK
  <1> HIDE DEF old, new
  <1>4. /\ kept \in Seq(Values) /\ Len(kept) = u - 1
        /\ \A i \in 1 .. u - 1 :
             kept[i] = values[IF used < Count THEN i - 1 ELSE Slot(used, next, i + 1)]
    <2>1. CASE used < Count
      BY <1>0, <1>n, <1>2, <2>1, QueueAssumption DEF RingInv, TypeOK, queue_put, Slot
    <2>2. CASE used = Count
      <3>1. kept = Tail(old) /\ Len(old) = Count /\ used' = Count /\ old # <<>>
        BY <1>2, <2>2, QueueAssumption DEF RingInv, TypeOK, queue_put
      <3> QED BY <1>0, <1>n, <1>2, <2>2, <3>1, QueueAssumption
    <2> QED BY <2>1, <2>2, QueueAssumption DEF RingInv, TypeOK
  <1>5. \A i \in 1 .. u : new[i] = Append(kept, v)[i]
    <2> SUFFICES ASSUME NEW i \in 1 .. u PROVE new[i] = Append(kept, v)[i]
      OBVIOUS
    <2>0. i = u \/ i \in 1 .. u - 1
      BY <1>n, LastOrBefore
    <2> DEFINE k == Slot(used', next', i)
    <2>1. values'[k] = IF k = next THEN v ELSE values[k]
      BY <1>0, <1>n, <1>1, ElementsType DEF RingInv, TypeOK, queue_put
    <2>2. CASE i = u
      <3>1. k = next
        BY <1>0, <1>n, <1>1, <2>2, QueueAssumption DEF RingInv, TypeOK, queue_put, Slot, Slots
      <3> QED BY <1>0, <1>n, <1>3, <1>4, <2>1, <2>2, <3>1
    <2>3. CASE i \in 1 .. u - 1
      <3>1. k # next /\ k = IF used < Count THEN i - 1 ELSE Slot(used, next, i + 1)
        BY <1>0, <1>n, <2>0, <2>3, QueueAssumption DEF RingInv, TypeOK, queue_put, Slot, Slots
      <3>3. kept[i] = values[k]
        BY <1>4, <2>3, <3>1
      <3>4. Append(kept, v)[i] = kept[i]
        BY <1>4, <1>n, <2>3
      <3> HIDE DEF k, kept
      <3> QED BY <1>0, <1>n, <1>3, <2>1, <3>1, <3>3, <3>4 DEF k
    <2> QED BY <2>0, <2>2, <2>3
  <1>6. Append(kept, v) \in Seq(Values) /\ Len(Append(kept, v)) = used'
    BY <1>0, <1>n, <1>4, QueueAssumption DEF RingInv, TypeOK
  <1>7. new = Append(kept, v)
    BY <1>0, <1>n, <1>3, <1>5, <1>6
  <1> QED BY <1>7 DEF Abstract!WindowPut, old, new

(* The ring of queue.c implements the queue that queue.h describes. *)
THEOREM RingImplementsWindow == Spec => KeepsLastValues
  <1>1. queue_new => Abstract!Init
    BY DEF queue_new, Abstract!Init, Elements
  <1>2. RingInv /\ [Next]_vars =>
          [(\E v \in Values : Abstract!Put(v)) \/ Abstract!Reset]_(Elements(values, used, next))
    <2> SUFFICES ASSUME RingInv, [Next]_vars
                 PROVE  \/ \E v \in Values : Abstract!Put(v)
                        \/ Abstract!Reset
                        \/ UNCHANGED Elements(values, used, next)
      OBVIOUS
    <2>1. ASSUME NEW v \in Values, queue_put(v) PROVE Abstract!Put(v)
      BY <2>1, PutImplements DEF Abstract!Put
    <2>2. ASSUME queue_reset PROVE Abstract!Reset
      BY <2>2 DEF queue_reset, Abstract!Reset, Elements
    <2>3. CASE UNCHANGED vars
      BY <2>3 DEF vars, Elements, Slot
    <2> QED BY <2>1, <2>2, <2>3 DEF Next
  <1> QED BY <1>1, <1>2, RingInductive, PTL DEF Spec, KeepsLastValues, Abstract!Spec

(* "Compute the mean of the elements in a queue" (queue.h): the slots below  *)
(* used hold the elements, each once, wherever the oldest of them is.        *)
THEOREM MeanOfTheElements == Spec => []MeanOfElements
  <1>1. ASSUME RingInv PROVE MeanOfElements
    <2>. DEFINE w == Elements(values, used, next)
                D == 1 .. used
                h == [i \in D |-> Slot(used, next, i)]
    <2>1. /\ used \in 0 .. Count /\ next \in 0 .. Count - 1 /\ Count \in Nat \ {0}
          /\ \A i \in 0 .. Count - 1 : values[i] \in Nat
      BY <1>1, QueueAssumption DEF RingInv, TypeOK, Slots
    <2>2. \A i \in D : h[i] \in 0 .. used - 1 /\ h[i] \in 0 .. Count - 1
      BY <2>1 DEF Slot
    <2>3. \A i, j \in D : i # j => h[i] # h[j]
      BY <2>1 DEF Slot
    <2>4. \A k \in 0 .. used - 1 : \E i \in D : h[i] = k
      <3>. TAKE k \in 0 .. used - 1
      <3>1. CASE used < Count
        <4>1. k + 1 \in D /\ h[k + 1] = k
          BY <2>1, <3>1 DEF Slot
        <4>. QED BY <4>1
      <3>2. CASE ~ (used < Count) /\ k < next
        <4>1. k + 1 + Count - next \in D /\ h[k + 1 + Count - next] = k
          BY <2>1, <3>2 DEF Slot
        <4>. QED BY <4>1
      <3>3. CASE ~ (used < Count) /\ ~ (k < next)
        <4>1. k + 1 - next \in D /\ h[k + 1 - next] = k
          BY <2>1, <3>3 DEF Slot
        <4>. QED BY <4>1
      <3>. QED BY <3>1, <3>2, <3>3
    <2>5. {h[i] : i \in D} = 0 .. used - 1
      BY <2>2, <2>4
    <2>6. w = [i \in D |-> values[h[i]]]
      BY DEF Elements
    <2>7. IsFiniteSet(D)
      BY <2>1, FS_Interval
    <2>. HIDE DEF h
    <2>8. w \in Seq(Nat) /\ Len(w) = used /\ DOMAIN w = D
      <3>1. used \in Nat /\ \A i \in D : values[h[i]] \in Nat
        BY <2>1, <2>2
      <3>. QED BY <2>6, <3>1
    <2>9. \A i \in D : values[h[i]] = w[i] /\ w[i] \in Int
      BY <2>1, <2>2, <2>6
    <2>. HIDE DEF w, D
    <2>10. SumFunctionOnSet(values, {h[i] : i \in D}) = SumFunctionOnSet(w, D)
      BY <2>3, <2>7, <2>9, SumRenamed
    <2>11. FoldSeq(+, 0, w) = SumFunctionOnSet(w, D)
      BY <2>8 DEF FoldSeq, FoldFunction, SumFunctionOnSet
    <2>12. w = <<>> <=> used = 0
      BY <2>1, <2>8
    <2>13. queue_mean = IF w = <<>> THEN 0 ELSE FoldSeq(+, 0, w) \div Len(w)
      BY <2>5, <2>8, <2>10, <2>11, <2>12 DEF queue_mean
    <2>. QED BY <2>13 DEF MeanOfElements, w
  <1>. QED
    BY <1>1, RingInductive, PTL DEF Spec
=============================================================================
