---------------------------- MODULE WindowQueue ----------------------------
(***************************************************************************)
(* The ring buffer of src/queue.c: the access counters of an entry in the  *)
(* last steps, kept by the windowed build.                                 *)
(***************************************************************************)
EXTENDS Integers, Sequences, SequencesExt

CONSTANTS Count,   \* size of the ring, WINDOW_SIZE in eacl_windowed.c
          Values   \* values of an access counter

ASSUME QueueAssumption == Count \in Nat \ {0} /\ Values \subseteq Nat /\ 0 \in Values

VARIABLES values, used, next

vars == <<values, used, next>>

Slots == 0 .. Count - 1

TypeOK ==
  /\ values \in [Slots -> Values]
  /\ used \in 0 .. Count
  /\ next \in Slots

(* malloc leaves the slots as they are. *)
queue_new ==
  /\ values \in [Slots -> Values]
  /\ used = 0
  /\ next = 0

(* Faulty variant: the ring has one slot more than used can count. *)
queue_putLate(value) ==
  /\ values' = [values EXCEPT ![next] = value]
  /\ used' = IF used < Count - 1 THEN used + 1 ELSE used
  /\ next' = IF next = Count - 1 THEN 0 ELSE next + 1

(* Faulty variant: the index never wraps. *)
queue_putStraight(value) ==
  /\ values' = [values EXCEPT ![next] = value]
  /\ used' = IF used < Count THEN used + 1 ELSE used
  /\ next' = next + 1

queue_put(value) ==
  /\ values' = [values EXCEPT ![next] = value]
  /\ used' = IF used < Count THEN used + 1 ELSE used
  /\ next' = IF next = Count - 1 THEN 0 ELSE next + 1

(* Faulty variant: the next slot is not reset. *)
queue_resetUsed ==
  /\ values' = [i \in Slots |-> IF i < used THEN 0 ELSE values[i]]
  /\ used' = 0
  /\ next' = next

queue_reset ==
  /\ values' = [i \in Slots |-> IF i < used THEN 0 ELSE values[i]]
  /\ used' = 0
  /\ next' = 0

(* Faulty variant: the mean of all slots, used or not. *)
queue_meanOfAll == IF used = 0 THEN 0 ELSE SumFunction(values) \div used

(* Slots below used are summed, wherever the oldest value is. *)
queue_mean ==
  IF used = 0 THEN 0 ELSE SumFunctionOnSet(values, 0 .. used - 1) \div used

Next == (\E v \in Values : queue_put(v)) \/ queue_reset

Spec == queue_new /\ [][Next]_vars

-----------------------------------------------------------------------------
(* Safety. *)

(* The elements of a ring, oldest first: until it is full it starts at slot 0. *)
Slot(u, n, i) == IF u < Count THEN i - 1
                 ELSE IF n + i - 1 < Count THEN n + i - 1 ELSE n + i - 1 - Count

Elements(vals, u, n) == [i \in 1 .. u |-> vals[Slot(u, n, i)]]

Abstract == INSTANCE Window WITH window <- Elements(values, used, next)

(* "If the queue is full, this call will discard the oldest element" and      *)
(* "Reset a queue" (queue.h): the ring holds the last values in their order,  *)
(* also when it wraps and when it is reset half way round.                    *)
KeepsLastValues == Abstract!Spec

(* "Compute the mean of the elements in a queue" (queue.h): summing the slots *)
(* below used sums exactly the elements, never an unset slot.                 *)
MeanOfElements ==
  LET w == Elements(values, used, next)
  IN  queue_mean = IF w = <<>> THEN 0 ELSE FoldSeq(+, 0, w) \div Len(w)
=============================================================================
