------------------------------ MODULE Window ------------------------------
(***************************************************************************)
(* What queue.h promises of a queue: it holds the values put since the     *)
(* last reset, at most Count of them, the oldest being discarded when it   *)
(* is full.                                                                *)
(***************************************************************************)
EXTENDS Integers, Sequences

CONSTANTS Count,   \* WINDOW_SIZE in eacl_windowed.c
          Values   \* values of an access counter

VARIABLE window

WindowPut(w, v) == Append(IF Len(w) < Count THEN w ELSE Tail(w), v)

Init == window = <<>>

Put(v) == window' = WindowPut(window, v)

Reset == window' = <<>>

Spec == Init /\ [][(\E v \in Values : Put(v)) \/ Reset]_window
=============================================================================
