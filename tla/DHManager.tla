----------------------------- MODULE DHManager -----------------------------
(***************************************************************************)
(* The manager of the DH build (src/manager_dh.c): it sleeps until a       *)
(* SIGUSR2 sets update_needed, gathers one SAI message per server, moves   *)
(* entries between servers and publishes the new table.                    *)
(* The access counters are abstracted: the relab computation is any result *)
(* of the shape calculate_relab produces (Relab of Reassignment).          *)
(***************************************************************************)
EXTENDS DHChannels, Reassignment

VARIABLES update_needed,  \* volatile sig_atomic_t, set by the handler
          mgrPc,          \* where main() is
          nb_rcv,         \* SAI messages received in this round
          mgrTable        \* the manager's mlt (its state column is always 0)

mgrVars == <<update_needed, mgrPc, nb_rcv, mgrTable>>

MgrTypeOK ==
  /\ update_needed \in BOOLEAN
  /\ mgrPc \in {"sleep", "gather", "relab", "send", "reset"}
  /\ nb_rcv \in 0 .. NbSrv
  /\ mgrTable \in [Entries -> Assignment]

MgrInit ==
  /\ update_needed = FALSE
  /\ mgrPc = "sleep"
  /\ nb_rcv = 0
  /\ mgrTable = [e \in Entries |-> AssignmentOf(mlt_init[e])]

(* usrHandler2 *)
usrHandler2 ==
  /\ update_needed' = TRUE
  /\ UNCHANGED <<mgrPc, nb_rcv, mgrTable>>

MgrWake ==
  /\ mgrPc = "sleep"
  /\ update_needed
  /\ mgrPc' = "gather"
  /\ UNCHANGED <<update_needed, nb_rcv, mgrTable, mgrChannel>>

MgrGather ==
  /\ mgrPc = "gather"
  /\ nb_rcv < NbSrv
  /\ pull > 0
  /\ pull' = pull - 1
  /\ nb_rcv' = nb_rcv + 1
  /\ UNCHANGED <<update_needed, mgrPc, mgrTable, mlts>>

MgrGathered ==
  /\ mgrPc = "gather"
  /\ nb_rcv = NbSrv
  /\ mgrPc' = "relab"
  /\ nb_rcv' = 0   \* local to the loop body
  /\ UNCHANGED <<update_needed, mgrTable, mgrChannel>>

MgrRelab ==
  /\ mgrPc = "relab"
  /\ \E new \in Relab(mgrTable) :
       mgrTable' = [e \in Entries |-> Reassign(mgrTable[e], new[e])]
  /\ mgrPc' = "send"
  /\ UNCHANGED <<update_needed, nb_rcv, mgrChannel>>

MgrSend ==
  /\ mgrPc = "send"
  /\ mlts' = Append(mlts, mgrTable)
  /\ mgrPc' = "reset"
  /\ UNCHANGED <<update_needed, nb_rcv, mgrTable, pull>>

(* The flag is cleared after the table was sent, not when it was read. *)
MgrReset ==
  /\ mgrPc = "reset"
  /\ update_needed' = FALSE
  /\ mgrPc' = "sleep"
  /\ UNCHANGED <<nb_rcv, mgrTable, mgrChannel>>

MgrNext ==
  MgrWake \/ MgrGather \/ MgrGathered \/ MgrRelab \/ MgrSend \/ MgrReset
=============================================================================
