---------------------------- MODULE DHHandover ----------------------------
(***************************************************************************)
(* The redistributions of the DH build: at most one is under way, and in   *)
(* it every entry that moves is released by its old server before its new  *)
(* one takes it, whatever the clients do meanwhile.  The conjuncts of      *)
(* HandoverInv say where each of the threads, messages and ack files of a  *)
(* redistribution is; DHProtocolProofs shows them for all values of the    *)
(* constants, DHOwnership that the DH build implements EntryOwnership.     *)
(***************************************************************************)
EXTENDS DHProtocol

Last == Len(mlts)

(* The last redistribution moved e from Old(e) to New(e). *)
Moves(e) == Last > 1 /\ mlts[Last - 1][e] # mlts[Last][e]
Old(e)   == mlts[Last - 1][e].id_srv
New(e)   == mlts[Last][e].id_srv

-----------------------------------------------------------------------------
(* One redistribution at a time *)

(* The manager will not publish before it gets a signal: it sleeps, or it  *)
(* is about to, and what sets update_needed now is erased.                 *)
MgrQuiet == mgrPc \in {"sleep", "reset"} /\ (update_needed => mgrPc = "reset")

(* Every updater has processed every table. *)
UpdatersIdle == \A s \in Servers : seen[s] = Last /\ updPc[s] = "wait"

NoneAcked == \A s \in Servers : acks[s] = {}

(* The launcher signals when all have acknowledged, and the acks stay away *)
(* until the manager has published: no server is ever two tables behind.   *)
LockstepOK ==
  /\ phase \in {"clients", "manager"} \/ ~MgrQuiet => UpdatersIdle /\ NoneAcked
  /\ phase \in {"clients", "manager"} => MgrQuiet
  /\ \A s \in Servers :
       /\ seen[s] >= Last - 1
       /\ updPc[s] # "wait" \/ acks[s] # {} => seen[s] = Last
       /\ acks[s] # {} => updPc[s] = "wait"
       /\ pending[s] = "USR1" =>
            phase = "synchro" /\ MgrQuiet /\ UpdatersIdle /\ acks[s] = {}

(* The manager is never signalled in a redistribution.  Its zmsg_recv then *)
(* returns NULL, and the loop over the servers (manager_dh.c:455) counts a *)
(* NULL as the message of a server.                                        *)
ManagerUndisturbed ==
  [][phase = "manager" /\ phase' = "synchro" => mgrPc \in {"sleep", "reset"}]_vars

-----------------------------------------------------------------------------
(* One packet per entry that moves *)

(* Between two tables an entry with a new version has a new server, and    *)
(* what the manager is about to publish is a redistribution of the last    *)
(* table.                                                                  *)
MovesOK ==
  /\ \A e \in Entries : Moves(e) => mlts[Last - 1][e].n_ver # mlts[Last][e].n_ver
                                    /\ Old(e) # New(e)
  /\ mgrPc = "send" =>
       \E new \in Relab(mlts[Last]) :
         mgrTable = [e \in Entries |-> Reassign(mlts[Last][e], new[e])]

Sending == {"check", "pop", "del", "send", "mark", "ack"}

(* The sender's list holds entries the server lost, and its line of each   *)
(* is already the new one; the packet is that of the entry it works on.    *)
SendersOK ==
  \A s \in Servers :
    /\ seen[s] = Last =>
         \A e \in to_send[s] : Moves(e) /\ Old(e) = s /\ At(s, e) = Last
    /\ sndPc[s] \in Sending => sndEntry[s] \in to_send[s]
    /\ xfer[s] # None => xfer[s].entry = sndEntry[s] /\ xfer[s].to = New(sndEntry[s])
    /\ updPc[s] = "wait" /\ seen[s] > 1 => sndPc[s] \in Ended

(* A receiver works on the entry of the packet it took; one that failed    *)
(* has left the packet unanswered; one that is done has counted to zero.   *)
ReceiversOK ==
  \A s \in Servers :
    /\ rcvPc[s] \in {"insert", "put", "state", "reply"} =>
         rcvEntry[s] = xfer[rcvFrom[s]].entry
    /\ rcvPc[s] = "reply" => table[s][rcvEntry[s]].state = 0
    /\ rcvPc[s] = "failed" =>
         /\ xfer[rcvFrom[s]] # None
         /\ xfer[rcvFrom[s]].status = "taken"
         /\ xfer[rcvFrom[s]].to = s
    /\ rcvPc[s] = "done" /\ updPc[s] # "scan" => to_receive[s] = 0
    /\ updPc[s] = "wait" /\ seen[s] > 1 => rcvPc[s] \in Ended

-----------------------------------------------------------------------------
(* Who serves an entry that moves *)

(* The new server has answered the packet of e. *)
Given(e) ==
  /\ At(Old(e), e) = Last
  /\ \/ e \notin to_send[Old(e)]
     \/ xfer[Old(e)] # None /\ xfer[Old(e)].status = "done" /\ sndEntry[Old(e)] = e

(* A line is in transfer only at the old and the new server of an entry    *)
(* that moves; at the old one until the packet is out.  The new server's   *)
(* line is in service only after the old one has changed its own.          *)
LinesOK ==
  \A e \in Entries :
    /\ \A s \in Servers : table[s][e].state = 1 =>
         /\ Moves(e)
         /\ At(s, e) = Last
         /\ s \in {Old(e), New(e)}
         /\ s = Old(e) => e \in to_send[s] /\ ~(sndPc[s] = "ack" /\ sndEntry[s] = e)
    /\ Moves(e) /\ At(New(e), e) = Last /\ table[New(e)][e].state = 0 => At(Old(e), e) = Last
    /\ Moves(e) /\ Given(e) => At(New(e), e) = Last /\ table[New(e)][e].state = 0

(* The entries whose packet server s still has to answer: to_receive only  *)
(* counts them.                                                            *)
Awaited(s) == {e \in Entries : Moves(e) /\ New(e) = s /\ At(s, e) = Last /\ ~Given(e)}

CountsOK == \A s \in Servers : seen[s] = Last => to_receive[s] = Cardinality(Awaited(s))

HandoverInv ==
  /\ LockstepOK
  /\ MovesOK
  /\ SendersOK
  /\ ReceiversOK
  /\ LinesOK
  /\ CountsOK
=============================================================================
