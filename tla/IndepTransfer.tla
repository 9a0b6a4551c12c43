--------------------------- MODULE IndepTransfer ---------------------------
(***************************************************************************)
(* The redistributions that the exchange of IndepEpoch brings about, as    *)
(* the windowed build does them (src/distribution_windowed_s.c; indedh has *)
(* the same text): the MLT message carries a table, the listener compares  *)
(* it with its own entry by entry, starts a sender and a receiver, joins   *)
(* both and writes the ack file.                                           *)
(*                                                                         *)
(* Unlike in DH a server may give its entries to several others, so a      *)
(* receiver has several senders waiting, and a sender several receivers.   *)
(* The clients are stopped, as QuietWhileClientsRun says, and only the     *)
(* transfer threads touch lists, files and lines: what one of them does    *)
(* with one entry between two messages is one step (DHTransfer has the     *)
(* steps one by one).  The names of an entry travel together.              *)
(***************************************************************************)
EXTENDS IndepEpoch

CONSTANT None

VARIABLES
  mlts,        \* the tables computed so far
  seen,        \* number of tables each listener has received
  table,       \* table of each server
  scan,        \* entries its listener has compared
  to_send,     \* entries its sender has not sent and seen acknowledged
  to_receive,  \* packets its receiver still waits for
  failed,      \* servers whose receiver has given up
  xfer,        \* the REQ/REP exchange of each sender
  in_charge    \* entries whose names a server has, files and list

txVars  == <<mlts, seen, table, scan, to_send, to_receive, failed, xfer, in_charge>>
allVars == <<vars, txVars>>

Packet == [to : Servers, entry : Entries, status : {"sent", "done"}]

ASSUME NoneAssumption == None \notin Servers \cup Packet

TxTypeOK ==
  /\ mlts \in Seq([Entries -> Assignment]) /\ mlts # <<>>
  /\ seen \in [Servers -> DOMAIN mlts]
  /\ table \in [Servers -> [Entries -> MltLine]]
  /\ scan \in [Servers -> 0 .. NEntry]
  /\ to_send \in [Servers -> SUBSET Entries]
  /\ to_receive \in [Servers -> 0 .. NEntry]
  /\ failed \subseteq Servers
  /\ xfer \in [Servers -> Packet \cup {None}]
  /\ in_charge \in [Servers -> SUBSET Entries]

TxInit ==
  /\ Init
  /\ mlts = <<InitialAssignments>>
  /\ seen = [s \in Servers |-> 1]
  /\ table = [s \in Servers |-> mlt_init]
  /\ scan = [s \in Servers |-> 0]
  /\ to_send = [s \in Servers |-> {}]
  /\ to_receive = [s \in Servers |-> 0]
  /\ failed = {}
  /\ xfer = [s \in Servers |-> None]
  /\ in_charge = [s \in Servers |-> {e \in Entries : mlt_init[e].id_srv = s}]

-----------------------------------------------------------------------------
(* Faulty variant: the message has no table. *)
SendMltEmpty == MgrSend /\ UNCHANGED txVars

(* The manager computes a table and publishes it. *)
SendMlt ==
  /\ MgrSend
  /\ \E new \in RelabMany(mlts[Len(mlts)]) :
       mlts' = Append(mlts, [e \in Entries |-> Reassign(mlts[Len(mlts)][e], new[e])])
  /\ UNCHANGED <<seen, table, scan, to_send, to_receive, failed, xfer, in_charge>>

-----------------------------------------------------------------------------
(* thread_manager_listener *)

(* The to-do lists are empty. *)
ReceiveTable(s) ==
  /\ ReceiveMlt(s)
  /\ seen' = [seen EXCEPT ![s] = @ + 1]
  /\ scan' = [scan EXCEPT ![s] = 0]
  /\ to_send' = [to_send EXCEPT ![s] = {}]
  /\ to_receive' = [to_receive EXCEPT ![s] = 0]
  /\ failed' = failed \ {s}
  /\ UNCHANGED <<mlts, table, xfer, in_charge>>

Loses(s, old, new) == old.n_ver # new.n_ver /\ old.id_srv = s
Gains(s, old, new) == old.n_ver # new.n_ver /\ old.id_srv # s /\ new.id_srv = s

(* Faulty variant: only the old server marks the entry. *)
StateAfterLosing(s, old, new) == IF Loses(s, old, new) THEN 1 ELSE 0

StateAfter(s, old, new) == IF Loses(s, old, new) \/ Gains(s, old, new) THEN 1 ELSE 0

(* One iteration of the comparison.  After the last one the threads run. *)
Compare(s) ==
  /\ lPc[s] = "transfer" /\ scan[s] < NEntry
  /\ LET i   == scan[s]
         old == table[s][i]
         new == mlts[seen[s]][i]
     IN  /\ table' = [table EXCEPT ![s] =
              IF old.n_ver = new.n_ver THEN @
              ELSE mlt_update_entry(@, i, new.id_srv, new.n_ver, StateAfter(s, old, new))]
         /\ to_send' = [to_send EXCEPT ![s] = IF Loses(s, old, new) THEN @ \cup {i} ELSE @]
         /\ to_receive' = [to_receive EXCEPT ![s] = IF Gains(s, old, new) THEN @ + 1 ELSE @]
  /\ scan' = [scan EXCEPT ![s] = @ + 1]
  /\ UNCHANGED <<vars, mlts, seen, failed, xfer, in_charge>>

Running(s) == lPc[s] = "transfer" /\ scan[s] = NEntry

(* pthread_join of both threads, however they ended, and the ack file *)
Join(s) ==
  /\ Transferred(s)
  /\ Running(s) /\ to_send[s] = {} /\ (to_receive[s] = 0 \/ s \in failed)
  /\ UNCHANGED txVars

-----------------------------------------------------------------------------
(* thread_load_sender *)

(* load_args_sort: entries of one destination follow each other, the hosts *)
(* file being read forward only.                                           *)
NextToSend(s) ==
  {e \in to_send[s] : \A f \in to_send[s] : table[s][e].id_srv <= table[s][f].id_srv}

(* Faulty variant: the files are left behind. *)
SendEntryKeeping(s, e) ==
  /\ Running(s) /\ xfer[s] = None /\ e \in NextToSend(s)
  /\ xfer' = [xfer EXCEPT ![s] = [to |-> table[s][e].id_srv, entry |-> e, status |-> "sent"]]
  /\ table' = [table EXCEPT ![s] = mlt_update_state(@, e, 0)]
  /\ UNCHANGED <<vars, mlts, seen, scan, to_send, to_receive, failed, in_charge>>

(* The list is drained, the files deleted, the names sent, and the line is *)
(* up to date.                                                             *)
SendEntry(s, e) ==
  /\ Running(s) /\ xfer[s] = None /\ e \in NextToSend(s)
  /\ in_charge' = [in_charge EXCEPT ![s] = @ \ {e}]
  /\ xfer' = [xfer EXCEPT ![s] = [to |-> table[s][e].id_srv, entry |-> e, status |-> "sent"]]
  /\ table' = [table EXCEPT ![s] = mlt_update_state(@, e, 0)]
  /\ UNCHANGED <<vars, mlts, seen, scan, to_send, to_receive, failed>>

SendAcked(s) ==
  /\ xfer[s] # None /\ xfer[s].status = "done"
  /\ to_send' = [to_send EXCEPT ![s] = @ \ {xfer[s].entry}]
  /\ xfer' = [xfer EXCEPT ![s] = None]
  /\ UNCHANGED <<vars, mlts, seen, table, scan, to_receive, failed, in_charge>>

-----------------------------------------------------------------------------
(* thread_load_receiver *)

Arrived(s, from) ==
  /\ Running(s) /\ to_receive[s] > 0 /\ s \notin failed
  /\ xfer[from] # None /\ xfer[from].to = s /\ xfer[from].status = "sent"

(* Any packet is taken, whatever entries the comparison has found: names   *)
(* are inserted, files created, the line is up to date, "done" is sent.    *)
(* If a file exists the thread ends.                                       *)
ReceiveEntry(s, from) ==
  /\ Arrived(s, from)
  /\ LET e == xfer[from].entry
     IN  IF e \in in_charge[s]
         THEN failed' = failed \cup {s} /\ UNCHANGED <<table, to_receive, xfer, in_charge>>
         ELSE /\ in_charge' = [in_charge EXCEPT ![s] = @ \cup {e}]
              /\ table' = [table EXCEPT ![s] = mlt_update_state(@, e, 0)]
              /\ xfer' = [xfer EXCEPT ![from].status = "done"]
              /\ to_receive' = [to_receive EXCEPT ![s] = @ - 1]
              /\ UNCHANGED failed
  /\ UNCHANGED <<vars, mlts, seen, scan, to_send>>

-----------------------------------------------------------------------------
(* All other steps of IndepEpoch leave tables and threads alone. *)

HandlerStep(s) ==
  /\ distribution_signal1_action(s) \/ Measure(s) \/ PublishEpoch(s) \/ NoNeed(s)
     \/ AskForHelp(s)
  /\ UNCHANGED txVars

ListenerStep(s) ==
  \/ (ReceiveAsk(s) \/ Answer(s)) /\ UNCHANGED txVars
  \/ ReceiveTable(s) \/ Compare(s) \/ Join(s)

SenderStep(s) == (\E e \in Entries : SendEntry(s, e)) \/ SendAcked(s)

ReceiverStep(s) == \E from \in Servers : ReceiveEntry(s, from)

ManagerLoop ==
  \/ /\ (\E s \in Servers : MgrReceive(s) \/ MgrGather(s))
        \/ MgrCompare \/ MgrTest \/ MgrAsk \/ MgrMark
     /\ UNCHANGED txVars
  \/ SendMlt

TxNext ==
  \/ \E s \in Servers : HandlerStep(s) \/ ListenerStep(s) \/ SenderStep(s) \/ ReceiverStep(s)
  \/ ManagerLoop
  \/ (usrHandler2 \/ (\E sig \in Signals : LaunchSignal(sig)) \/ Synchro) /\ UNCHANGED txVars
  \/ Stopped /\ UNCHANGED txVars

TxSpec == TxInit /\ [][TxNext]_allVars

-----------------------------------------------------------------------------
(* While clients run every server has the last table, with no entry in     *)
(* transfer, and the names of exactly the entries that table gives it:     *)
(* the ack files that thread_manager_listener and the handler write tell   *)
(* the launcher that whatever was asked for is done, on every server.      *)
EntriesInPlace ==
  phase = "clients" =>
    \A s \in Servers :
      /\ \A e \in Entries :
           AssignmentOf(table[s][e]) = mlts[Len(mlts)][e] /\ table[s][e].state = 0
      /\ in_charge[s] = {e \in Entries : mlts[Len(mlts)][e].id_srv = s}

-----------------------------------------------------------------------------
(* Where every entry is at each step of a redistribution.                  *)

Last == Len(mlts)

(* The last redistribution moved e from Old(e) to New(e). *)
Moves(e) == Last > 1 /\ mlts[Last - 1][e] # mlts[Last][e]
Old(e)   == mlts[Last - 1][e].id_srv
New(e)   == mlts[Last][e].id_srv

(* The table that line e of server s is at: an entry the listener has not  *)
(* compared yet is one behind.                                             *)
At(s, e) == IF lPc[s] = "transfer" /\ scan[s] <= e THEN seen[s] - 1 ELSE seen[s]

HasTable(s) == sub[s] # <<>> /\ Head(sub[s]).type = "MLT"

(* No server is two tables behind, and a version tells two tables apart. *)
TablesOK ==
  /\ \A e \in Entries : Moves(e) => /\ mlts[Last - 1][e].n_ver # mlts[Last][e].n_ver
                                    /\ Old(e) # New(e)
  /\ \A s \in Servers :
       /\ seen[s] = IF HasTable(s) THEN Last - 1 ELSE Last
       /\ lPc[s] = "transfer" => Last > 1
       /\ \A e \in Entries : AssignmentOf(table[s][e]) = mlts[At(s, e)][e]

(* A sender's list has what its server lost; its packet is of that list. *)
SendersOK ==
  \A s \in Servers :
    /\ to_send[s] # {} => lPc[s] = "transfer"
    /\ \A e \in to_send[s] : Moves(e) /\ Old(e) = s /\ At(s, e) = Last
    /\ xfer[s] # None => xfer[s].entry \in to_send[s] /\ xfer[s].to = New(xfer[s].entry)

(* The packet of e is out, with this status. *)
Out(e, status) ==
  xfer[Old(e)] # None /\ xfer[Old(e)].entry = e /\ xfer[Old(e)].status = status

Delivered(e) == At(Old(e), e) = Last /\ (e \notin to_send[Old(e)] \/ Out(e, "done"))

(* The server that has the names of e; none while they are in the packet. *)
Keeper(e) ==
  IF Moves(e) /\ ~Delivered(e) THEN IF Out(e, "sent") THEN None ELSE Old(e) ELSE New(e)

KeepersOK == \A s \in Servers, e \in Entries : e \in in_charge[s] <=> s = Keeper(e)

(* An entry is in transfer at the old server until its packet is out, at   *)
(* the new one until the packet is answered.                               *)
StatesOK ==
  \A s \in Servers, e \in Entries :
    table[s][e].state = 1 <=> /\ Moves(e) /\ At(s, e) = Last
                              /\ \/ s = Old(e) /\ Keeper(e) = s
                                 \/ s = New(e) /\ ~Delivered(e)

Awaited(s) == {e \in Entries : Moves(e) /\ New(e) = s /\ At(s, e) = Last /\ ~Delivered(e)}

(* to_receive counts what has yet to come, no receiver gives up, and a     *)
(* packet is answered by a server that has compared its entry.             *)
ReceiversOK ==
  /\ failed = {}
  /\ \A s \in Servers :
       /\ to_receive[s] = Cardinality(Awaited(s))
       /\ lPc[s] # "transfer" => to_receive[s] = 0
  /\ \A e \in Entries : Moves(e) /\ Delivered(e) => At(New(e), e) = Last

(* Inductive with EpochInv, as IndepProofs shows. *)
TransferInv ==
  /\ TxTypeOK
  /\ TablesOK
  /\ SendersOK
  /\ KeepersOK
  /\ StatesOK
  /\ ReceiversOK

-----------------------------------------------------------------------------
InService(s, e) == table[s][e].id_srv = s /\ table[s][e].state = 0

Ownership == INSTANCE EntryOwnership WITH
  assigned <- mlts[Len(mlts)],
  holder   <- [e \in Entries |->
                 IF \E s \in Servers : InService(s, e)
                 THEN CHOOSE s \in Servers : InService(s, e) ELSE None]

(* The windowed build hands entries over as EntryOwnership says: whatever  *)
(* the order in which senders and receivers meet, an entry is released     *)
(* (distribution_windowed_s.c:852) before it is taken (line 694), and the  *)
(* manager computes no table before all entries have arrived.              *)
HandsOver == Ownership!SpecMany
=============================================================================
