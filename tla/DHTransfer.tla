---------------------------- MODULE DHTransfer ----------------------------
(***************************************************************************)
(* The transfer threads of a DH server (src/distribution_dh_s.c):          *)
(*   - thread_mlt_updater receives a table, compares it with its own entry *)
(*     by entry, starts a sender and a receiver and joins both;            *)
(*   - thread_load_sender drains the list of each entry the server lost,   *)
(*     deleting the files, and sends the names to the new server;          *)
(*   - thread_load_receiver inserts the names it gets and creates the files*)
(* They run concurrently with the main thread (DHServer) and share table,  *)
(* store and in_charge_md with it.                                         *)
(***************************************************************************)
EXTENDS DHServer, FiniteSets

VARIABLES seen,        \* number of published tables the updater has received
          updPc, scan, \* the updater and the entry it compares next
          to_send,     \* entries the sender still has to send
          to_receive,  \* number of packets the receiver still waits for
          sndPc, sndEntry, sndPtr, sndNames,  \* thread_load_sender
          rcvPc, rcvFrom, rcvEntry, rcvNames  \* thread_load_receiver

updVars == <<seen, updPc, scan>>
sndVars == <<sndPc, sndEntry, sndPtr, sndNames>>
rcvVars == <<rcvPc, rcvFrom, rcvEntry, rcvNames>>
thrVars == <<seen, updPc, scan, to_send, to_receive, sndPc, sndEntry, sndPtr,
             sndNames, rcvPc, rcvFrom, rcvEntry, rcvNames>>

SndPcs == {"off", "next", "check", "pop", "del", "send", "mark", "ack", "done", "failed"}
RcvPcs == {"off", "recv", "insert", "put", "state", "reply", "done", "failed"}
Ended  == {"done", "failed"}

ThrTypeOK ==
  /\ seen \in [Servers -> Nat]
  /\ updPc \in [Servers -> {"wait", "scan", "join"}]
  /\ scan \in [Servers -> 0 .. NEntry]
  /\ to_send \in [Servers -> SUBSET Entries]
  /\ to_receive \in [Servers -> Nat]
  /\ sndPc \in [Servers -> SndPcs]
  /\ sndEntry \in [Servers -> Entries]
  /\ sndPtr \in [Servers -> Keys \cup {None}]
  /\ sndNames \in [Servers -> Seq(Keys)]
  /\ rcvPc \in [Servers -> RcvPcs]
  /\ rcvFrom \in [Servers -> Servers]
  /\ rcvEntry \in [Servers -> Entries]
  /\ rcvNames \in [Servers -> Seq(Keys)]

ThrInit ==
  /\ seen = [s \in Servers |-> 1]
  /\ updPc = [s \in Servers |-> "wait"]
  /\ scan = [s \in Servers |-> 0]
  /\ to_send = [s \in Servers |-> {}]
  /\ to_receive = [s \in Servers |-> 0]
  /\ sndPc = [s \in Servers |-> "off"]
  /\ sndEntry = [s \in Servers |-> 0]
  /\ sndPtr = [s \in Servers |-> None]
  /\ sndNames = [s \in Servers |-> << >>]
  /\ rcvPc = [s \in Servers |-> "off"]
  /\ rcvFrom = [s \in Servers |-> 0]
  /\ rcvEntry = [s \in Servers |-> 0]
  /\ rcvNames = [s \in Servers |-> << >>]

Elsewhere == <<clientChannel, mgrChannel, pending>>

-----------------------------------------------------------------------------
(* thread_mlt_updater *)

(* zmsg_recv(sub): the next table in publication order; to-do lists are empty *)
UpdReceive(s) ==
  /\ s \in up
  /\ updPc[s] = "wait"
  /\ seen[s] < Len(mlts)
  /\ seen' = [seen EXCEPT ![s] = @ + 1]
  /\ scan' = [scan EXCEPT ![s] = 0]
  /\ to_send' = [to_send EXCEPT ![s] = {}]
  /\ to_receive' = [to_receive EXCEPT ![s] = 0]
  /\ updPc' = [updPc EXCEPT ![s] = "scan"]
  /\ UNCHANGED <<srvVars, sndVars, rcvVars, xfer, acks, Elsewhere>>

(* Faulty variant: only the old server marks the entry. *)
StateAfterLosing(s, old, new) == IF s = old THEN 1 ELSE 0

(* The state an entry takes: in transfer for its old and its new server. *)
StateAfter(s, old, new) == IF s \in {old, new} THEN 1 ELSE 0

UpdCompare(s) ==
  /\ s \in up
  /\ updPc[s] = "scan"
  /\ scan[s] < NEntry
  /\ LET i   == scan[s]
         old == table[s][i]
         new == mlts[seen[s]][i]
     IN  \/ /\ old.n_ver # new.n_ver
            /\ table' = [table EXCEPT ![s] =
                 mlt_update_entry(@, i, new.id_srv, new.n_ver,
                                  StateAfter(s, old.id_srv, new.id_srv))]
            /\ to_send' = IF old.id_srv = s
                          THEN [to_send EXCEPT ![s] = @ \cup {i}]
                          ELSE to_send
            /\ to_receive' = IF old.id_srv # s /\ new.id_srv = s
                             THEN [to_receive EXCEPT ![s] = @ + 1]
                             ELSE to_receive
         \/ /\ old.n_ver = new.n_ver
            /\ UNCHANGED <<table, to_send, to_receive>>
  /\ scan' = [scan EXCEPT ![s] = @ + 1]
  /\ UNCHANGED <<store, in_charge_md, up, mainVars, seen, updPc, sndVars, rcvVars,
                 xfer, acks, Elsewhere>>

(* pthread_create of both threads *)
UpdSpawn(s) ==
  /\ s \in up
  /\ updPc[s] = "scan"
  /\ scan[s] = NEntry
  /\ sndPc' = [sndPc EXCEPT ![s] = "next"]
  /\ rcvPc' = [rcvPc EXCEPT ![s] = "recv"]
  /\ updPc' = [updPc EXCEPT ![s] = "join"]
  /\ UNCHANGED <<srvVars, seen, scan, to_send, to_receive, sndEntry, sndPtr, sndNames,
                 rcvFrom, rcvEntry, rcvNames, xfer, acks, Elsewhere>>

(* Faulty variant: the sender is not joined. *)
UpdJoinReceiver(s) ==
  /\ s \in up
  /\ updPc[s] = "join"
  /\ rcvPc[s] \in Ended
  /\ acks' = [acks EXCEPT ![s] = @ \cup {"USR-1"}]
  /\ updPc' = [updPc EXCEPT ![s] = "wait"]
  /\ UNCHANGED <<srvVars, seen, scan, to_send, to_receive, sndVars, rcvVars, xfer,
                 Elsewhere>>

(* pthread_join returns whatever way the threads ended; the ack file follows. *)
UpdJoin(s) ==
  /\ s \in up
  /\ updPc[s] = "join"
  /\ sndPc[s] \in Ended
  /\ rcvPc[s] \in Ended
  /\ acks' = [acks EXCEPT ![s] = @ \cup {"USR-1"}]
  /\ updPc' = [updPc EXCEPT ![s] = "wait"]
  /\ UNCHANGED <<srvVars, seen, scan, to_send, to_receive, sndVars, rcvVars, xfer,
                 Elsewhere>>

-----------------------------------------------------------------------------
(* thread_load_sender *)

SndAt(s, pc) == s \in up /\ sndPc[s] = pc

SndGoto(s, pc) == sndPc' = [sndPc EXCEPT ![s] = pc]

SndElsewhere == <<updVars, to_receive, rcvVars, mainVars, acks, Elsewhere>>

(* load_args_sort: the entries go by increasing destination, because the    *)
(* hosts file is read forward only; quicksort leaves ties in any order.     *)
NextToSend(s) ==
  {e \in to_send[s] :
     \A f \in to_send[s] : table[s][e].id_srv <= table[s][f].id_srv}

SndNext(s) ==
  /\ SndAt(s, "next")
  /\ \/ /\ to_send[s] = {}
        /\ SndGoto(s, "done")
        /\ UNCHANGED sndEntry
     \/ \E e \in NextToSend(s) :
          /\ sndEntry' = [sndEntry EXCEPT ![s] = e]
          /\ SndGoto(s, "check")
  /\ UNCHANGED <<srvVars, to_send, sndPtr, sndNames, xfer, updVars, to_receive,
                 rcvVars, acks, Elsewhere>>

(* the loop condition reads the head without the lock *)
SndCheck(s) ==
  /\ SndAt(s, "check")
  /\ IF in_charge_md[s][sndEntry[s]] = << >> THEN SndGoto(s, "send")
                                             ELSE SndGoto(s, "pop")
  /\ UNCHANGED <<srvVars, to_send, sndEntry, sndPtr, sndNames, xfer, updVars,
                 to_receive, rcvVars, acks, Elsewhere>>

(* md_entry_pop under the lock; a NULL element is dereferenced next *)
SndPop(s) ==
  /\ SndAt(s, "pop")
  /\ LET list == in_charge_md[s][sndEntry[s]] IN
       \/ /\ list # << >>
          /\ sndPtr' = [sndPtr EXCEPT ![s] = Head(list)]
          /\ in_charge_md' = [in_charge_md EXCEPT ![s][sndEntry[s]] = Tail(@)]
          /\ SndGoto(s, "del")
          /\ UNCHANGED up
       \/ /\ list = << >>
          /\ up' = up \ {s}
          /\ UNCHANGED <<in_charge_md, sndPtr, sndPc>>
  /\ UNCHANGED <<table, store, to_send, sndEntry, sndNames, xfer, SndElsewhere>>

(* Faulty variant: the file is left behind. *)
SndDelKeeping(s) ==
  /\ SndAt(s, "del")
  /\ sndNames' = [sndNames EXCEPT ![s] = Append(@, sndPtr[s])]
  /\ sndPtr' = [sndPtr EXCEPT ![s] = None]
  /\ SndGoto(s, "check")
  /\ UNCHANGED <<sharedVars, up, to_send, sndEntry, xfer, SndElsewhere>>

(* generic_del, then the name joins the packet; a missing file ends the thread *)
SndDel(s) ==
  /\ SndAt(s, "del")
  /\ \/ /\ Exists(s, sndPtr[s])
        /\ SetFile(s, sndPtr[s], None)
        /\ sndNames' = [sndNames EXCEPT ![s] = Append(@, sndPtr[s])]
        /\ SndGoto(s, "check")
     \/ /\ ~Exists(s, sndPtr[s])
        /\ SndGoto(s, "failed")
        /\ UNCHANGED <<store, sndNames>>
  /\ sndPtr' = [sndPtr EXCEPT ![s] = None]
  /\ UNCHANGED <<table, in_charge_md, up, to_send, sndEntry, xfer, SndElsewhere>>

SndSend(s) ==
  /\ SndAt(s, "send")
  /\ xfer' = [xfer EXCEPT ![s] =
       [status |-> "sent", to |-> table[s][sndEntry[s]].id_srv,
        entry |-> sndEntry[s], names |-> sndNames[s]]]
  /\ sndNames' = [sndNames EXCEPT ![s] = << >>]
  /\ SndGoto(s, "mark")
  /\ UNCHANGED <<sharedVars, up, to_send, sndEntry, sndPtr, SndElsewhere>>

(* The line is up to date again before the receiver has answered. *)
SndMark(s) ==
  /\ SndAt(s, "mark")
  /\ table' = [table EXCEPT ![s] = mlt_update_state(@, sndEntry[s], 0)]
  /\ SndGoto(s, "ack")
  /\ UNCHANGED <<store, in_charge_md, up, to_send, sndEntry, sndPtr, sndNames, xfer,
                 SndElsewhere>>

SndAck(s) ==
  /\ SndAt(s, "ack")
  /\ xfer[s].status = "done"
  /\ xfer' = [xfer EXCEPT ![s] = None]
  /\ to_send' = [to_send EXCEPT ![s] = @ \ {sndEntry[s]}]
  /\ SndGoto(s, "next")
  /\ UNCHANGED <<sharedVars, up, sndEntry, sndPtr, sndNames, SndElsewhere>>

SenderNext(s) ==
  SndNext(s) \/ SndCheck(s) \/ SndPop(s) \/ SndDel(s) \/ SndSend(s) \/ SndMark(s)
  \/ SndAck(s)

-----------------------------------------------------------------------------
(* thread_load_receiver *)

RcvAt(s, pc) == s \in up /\ rcvPc[s] = pc

RcvGoto(s, pc) == rcvPc' = [rcvPc EXCEPT ![s] = pc]

RcvElsewhere == <<updVars, to_send, sndVars, mainVars, up, acks, Elsewhere>>

RcvFinished(s) ==
  /\ RcvAt(s, "recv")
  /\ to_receive[s] = 0
  /\ RcvGoto(s, "done")
  /\ UNCHANGED <<sharedVars, to_receive, rcvFrom, rcvEntry, rcvNames, xfer, RcvElsewhere>>

(* Any packet addressed to this server is taken: neither its entry nor its *)
(* sender is compared with the to-do list, only the number counts.         *)
RcvReceive(s, from) ==
  /\ RcvAt(s, "recv")
  /\ to_receive[s] > 0
  /\ xfer[from] # None
  /\ xfer[from].status = "sent"
  /\ xfer[from].to = s
  /\ rcvFrom' = [rcvFrom EXCEPT ![s] = from]
  /\ rcvEntry' = [rcvEntry EXCEPT ![s] = xfer[from].entry]
  /\ rcvNames' = [rcvNames EXCEPT ![s] = xfer[from].names]
  /\ xfer' = [xfer EXCEPT ![from].status = "taken", ![from].names = << >>]
  /\ RcvGoto(s, "insert")
  /\ UNCHANGED <<sharedVars, to_receive, RcvElsewhere>>

(* The next name enters the list, or every name is done. *)
RcvInsert(s) ==
  /\ RcvAt(s, "insert")
  /\ \/ /\ rcvNames[s] # << >>
        /\ in_charge_md' = [in_charge_md EXCEPT
             ![s][rcvEntry[s]] = md_entry_insert(@, Head(rcvNames[s]))]
        /\ RcvGoto(s, "put")
     \/ /\ rcvNames[s] = << >>
        /\ RcvGoto(s, "state")
        /\ UNCHANGED in_charge_md
  /\ UNCHANGED <<table, store, to_receive, rcvFrom, rcvEntry, rcvNames, xfer,
                 RcvElsewhere>>

(* generic_put of the name now at the head of the list, whichever it is,   *)
(* with a fixed content; an existing file ends the thread.                 *)
RcvPut(s) ==
  /\ RcvAt(s, "put")
  /\ in_charge_md[s][rcvEntry[s]] # << >>
  /\ LET k == Head(in_charge_md[s][rcvEntry[s]]) IN
       \/ /\ ~Exists(s, k)
          /\ SetFile(s, k, DefaultValue)
          /\ RcvGoto(s, "insert")
       \/ /\ Exists(s, k)
          /\ RcvGoto(s, "failed")
          /\ UNCHANGED store
  /\ rcvNames' = [rcvNames EXCEPT ![s] = Tail(@)]
  /\ UNCHANGED <<table, in_charge_md, to_receive, rcvFrom, rcvEntry, xfer, RcvElsewhere>>

(* Faulty variant: the line of the received entry stays in transfer. *)
RcvStateForgotten(s) ==
  /\ RcvAt(s, "state")
  /\ RcvGoto(s, "reply")
  /\ UNCHANGED <<sharedVars, to_receive, rcvFrom, rcvEntry, rcvNames, xfer, RcvElsewhere>>

RcvState(s) ==
  /\ RcvAt(s, "state")
  /\ table' = [table EXCEPT ![s] = mlt_update_state(@, rcvEntry[s], 0)]
  /\ RcvGoto(s, "reply")
  /\ UNCHANGED <<store, in_charge_md, to_receive, rcvFrom, rcvEntry, rcvNames, xfer,
                 RcvElsewhere>>

(* Faulty variant: no "done" is sent. *)
RcvReplySilently(s) ==
  /\ RcvAt(s, "reply")
  /\ to_receive' = [to_receive EXCEPT ![s] = @ - 1]
  /\ RcvGoto(s, "recv")
  /\ UNCHANGED <<sharedVars, rcvFrom, rcvEntry, rcvNames, xfer, RcvElsewhere>>

RcvReply(s) ==
  /\ RcvAt(s, "reply")
  /\ xfer' = [xfer EXCEPT ![rcvFrom[s]].status = "done"]
  /\ to_receive' = [to_receive EXCEPT ![s] = @ - 1]
  /\ RcvGoto(s, "recv")
  /\ UNCHANGED <<sharedVars, rcvFrom, rcvEntry, rcvNames, RcvElsewhere>>

ReceiverNext(s) ==
  \/ RcvFinished(s)
  \/ \E from \in Servers : RcvReceive(s, from)
  \/ RcvInsert(s) \/ RcvPut(s) \/ RcvState(s) \/ RcvReply(s)

UpdaterNext(s) == UpdReceive(s) \/ UpdCompare(s) \/ UpdSpawn(s) \/ UpdJoin(s)
=============================================================================
