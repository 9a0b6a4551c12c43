----------------------------- MODULE IndepEpoch -----------------------------
(***************************************************************************)
(* How a redistribution is asked for in the indedh and windowed builds:    *)
(* the handler of SIGUSR2 and thread_manager_listener of a server          *)
(* (src/distribution_indedh_s.c), the manager (src/manager_v2_indedh.c),   *)
(* and the launcher (src/launch_all.sh, protocol_test/synchro.bash).       *)
(*                                                                         *)
(* A server that measures a load outside its thresholds sends a HELP with  *)
(* its epoch; the first one makes the manager ask all servers for their    *)
(* eacl, compute a table and publish it.  Loads are abstracted: a server   *)
(* may find any load out of the thresholds (BalanceWindowed has them), and *)
(* a transfer may end at any time (IndepTransfer has it).                  *)
(***************************************************************************)
EXTENDS Reassignment, FiniteSets

CONSTANTS Signals,    \* signals the launcher may choose for a step
          Askers,     \* servers whose load may be outside the thresholds (bound)
          MaxRounds,  \* steps followed by a signal (bound)
          Settles     \* whether all is quiet again before the launcher goes on

ASSUME EpochAssumption ==
  /\ Signals \subseteq {"USR1", "USR2"}
  /\ Askers \subseteq Servers
  /\ MaxRounds \in Nat
  /\ Settles \in BOOLEAN

VARIABLES
  sEpoch,      \* epoch of each server
  sai,         \* the epoch its SAI list was computed in
  eacl_epoch,  \* the epoch its listener believes the list to be of
  signalled,   \* the signal each server has not handled yet
  hPc,         \* progress of its handler of SIGUSR2
  lPc, needed, \* its listener, and the epoch of the ASK it is answering
  sub,         \* messages published to it
  push,        \* messages it pushed to the manager
  epoch, epoch_processed,  \* of the manager
  mSignalled,  \* the manager has not handled SIGUSR2 yet
  mPc,         \* the manager's line
  helpEpoch,   \* epoch of the HELP it is looking at
  gathered,    \* the eacl messages it counted in this round
  acks,        \* <<server, 0 or 1>>: the ack files
  phase, round \* the launcher

srv  == <<sEpoch, sai, eacl_epoch, signalled, hPc>>
lst  == <<lPc, needed>>
mgr  == <<epoch, epoch_processed, mSignalled, mPc, helpEpoch, gathered>>
lau  == <<phase, round>>
vars == <<srv, lst, sub, push, mgr, acks, lau>>

Epochs == 0 .. MaxRounds

ToManager == [type : {"HELP"}, epoch : Epochs] \cup [type : {"EACL"}, srv : Servers, sai : Epochs]
ToServers == [type : {"ASK"}, epoch : Epochs] \cup [type : {"MLT"}]

TypeOK ==
  /\ sEpoch \in [Servers -> Epochs] /\ sai \in [Servers -> Epochs]
  /\ eacl_epoch \in [Servers -> Epochs]
  /\ signalled \in [Servers -> Signals \cup {"none"}]
  /\ hPc \in [Servers -> {"idle", "measured", "published"}]
  /\ lPc \in [Servers -> {"recv", "answer", "transfer"}] /\ needed \in [Servers -> Epochs]
  /\ sub \in [Servers -> Seq(ToServers)] /\ push \in [Servers -> Seq(ToManager)]
  /\ epoch \in Epochs /\ epoch_processed \in {0, 1} /\ mSignalled \in BOOLEAN
  /\ mPc \in {"recv", "compare", "test", "ask", "gather", "mark"}
  /\ helpEpoch \in Epochs
  /\ gathered \in Seq([srv : Servers, sai : Epochs])
  /\ acks \subseteq Servers \X {0, 1}
  /\ phase \in {"clients", "manager", "synchro", "wait1", "remove"} /\ round \in Epochs

Init ==
  /\ sEpoch = [s \in Servers |-> 0] /\ sai = sEpoch /\ eacl_epoch = sEpoch
  /\ signalled = [s \in Servers |-> "none"] /\ hPc = [s \in Servers |-> "idle"]
  /\ lPc = [s \in Servers |-> "recv"] /\ needed = sEpoch
  /\ sub = [s \in Servers |-> <<>>] /\ push = [s \in Servers |-> <<>>]
  /\ epoch = 0 /\ epoch_processed = 0 /\ mSignalled = FALSE
  /\ mPc = "recv" /\ helpEpoch = 0 /\ gathered = <<>>
  /\ acks = {} /\ phase = "clients" /\ round = 0

-----------------------------------------------------------------------------
(* The handlers of a server.  Its listener runs meanwhile. *)

distribution_signal1_action(s) ==
  /\ signalled[s] = "USR1" /\ hPc[s] = "idle"
  /\ signalled' = [signalled EXCEPT ![s] = "none"]
  /\ acks' = acks \cup {<<s, 0>>}
  /\ UNCHANGED <<sEpoch, sai, eacl_epoch, hPc, lst, sub, push, mgr, lau>>

(* epoch++ and eacl_calculate_sai *)
Measure(s) ==
  /\ signalled[s] = "USR2" /\ hPc[s] = "idle"
  /\ signalled' = [signalled EXCEPT ![s] = "none"]
  /\ sEpoch' = [sEpoch EXCEPT ![s] = @ + 1]
  /\ sai' = [sai EXCEPT ![s] = sEpoch'[s]]
  /\ hPc' = [hPc EXCEPT ![s] = "measured"]
  /\ UNCHANGED <<eacl_epoch, lst, sub, push, mgr, acks, lau>>

PublishEpoch(s) ==
  /\ hPc[s] = "measured"
  /\ eacl_epoch' = [eacl_epoch EXCEPT ![s] = sEpoch[s]]
  /\ hPc' = [hPc EXCEPT ![s] = "published"]
  /\ UNCHANGED <<sEpoch, sai, signalled, lst, sub, push, mgr, acks, lau>>

NoNeed(s) ==
  /\ hPc[s] = "published"
  /\ hPc' = [hPc EXCEPT ![s] = "idle"]
  /\ acks' = acks \cup {<<s, 0>>}
  /\ UNCHANGED <<sEpoch, sai, eacl_epoch, signalled, lst, sub, push, mgr, lau>>

(* Faulty variant: the epoch is off by one. *)
AskForNextEpoch(s) ==
  /\ hPc[s] = "published" /\ s \in Askers
  /\ hPc' = [hPc EXCEPT ![s] = "idle"]
  /\ push' = [push EXCEPT ![s] = Append(@, [type |-> "HELP", epoch |-> sEpoch[s] + 1])]
  /\ UNCHANGED <<sEpoch, sai, eacl_epoch, signalled, lst, sub, mgr, acks, lau>>

AskForHelp(s) ==
  /\ hPc[s] = "published" /\ s \in Askers
  /\ hPc' = [hPc EXCEPT ![s] = "idle"]
  /\ push' = [push EXCEPT ![s] = Append(@, [type |-> "HELP", epoch |-> sEpoch[s]])]
  /\ UNCHANGED <<sEpoch, sai, eacl_epoch, signalled, lst, sub, mgr, acks, lau>>

-----------------------------------------------------------------------------
(* thread_manager_listener *)

(* Faulty variant: an ASK of the current epoch is dropped as well. *)
ReceiveNewerAsk(s) ==
  /\ lPc[s] = "recv" /\ sub[s] # <<>> /\ Head(sub[s]).type = "ASK"
  /\ sub' = [sub EXCEPT ![s] = Tail(@)]
  /\ IF Head(sub[s]).epoch <= eacl_epoch[s]
     THEN UNCHANGED lst
     ELSE /\ lPc' = [lPc EXCEPT ![s] = "answer"]
          /\ needed' = [needed EXCEPT ![s] = Head(sub[s]).epoch]
  /\ UNCHANGED <<srv, push, mgr, acks, lau>>

(* An ASK of an older epoch is dropped. *)
ReceiveAsk(s) ==
  /\ lPc[s] = "recv" /\ sub[s] # <<>> /\ Head(sub[s]).type = "ASK"
  /\ sub' = [sub EXCEPT ![s] = Tail(@)]
  /\ IF Head(sub[s]).epoch < eacl_epoch[s]
     THEN UNCHANGED lst
     ELSE /\ lPc' = [lPc EXCEPT ![s] = "answer"]
          /\ needed' = [needed EXCEPT ![s] = Head(sub[s]).epoch]
  /\ UNCHANGED <<srv, push, mgr, acks, lau>>

(* Faulty variant: the listener answers at once. *)
AnswerAtOnce(s) ==
  /\ lPc[s] = "answer"
  /\ lPc' = [lPc EXCEPT ![s] = "recv"]
  /\ push' = [push EXCEPT ![s] = Append(@, [type |-> "EACL", srv |-> s, sai |-> sai[s]])]
  /\ UNCHANGED <<srv, needed, sub, mgr, acks, lau>>

(* It waits for the handler, then sends the list. *)
Answer(s) ==
  /\ lPc[s] = "answer" /\ eacl_epoch[s] >= needed[s]
  /\ lPc' = [lPc EXCEPT ![s] = "recv"]
  /\ push' = [push EXCEPT ![s] = Append(@, [type |-> "EACL", srv |-> s, sai |-> sai[s]])]
  /\ UNCHANGED <<srv, needed, sub, mgr, acks, lau>>

ReceiveMlt(s) ==
  /\ lPc[s] = "recv" /\ sub[s] # <<>> /\ Head(sub[s]).type = "MLT"
  /\ sub' = [sub EXCEPT ![s] = Tail(@)]
  /\ lPc' = [lPc EXCEPT ![s] = "transfer"]
  /\ UNCHANGED <<srv, needed, push, mgr, acks, lau>>

(* The transfer threads are joined and the ack file is written. *)
Transferred(s) ==
  /\ lPc[s] = "transfer"
  /\ lPc' = [lPc EXCEPT ![s] = "recv"]
  /\ acks' = acks \cup {<<s, 1>>}
  /\ UNCHANGED <<srv, needed, sub, push, mgr, lau>>

-----------------------------------------------------------------------------
(* The manager *)

Publish(msg) == sub' = [s \in Servers |-> Append(sub[s], msg)]

(* Faulty variant: epoch_processed keeps its value. *)
usrHandler2Counting ==
  /\ mSignalled
  /\ mSignalled' = FALSE
  /\ epoch' = epoch + 1
  /\ UNCHANGED <<srv, lst, sub, push, epoch_processed, mPc, helpEpoch, gathered, acks, lau>>

usrHandler2 ==
  /\ mSignalled
  /\ mSignalled' = FALSE
  /\ epoch' = epoch + 1
  /\ epoch_processed' = 0
  /\ UNCHANGED <<srv, lst, sub, push, mPc, helpEpoch, gathered, acks, lau>>

(* Anything but a HELP is dropped. *)
MgrReceive(s) ==
  /\ mPc = "recv" /\ push[s] # <<>>
  /\ push' = [push EXCEPT ![s] = Tail(@)]
  /\ IF Head(push[s]).type = "HELP"
     THEN mPc' = "compare" /\ helpEpoch' = Head(push[s]).epoch
     ELSE UNCHANGED <<mPc, helpEpoch>>
  /\ UNCHANGED <<srv, lst, sub, epoch, epoch_processed, mSignalled, gathered, acks, lau>>

(* A HELP of an older epoch is dropped; a newer one waits for the handler. *)
MgrCompare ==
  /\ mPc = "compare"
  /\ mPc' = IF helpEpoch < epoch THEN "recv" ELSE "test"
  /\ UNCHANGED <<srv, lst, sub, push, epoch, epoch_processed, mSignalled, helpEpoch, gathered,
                 acks, lau>>

(* Faulty variant: every HELP is served. *)
MgrTestNothing ==
  /\ mPc = "test" /\ epoch >= helpEpoch
  /\ mPc' = "ask"
  /\ UNCHANGED <<srv, lst, sub, push, epoch, epoch_processed, mSignalled, helpEpoch, gathered,
                 acks, lau>>

(* The first HELP of an epoch is served, the others are dropped. *)
MgrTest ==
  /\ mPc = "test" /\ epoch >= helpEpoch
  /\ mPc' = IF epoch_processed = 1 THEN "recv" ELSE "ask"
  /\ UNCHANGED <<srv, lst, sub, push, epoch, epoch_processed, mSignalled, helpEpoch, gathered,
                 acks, lau>>

MgrAsk ==
  /\ mPc = "ask"
  /\ mPc' = "gather"
  /\ Publish([type |-> "ASK", epoch |-> epoch])
  /\ gathered' = <<>>
  /\ UNCHANGED <<srv, lst, push, epoch, epoch_processed, mSignalled, helpEpoch, acks, lau>>

(* Answers are counted, whoever sent them; other messages are dropped. *)
MgrGather(s) ==
  /\ mPc = "gather" /\ Len(gathered) < Cardinality(Servers)
  /\ push[s] # <<>>
  /\ push' = [push EXCEPT ![s] = Tail(@)]
  /\ LET msg == Head(push[s])
     IN  gathered' = IF msg.type = "EACL"
                     THEN Append(gathered, [srv |-> msg.srv, sai |-> msg.sai]) ELSE gathered
  /\ UNCHANGED <<srv, lst, sub, epoch, epoch_processed, mSignalled, mPc, helpEpoch, acks, lau>>

MgrSend ==
  /\ mPc = "gather" /\ Len(gathered) = Cardinality(Servers)
  /\ mPc' = "mark"
  /\ Publish([type |-> "MLT"])
  /\ UNCHANGED <<srv, lst, push, epoch, epoch_processed, mSignalled, helpEpoch, gathered,
                 acks, lau>>

MgrMark ==
  /\ mPc = "mark"
  /\ mPc' = "recv"
  /\ epoch_processed' = 1
  /\ UNCHANGED <<srv, lst, sub, push, epoch, mSignalled, helpEpoch, gathered, acks, lau>>

-----------------------------------------------------------------------------
(* The launcher *)

LaunchSignal(sig) ==
  /\ phase = "clients" /\ round < MaxRounds
  /\ phase' = IF sig = "USR2" THEN "manager" ELSE "synchro"
  /\ round' = round + 1
  /\ signalled' = [s \in Servers |-> sig]
  /\ UNCHANGED <<sEpoch, sai, eacl_epoch, hPc, lst, sub, push, mgr, acks>>

LaunchManager ==
  /\ phase = "manager"
  /\ phase' = "synchro"
  /\ mSignalled' = TRUE
  /\ UNCHANGED <<srv, lst, sub, push, epoch, epoch_processed, mPc, helpEpoch, gathered, acks,
                 round>>

Has(ack) == {s \in Servers : <<s, ack>> \in acks}

(* The first loop of synchro.bash, and its look for any USR-1. *)
SynchroAny ==
  /\ phase = "synchro"
  /\ Has(0) \cup Has(1) = Servers
  /\ phase' = IF Has(1) # {} THEN "wait1" ELSE "remove"
  /\ UNCHANGED <<srv, lst, sub, push, mgr, acks, round>>

(* Faulty variant: one USR-1 is enough. *)
wait_first ==
  /\ phase = "wait1"
  /\ phase' = "remove"
  /\ UNCHANGED <<srv, lst, sub, push, mgr, acks, round>>

wait_1 ==
  /\ phase = "wait1"
  /\ Has(1) = Servers
  /\ phase' = "remove"
  /\ UNCHANGED <<srv, lst, sub, push, mgr, acks, round>>

(* No handler runs and the manager has nothing to look at. *)
Settled ==
  /\ \A s \in Servers : hPc[s] = "idle" /\ push[s] = <<>>
  /\ mPc = "recv" /\ ~mSignalled

(* rm *USR-*: the next step starts.  Signals sent before have been delivered. *)
LaunchRemove ==
  /\ phase = "remove"
  /\ Settles => Settled
  /\ ~mSignalled
  /\ phase' = "clients"
  /\ acks' = {}
  /\ UNCHANGED <<srv, lst, sub, push, mgr, round>>

Stopped == phase = "clients" /\ round = MaxRounds /\ UNCHANGED vars

ServerStep(s) ==
  \/ distribution_signal1_action(s)
  \/ Measure(s) \/ PublishEpoch(s) \/ NoNeed(s) \/ AskForHelp(s)
  \/ ReceiveAsk(s) \/ Answer(s) \/ ReceiveMlt(s) \/ Transferred(s)

ManagerStep ==
  \/ usrHandler2
  \/ \E s \in Servers : MgrReceive(s) \/ MgrGather(s)
  \/ MgrCompare \/ MgrTest \/ MgrAsk \/ MgrSend \/ MgrMark

Synchro == LaunchManager \/ SynchroAny \/ wait_1 \/ LaunchRemove

Next ==
  \/ \E s \in Servers : ServerStep(s)
  \/ ManagerStep
  \/ \E sig \in Signals : LaunchSignal(sig)
  \/ Synchro
  \/ Stopped

(* Every process goes on as long as it can. A handler interrupts the thread  *)
(* it runs in, so it gets to run whatever that thread does; sockets deliver. *)
Fairness ==
  /\ \A s \in Servers :
       /\ WF_vars(distribution_signal1_action(s))
       /\ WF_vars(Measure(s)) /\ WF_vars(PublishEpoch(s))
       /\ WF_vars(NoNeed(s) \/ AskForHelp(s))
       /\ WF_vars(ReceiveAsk(s) \/ Answer(s) \/ ReceiveMlt(s) \/ Transferred(s))
  /\ WF_vars(usrHandler2)
  /\ WF_vars((\E s \in Servers : MgrReceive(s) \/ MgrGather(s))
             \/ MgrCompare \/ MgrTest \/ MgrAsk \/ MgrSend \/ MgrMark)
  /\ WF_vars(Synchro)

Spec     == Init /\ [][Next]_vars
FairSpec == Spec /\ Fairness

-----------------------------------------------------------------------------
(* Safety. *)

(* The table is computed from one answer of every server, each with the SAI  *)
(* of the epoch the redistribution is for: the epoch the listener compares   *)
(* is published after the list it stands for.                                *)
EaclsOfThisEpoch ==
  mPc = "gather" /\ Len(gathered) = Cardinality(Servers) =>
    /\ {gathered[i].srv : i \in DOMAIN gathered} = Servers
    /\ \A i \in DOMAIN gathered : gathered[i].sai = epoch

(* A listener never drops an ASK, for the manager counts the answers. *)
NoAskIgnored ==
  [][\A s \in Servers :
       Len(sub'[s]) < Len(sub[s]) /\ Head(sub[s]).type = "ASK" => lPc'[s] = "answer"]_vars

(* The clients run while nothing is asked, published or transferred: the ack *)
(* files tell that a redistribution is over, or that nobody wants one.       *)
QuietWhileClientsRun ==
  phase = "clients" => \A s \in Servers : sub[s] = <<>> /\ lPc[s] = "recv"

(* One redistribution is enough for an epoch, however many servers ask: no   *)
(* server has been asked for its eacl of this epoch before.                  *)
OneAskPerEpoch ==
  [][mPc = "ask" /\ mPc' = "gather" => \A s \in Servers : needed[s] < epoch]_vars

-----------------------------------------------------------------------------
(* Where everything is in a step, if all settles between steps.             *)

(* The epoch the step is about: the launcher signals the manager last, so    *)
(* the servers, and what they send, may be one ahead of it.                  *)
Target == IF phase = "manager" \/ mSignalled THEN epoch + 1 ELSE epoch

(* A server counts its signal, measures, and tells its listener, in this     *)
(* order; with an ack file of the handler it is done.                        *)
HandlersOK ==
  \A s \in Servers :
    /\ sEpoch[s] = IF signalled[s] = "USR2" THEN Target - 1 ELSE Target
    /\ sai[s] = sEpoch[s]
    /\ eacl_epoch[s] = IF hPc[s] = "measured" THEN sEpoch[s] - 1 ELSE sEpoch[s]
    /\ hPc[s] # "idle" => signalled[s] = "none" /\ Target > 0
    /\ <<s, 0>> \in acks => signalled[s] = "none" /\ hPc[s] = "idle"
    /\ (\E t \in Servers : signalled[t] = "USR1") =>
         hPc[s] = "idle" /\ (signalled[s] = "USR1" \/ <<s, 0>> \in acks)

(* The handler of s has ended without an ack file. *)
Asked(s) == signalled[s] = "none" /\ hPc[s] = "idle" /\ <<s, 0>> \notin acks

SomeoneAsked == \E s \in Servers : Asked(s)

HasEacl(s) == \E i \in DOMAIN push[s] : push[s][i].type = "EACL"

MessagesOK ==
  \A s \in Servers : \A i \in DOMAIN push[s] :
    /\ push[s][i].type = "HELP" => push[s][i].epoch = Target /\ Target > 0 /\ Asked(s)
    /\ push[s][i].type = "EACL" =>
         /\ push[s][i].srv = s /\ push[s][i].sai = Target
         /\ mPc = "gather" /\ sub[s] = <<>> /\ lPc[s] = "recv" /\ eacl_epoch[s] = Target
         /\ \A j \in DOMAIN push[s] : push[s][j].type = "EACL" => j = i

ManagerOK ==
  /\ Target <= round
  /\ phase = "manager" => ~mSignalled
  /\ mPc # "recv" => SomeoneAsked /\ Target > 0
  /\ mPc \in {"compare", "test"} => helpEpoch = Target
  /\ mPc \in {"ask", "gather", "mark"} => epoch = Target /\ epoch_processed = 0

(* The table of this epoch is published. *)
Sent == mPc = "mark" \/ (epoch = Target /\ epoch_processed = 1)

(* A listener has nothing to do, or the ASK of this epoch, or its table. *)
ListenersOK ==
  \A s \in Servers :
    /\ needed[s] <= epoch
    /\ needed[s] = Target => Target = 0 \/ mPc = "gather" \/ Sent
    /\ \/ sub[s] = <<>> /\ lPc[s] = "recv"
       \/ mPc = "gather" /\ sub[s] = <<[type |-> "ASK", epoch |-> epoch]>> /\ lPc[s] = "recv"
       \/ mPc = "gather" /\ sub[s] = <<>> /\ lPc[s] = "answer" /\ needed[s] = epoch
       \/ /\ Sent /\ SomeoneAsked /\ eacl_epoch[s] = Target /\ <<s, 1>> \notin acks
          /\ \/ sub[s] = <<[type |-> "MLT"]>> /\ lPc[s] = "recv"
             \/ sub[s] = <<>> /\ lPc[s] = "transfer"

(* The servers whose answer is counted, each once. *)
Counted == {gathered[i].srv : i \in DOMAIN gathered}

GatherOK ==
  mPc = "gather" =>
    /\ \A i \in DOMAIN gathered : gathered[i].sai = epoch
    /\ Cardinality(Counted) = Len(gathered)
    /\ \A s \in Counted :
         sub[s] = <<>> /\ lPc[s] = "recv" /\ ~HasEacl(s) /\ eacl_epoch[s] = Target

AcksOK ==
  /\ \A s \in Has(1) : Sent /\ SomeoneAsked /\ eacl_epoch[s] = Target
  /\ phase = "remove" => Has(0) = Servers \/ Has(1) = Servers
  /\ phase = "clients" =>
       /\ acks = {} /\ ~mSignalled /\ mPc = "recv"
       /\ \A s \in Servers :
            /\ signalled[s] = "none" /\ hPc[s] = "idle" /\ push[s] = <<>>
            /\ sub[s] = <<>> /\ lPc[s] = "recv"

(* Inductive: a step is over on every server, and forgotten by the manager,  *)
(* when the next one begins; in between each message and each thread is      *)
(* where its epoch says.                                                     *)
EpochInv ==
  /\ TypeOK
  /\ HandlersOK
  /\ MessagesOK
  /\ ManagerOK
  /\ ListenersOK
  /\ GatherOK
  /\ AcksOK

-----------------------------------------------------------------------------
(* What comments of the code say. *)

(* The ack file "to indicate the server does not need a redistribution"      *)
(* (distribution_indedh_s.c:1059) is about the step the launcher waits for:  *)
(* the server has handled its signal.                                        *)
AckIsOfThisStep == phase \in {"synchro", "wait1"} => \A s \in Has(0) : signalled[s] = "none"

(* "Wait for every server to create either vmXUSR-0 or vmXUSR-1"             *)
(* (synchro.bash:32): it happens, and the next step of the traces starts.    *)
RoundCompletes == phase # "clients" ~> phase = "clients"
=============================================================================
