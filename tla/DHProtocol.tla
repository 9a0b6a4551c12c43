---------------------------- MODULE DHProtocol ----------------------------
(***************************************************************************)
(* The DH build as a whole: clients, servers with their four threads, the  *)
(* manager, and the launcher script (src/launch_all.sh with                *)
(* protocol_test/synchro.bash) that runs the steps of the traces and       *)
(* signals the servers and the manager between them.                       *)
(*                                                                         *)
(* Barrier = TRUE is what launch_all.sh does: every client of a step has   *)
(* exited before the signals are sent, and the next step starts after all  *)
(* acknowledgement files are there.  Barrier = FALSE lets clients run      *)
(* during a redistribution, the situation the transfer state of the table  *)
(* and the "wait&retry" answer exist for.                                  *)
(***************************************************************************)
EXTENDS DHManager, DHTransfer, DHClient

CONSTANTS Barrier,    \* whether clients stop during a redistribution
          Signals,    \* signals the launcher may choose for a step
          MaxRounds   \* bound: number of steps followed by a signal

ASSUME LauncherAssumption ==
  /\ Barrier \in BOOLEAN
  /\ Signals \subseteq {"USR1", "USR2"}
  /\ MaxRounds \in Nat

VARIABLES phase,  \* the launcher's line: clients, manager or synchro
          round   \* number of steps signalled so far

launchVars == <<phase, round>>

vars == <<clientChannel, mgrChannel, xfer, hostChannel, mgrVars, srvVars, thrVars,
          cliVars, launchVars>>

LaunchTypeOK ==
  /\ phase \in {"clients", "manager", "synchro"}
  /\ round \in 0 .. MaxRounds

Init ==
  /\ ChannelsInit
  /\ MgrInit
  /\ SrvInit
  /\ ThrInit
  /\ CliInit
  /\ phase = "clients"
  /\ round = 0

-----------------------------------------------------------------------------
(* The launcher *)

StepEnded == Barrier => \A c \in Clients : cPc[c] = "exited"

(* kill -s SIGUSR2 (redistribute) or SIGUSR1 (measure only) on every server *)
LaunchSignal(sig) ==
  /\ phase = "clients"
  /\ round < MaxRounds
  /\ StepEnded
  /\ pending' = [s \in Servers |-> sig]
  /\ round' = round + 1
  /\ phase' = IF sig = "USR2" THEN "manager" ELSE "synchro"
  /\ UNCHANGED <<clientChannel, mgrChannel, xfer, acks, mgrVars, srvVars, thrVars,
                 cliVars>>

(* kill -s SIGUSR2 on the manager, once all servers were signalled *)
LaunchManager ==
  /\ phase = "manager"
  /\ usrHandler2
  /\ phase' = "synchro"
  /\ UNCHANGED <<clientChannel, mgrChannel, xfer, hostChannel, srvVars, thrVars,
                 cliVars, round>>

(* synchro.bash: one ack file per server, and if one is a USR-1 all are *)
AllAcked ==
  /\ \A s \in Servers : acks[s] # {}
  /\ (\E s \in Servers : "USR-1" \in acks[s]) => \A s \in Servers : "USR-1" \in acks[s]

(* synchro.bash returns, the ack files are removed, the next step starts. *)
LaunchStep ==
  /\ phase = "synchro"
  /\ AllAcked
  /\ acks' = [s \in Servers |-> {}]
  /\ phase' = "clients"
  /\ CliRestart
  /\ UNCHANGED <<clientChannel, mgrChannel, xfer, pending, mgrVars, srvVars, thrVars,
                 round>>

(* The last step is over: the script has nothing left to do. *)
Finished ==
  /\ phase = "clients"
  /\ round = MaxRounds
  /\ \A c \in Clients : cPc[c] = "exited"
  /\ mgrPc = "sleep"
  /\ UNCHANGED vars

-----------------------------------------------------------------------------
MgrStep == MgrNext /\ UNCHANGED <<clientChannel, xfer, hostChannel, srvVars, thrVars,
                                  cliVars, launchVars>>

MainStep(s) == MainNext(s) /\ UNCHANGED <<mgrVars, thrVars, cliVars, launchVars>>

HandlerStep(s) == HandlerNext(s) /\ UNCHANGED <<mgrVars, thrVars, cliVars, launchVars>>

UpdaterStep(s) == UpdaterNext(s) /\ UNCHANGED <<mgrVars, cliVars, launchVars>>

SenderStep(s) == SenderNext(s) /\ UNCHANGED <<mgrVars, cliVars, launchVars>>

ReceiverStep(s) == ReceiverNext(s) /\ UNCHANGED <<mgrVars, cliVars, launchVars>>

CliStep(c) == CliNext(c) /\ UNCHANGED <<mgrChannel, xfer, hostChannel, mgrVars, srvVars,
                                        thrVars, launchVars>>

LaunchNext ==
  \/ \E sig \in Signals : LaunchSignal(sig)
  \/ LaunchManager
  \/ LaunchStep

Next ==
  \/ LaunchNext
  \/ MgrStep
  \/ \E s \in Servers : MainStep(s) \/ HandlerStep(s)
  \/ \E s \in Servers : UpdaterStep(s) \/ SenderStep(s) \/ ReceiverStep(s)
  \/ \E c \in Clients : CliStep(c)
  \/ Finished

Spec == Init /\ [][Next]_vars

(* Every thread that can go on eventually does: each is an OS thread, and a *)
(* pending signal is delivered.  Nothing is assumed of the choices made.    *)
Fairness ==
  /\ WF_vars(LaunchNext)
  /\ WF_vars(MgrStep)
  /\ \A s \in Servers :
       /\ WF_vars(MainStep(s))
       /\ WF_vars(HandlerStep(s))
       /\ WF_vars(UpdaterStep(s))
       /\ WF_vars(SenderStep(s))
       /\ WF_vars(ReceiverStep(s))
  /\ \A c \in Clients : WF_vars(CliStep(c))

FairSpec == Spec /\ Fairness

-----------------------------------------------------------------------------
TypeOK ==
  /\ ChannelsTypeOK
  /\ MgrTypeOK
  /\ SrvTypeOK
  /\ ThrTypeOK
  /\ CliTypeOK
  /\ LaunchTypeOK
-----------------------------------------------------------------------------
(* What holds between the processes at any step *)

(* The content of an exchange is there in the states where it is read. *)
ExchangesOK ==
  \A c \in Clients :
    /\ net[c] # "idle" => req[c] \in Request
    /\ net[c] = "replied" =>
         rep[c] \in Reply /\ (rep[c].flag = "update&retry" => rep[c].new \in Assignment)

(* A main thread between two steps of a request holds a request addressed  *)
(* to it that nobody else answers.                                         *)
MainOK ==
  \A s \in Servers : srvPc[s] # "recv" =>
    /\ serving[s] \in Clients
    /\ net[serving[s]] = "taken"
    /\ req[serving[s]].id_srv = s

(* Senders and receivers run only while the updater joins them; a sender   *)
(* waits with its packet out, and a receiver works on a packet it took and *)
(* whose sender is still waiting for it.                                   *)
ThreadsOK ==
  \A s \in Servers :
    /\ updPc[s] # "join" => sndPc[s] \in Ended \cup {"off"} /\ rcvPc[s] \in Ended \cup {"off"}
    /\ sndPc[s] = "del" => sndPtr[s] \in Keys
    /\ sndPc[s] \in {"mark", "ack"} <=> xfer[s] # None
    /\ rcvPc[s] \in {"insert", "put", "state", "reply"} =>
         /\ to_receive[s] > 0
         /\ xfer[rcvFrom[s]] # None
         /\ xfer[rcvFrom[s]].status = "taken"
         /\ xfer[rcvFrom[s]].to = s
    /\ rcvPc[s] = "put" => rcvNames[s] # << >>

(* b is a or a later assignment of the same entry *)
Follows(a, b) == a.n_ver <= b.n_ver /\ (a.n_ver = b.n_ver => a = b)

(* The published tables follow each other, from the one every process      *)
(* computes for itself, and the manager's follows them.                    *)
HistoryOK ==
  /\ mlts[1] = FreshTable
  /\ \A i, j \in 1 .. Len(mlts) : i <= j =>
       \A e \in Entries : Follows(mlts[i][e], mlts[j][e])
  /\ \A e \in Entries : Follows(mlts[Len(mlts)][e], mgrTable[e])
  /\ mgrPc # "send" => mgrTable = mlts[Len(mlts)]

(* The published table that line e of server s is at: an updater that has  *)
(* not compared the entry yet is one behind the table it received.         *)
At(s, e) == IF updPc[s] = "scan" /\ scan[s] <= e THEN seen[s] - 1 ELSE seen[s]

TablesOK ==
  \A s \in Servers :
    /\ seen[s] \in 1 .. Len(mlts)
    /\ updPc[s] = "scan" => seen[s] > 1
    /\ \A e \in Entries : AssignmentOf(table[s][e]) = mlts[At(s, e)][e]

(* Clients, requests and answers only carry published assignments. *)
Published(log, e, a) == \E i \in 1 .. Len(log) : log[i][e] = a

Stamp(r) == [id_srv |-> r.id_srv, n_ver |-> r.entryVersion]

ClientsOK ==
  \A c \in Clients :
    /\ \A e \in Entries : Published(mlts, e, cTable[c][e])
    /\ net[c] # "idle" => Published(mlts, Index[req[c].key], Stamp(req[c]))
    /\ net[c] = "replied" /\ rep[c].flag = "update&retry"
         => Published(mlts, Index[req[c].key], rep[c].new)

(* Inductive: with it the versions of an entry agree everywhere, and       *)
(* DHProtocolProofs shows it for all values of the constants.              *)
IndInv ==
  /\ TypeOK
  /\ ExchangesOK
  /\ MainOK
  /\ ThreadsOK
  /\ HistoryOK
  /\ TablesOK
  /\ ClientsOK

-----------------------------------------------------------------------------
(* Agreement on versions *)

(* Every assignment of entry e that some process holds or some message     *)
(* carries.                                                                *)
Known(e) ==
  {mlts[i][e] : i \in 1 .. Len(mlts)}
    \cup {mgrTable[e]}
    \cup {AssignmentOf(table[s][e]) : s \in Servers}
    \cup {cTable[c][e] : c \in Clients}
    \cup {Stamp(req[c]) : c \in {d \in Clients : net[d] # "idle" /\ Index[req[d].key] = e}}
    \cup {rep[c].new :
             c \in {d \in Clients : /\ net[d] = "replied"
                                    /\ rep[d].flag = "update&retry"
                                    /\ Index[req[d].key] = e}}

(* A version number of an entry means one server, for every process and    *)
(* every message in flight: comparing the versions alone, which is all     *)
(* distribution_post_receive does, is then enough to compare assignments.  *)
VersionAgreement ==
  \A e \in Entries : \A a, b \in Known(e) : a.n_ver = b.n_ver => a.id_srv = b.id_srv

(* A server that accepts a request is the server its own table names for   *)
(* the entry, although distribution_post_receive never compares id_srv     *)
(* with id_srv_self.                                                       *)
AcceptedByOwner ==
  [][\A s \in Servers : srvPc[s] = "recv" /\ srvPc'[s] = "store"
       => table[s][Index[req'[serving'[s]].key]].id_srv = s]_vars

(* The versions in a server's table never go back: tables are processed in *)
(* the order they were published, and a transfer only clears the state.    *)
ServerVersionsGrow ==
  [][\A s \in Servers, e \in Entries : table'[s][e].n_ver >= table[s][e].n_ver]_vars

(* The line a server sends back to a client is newer than the client's:    *)
(* true between redistributions, when every server has the last table.     *)
AnswerIsNewer ==
  \A c \in Clients :
    net[c] = "replied" /\ rep[c].flag = "update&retry"
      => rep[c].new.n_ver > req[c].entryVersion

-----------------------------------------------------------------------------
(* Hand-over of entries *)

Serves(s, e) == s \in up /\ table[s][e].id_srv = s /\ table[s][e].state = 0

(* At most one server accepts requests for an entry: the old server stops  *)
(* in thread_mlt_updater, before its sender can give the entry away, and   *)
(* the new one starts in thread_load_receiver, after it has every name.    *)
SingleServing ==
  \A e \in Entries : \A s, t \in Servers : Serves(s, e) /\ Serves(t, e) => s = t

(* When every server has acknowledged a redistribution, it is over: all    *)
(* tables are the published one with no entry in transfer, and no packet   *)
(* waits for an answer.  It holds although pthread_join ignores how the    *)
(* transfer threads ended, because the peer of a failed thread never acks. *)
SettledWhenAcked ==
  (\A s \in Servers : "USR-1" \in acks[s]) =>
    /\ \A s \in Servers, e \in Entries :
         table[s][e] = [id_srv |-> mlts[Len(mlts)][e].id_srv,
                        n_ver |-> mlts[Len(mlts)][e].n_ver, state |-> 0]
    /\ \A s \in Servers : xfer[s] = None

(* No transfer thread gives up and no server process ends: every file a    *)
(* sender deletes is there, every file a receiver creates is not.          *)
NoThreadFails ==
  /\ up = Servers
  /\ \A s \in Servers : sndPc[s] # "failed" /\ rcvPc[s] # "failed"

-----------------------------------------------------------------------------
(* The metadata *)

(* No request on key k is on its way: what was acknowledged is what the    *)
(* servers should hold.                                                    *)
Settled(k) == \A c \in Clients : net[c] # "idle" => req[c].key # k

Holds(names, k) == \E i \in DOMAIN names : names[i] = k

(* Where a key is: the files, and the names that senders have deleted and  *)
(* receivers have not created yet.                                         *)
Places(k) ==
  {<<"file", s>> : s \in {t \in Servers : store[t][k] # None}}
    \cup {<<"sender", s>> : s \in {t \in Servers : Holds(sndNames[t], k)}}
    \cup {<<"packet", s>> :
             s \in {t \in Servers : xfer[t] # None /\ Holds(xfer[t].names, k)}}
    \cup {<<"receiver", s>> : s \in {t \in Servers : Holds(rcvNames[t], k)}}

(* Nothing is lost or doubled by a redistribution: an acknowledged key is  *)
(* at exactly one place at every moment, a deleted one at none.            *)
Conserved ==
  \A k \in Keys : Settled(k) =>
    Cardinality(Places(k)) = IF acked[k] = None THEN 0 ELSE 1

(* Between redistributions each server has the file and the list element,  *)
(* once, of exactly the acknowledged keys whose entry the manager gives it.*)
Placed ==
  phase = "clients" =>
    \A k \in Keys, s \in Servers : Settled(k) =>
      LET here  == acked[k] # None /\ mgrTable[Index[k]].id_srv = s
          names == in_charge_md[s][Index[k]]
      IN  /\ (store[s][k] # None) <=> here
          /\ Cardinality({i \in DOMAIN names : names[i] = k}) = IF here THEN 1 ELSE 0

-----------------------------------------------------------------------------
(* Requests *)

(* A request answered "wait&retry" is sent again. *)
WaitIsRetried ==
  [][\A c \in Clients : net[c] = "replied" /\ rep[c].flag = "wait&retry"
       => net'[c] # "idle"]_vars

(* Every request ends, although create is repeated for as long as the      *)
(* entry is in transfer or a server is behind the client.                  *)
RequestsEnd == \A c \in Clients : net[c] = "sent" ~> net[c] = "idle"

(* A redistribution, once the manager is signalled, ends and the next step *)
(* of the traces starts.                                                   *)
RoundCompletes == phase = "synchro" ~> phase = "clients"
=============================================================================
