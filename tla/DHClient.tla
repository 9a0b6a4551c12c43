----------------------------- MODULE DHClient -----------------------------
(***************************************************************************)
(* A client process: the trace loop of src/client.c over src/client_api.c  *)
(* and src/distribution_dh_c.c.  It keeps its own table, sends each        *)
(* request to the server its table names, and learns newer lines from the  *)
(* "update&retry" answers.  A process handles one step of the trace; the   *)
(* next step is a new process with the initial table.                      *)
(***************************************************************************)
EXTENDS DHChannels

CONSTANTS TraceOf,  \* the client whose trace file holds a key (spread.py)
          MaxReq    \* bound: requests of the trace file of one client

ASSUME TraceAssumption == TraceOf \in [Keys -> Clients] /\ MaxReq \in Nat

VARIABLES cTable,   \* the client's mlt (its state column is always 0)
          cPc,      \* whether the process of this step still runs
          issued,   \* trace lines started, over all steps
          made,     \* keys the traces have created and not deleted
          acked     \* history: the content of each key, as acknowledged

cliVars == <<cTable, cPc, issued, made, acked>>

CliTypeOK ==
  /\ cTable \in [Clients -> [Entries -> Assignment]]
  /\ cPc \in [Clients -> {"running", "exited"}]
  /\ issued \in [Clients -> 0 .. MaxReq]
  /\ made \in SUBSET Keys
  /\ acked \in [Keys -> File]

FreshTable == [e \in Entries |-> AssignmentOf(mlt_init[e])]

CliInit ==
  /\ cTable = [c \in Clients |-> FreshTable]
  /\ cPc = [c \in Clients |-> "running"]
  /\ issued = [c \in Clients |-> 0]
  /\ made = {}
  /\ acked = [k \in Keys |-> None]

(* distribution_pre_send: address and stamp the request from a table *)
Addressed(t, op, k, v) ==
  [op |-> op, key |-> k, val |-> v,
   id_srv |-> t[Index[k]].id_srv, entryVersion |-> t[Index[k]].n_ver]

(* Traces create a key before any other use of it and do not create it     *)
(* twice (setup.py writes the creations a real trace lacks).               *)
InTrace(op, k) == IF op = "create" THEN k \notin made ELSE k \in made

Contents(op) == IF op \in {"create", "update"} THEN Values ELSE {None}

CliIssue(c, op, k) ==
  /\ cPc[c] = "running"
  /\ net[c] = "idle"
  /\ issued[c] < MaxReq
  /\ TraceOf[k] = c
  /\ InTrace(op, k)
  /\ \E v \in Contents(op) :
       req' = [req EXCEPT ![c] = Addressed(cTable[c], op, k, v)]
  /\ net' = [net EXCEPT ![c] = "sent"]
  /\ issued' = [issued EXCEPT ![c] = @ + 1]
  /\ made' = CASE op = "create" -> made \cup {k}
               [] op = "delete" -> made \ {k}
               [] OTHER -> made
  /\ UNCHANGED <<rep, cTable, cPc, acked>>

(* distribution_post_receive of the client: take the line of the answer *)
Learn(t, e, answer) ==
  IF answer.flag = "update&retry" THEN [t EXCEPT ![e] = answer.new] ELSE t

(* The trace loop repeats a create on -EAGAIN and -EALREADY, an update and *)
(* a delete on -EAGAIN only.  A get is repeated on -EAGAIN too, but        *)
(* client_request_read answers -1 when the reply has no "getValue".        *)
Repeats(op, flag) ==
  \/ flag = "update&retry" /\ op \in {"create", "update", "delete"}
  \/ flag = "wait&retry" /\ op = "create"

Acknowledge(op, k, v) ==
  acked' = CASE op \in {"create", "update"} -> [acked EXCEPT ![k] = v]
             [] op = "delete" -> [acked EXCEPT ![k] = None]
             [] OTHER -> acked

CliReply(c) ==
  /\ net[c] = "replied"
  /\ LET r == req[c]
         t == Learn(cTable[c], Index[r.key], rep[c])
     IN  /\ cTable' = [cTable EXCEPT ![c] = t]
         /\ \/ /\ Repeats(r.op, rep[c].flag)
               /\ req' = [req EXCEPT ![c] = Addressed(t, r.op, r.key, r.val)]
               /\ net' = [net EXCEPT ![c] = "sent"]
            \/ /\ ~Repeats(r.op, rep[c].flag)
               /\ req' = [req EXCEPT ![c] = None]
               /\ net' = [net EXCEPT ![c] = "idle"]
         /\ IF rep[c].flag = "done" THEN Acknowledge(r.op, r.key, r.val)
                                    ELSE UNCHANGED acked
  /\ rep' = [rep EXCEPT ![c] = None]
  /\ UNCHANGED <<cPc, issued, made>>

(* the end of the trace file *)
CliExit(c) ==
  /\ cPc[c] = "running"
  /\ net[c] = "idle"
  /\ cPc' = [cPc EXCEPT ![c] = "exited"]
  /\ UNCHANGED <<clientChannel, cTable, issued, made, acked>>

(* client_launch.sh starts the process of the next step. *)
CliRestart ==
  /\ cPc' = [c \in Clients |-> "running"]
  /\ cTable' = [c \in Clients |-> IF cPc[c] = "exited" THEN FreshTable ELSE cTable[c]]
  /\ UNCHANGED <<issued, made, acked>>

CliNext(c) ==
  \/ \E op \in Ops, k \in Keys : CliIssue(c, op, k)
  \/ CliReply(c)
  \/ CliExit(c)
=============================================================================
