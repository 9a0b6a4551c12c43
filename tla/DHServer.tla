----------------------------- MODULE DHServer -----------------------------
(***************************************************************************)
(* The main thread of a DH server: the request loop of src/server.c with   *)
(* distribution_post_receive / distribution_pre_send of                    *)
(* src/distribution_dh_s.c, the storage of src/generic_storage.c, and the  *)
(* two signal handlers.                                                    *)
(*                                                                         *)
(* A request takes up to three steps, because the table, the files and the *)
(* list of names are shared with the transfer threads and are touched one  *)
(* after the other: check the table, act on the file, update the list.     *)
(* The handlers run between any two of them.                               *)
(***************************************************************************)
EXTENDS DHChannels

VARIABLES table,         \* table[s]: the mlt of server s
          store,         \* store[s][k]: the file /dev/shm/k of server s, or None
          in_charge_md,  \* in_charge_md[s][e]: the names s holds for entry e
          up,            \* servers whose process runs
          srvPc,         \* where the main thread is
          serving        \* the client whose request it holds, or None

mainVars   == <<srvPc, serving>>
sharedVars == <<table, store, in_charge_md>>
srvVars    == <<table, store, in_charge_md, up, srvPc, serving>>

SrvTypeOK ==
  /\ table \in [Servers -> [Entries -> MltLine]]
  /\ store \in [Servers -> [Keys -> File]]
  /\ in_charge_md \in [Servers -> [Entries -> Seq(Keys)]]
  /\ up \in SUBSET Servers
  /\ srvPc \in [Servers -> {"recv", "store", "list"}]
  /\ serving \in [Servers -> Clients \cup {None}]

(* distribution_init: the modulo table, no file, empty lists *)
SrvInit ==
  /\ table = [s \in Servers |-> mlt_init]
  /\ store = [s \in Servers |-> [k \in Keys |-> None]]
  /\ in_charge_md = [s \in Servers |-> [e \in Entries |-> << >>]]
  /\ up = Servers
  /\ srvPc = [s \in Servers |-> "recv"]
  /\ serving = [s \in Servers |-> None]

-----------------------------------------------------------------------------
(* distribution_post_receive: a line in transfer asks the client to wait,  *)
(* another version sends the server's own line back, and the request is    *)
(* accepted otherwise.  Nothing compares id_srv with id_srv_self.          *)

(* Faulty variants: no version test, and a test that redirects everyone. *)
AcceptsAnyVersion(line, ver) == line.state = 0
RedirectsAlways(line, ver)   == line.state = 0

InTransfer(line)      == line.state # 0
Accepts(line, ver)    == line.state = 0 /\ line.n_ver = ver
Redirects(line, ver)  == line.state = 0 /\ line.n_ver # ver

LineFor(s, c) == table[s][Index[req[c].key]]

Receives(s, c) ==
  /\ s \in up
  /\ srvPc[s] = "recv"
  /\ net[c] = "sent"
  /\ req[c].id_srv = s

SrvWaitRetry(s, c) ==
  /\ Receives(s, c)
  /\ InTransfer(LineFor(s, c))
  /\ Answer(c, "wait&retry", None, None)
  /\ UNCHANGED <<srvVars, mgrChannel, xfer, hostChannel>>

SrvUpdateRetry(s, c) ==
  /\ Receives(s, c)
  /\ Redirects(LineFor(s, c), req[c].entryVersion)
  /\ Answer(c, "update&retry", AssignmentOf(LineFor(s, c)), None)
  /\ UNCHANGED <<srvVars, mgrChannel, xfer, hostChannel>>

SrvAccept(s, c) ==
  /\ Receives(s, c)
  /\ Accepts(LineFor(s, c), req[c].entryVersion)
  /\ net' = [net EXCEPT ![c] = "taken"]
  /\ srvPc' = [srvPc EXCEPT ![s] = "store"]
  /\ serving' = [serving EXCEPT ![s] = c]
  /\ UNCHANGED <<sharedVars, up, req, rep, mgrChannel, xfer, hostChannel>>

-----------------------------------------------------------------------------
(* The file operation of the accepted request (the generic_ functions), on *)
(* the server's own /dev/shm.  A failure answers "aborted" at once; a get  *)
(* or an update needs no list work, so its answer follows directly.        *)
Current(s) == req[serving[s]]

Processes(s, op) ==
  /\ s \in up
  /\ srvPc[s] = "store"
  /\ Current(s).op = op

Finish(s, flag, val) ==
  /\ Answer(serving[s], flag, None, val)
  /\ srvPc' = [srvPc EXCEPT ![s] = "recv"]
  /\ serving' = [serving EXCEPT ![s] = None]

SetFile(s, k, v) == store' = [store EXCEPT ![s][k] = v]

Exists(s, k) == store[s][k] # None

ToList(s) ==
  /\ srvPc' = [srvPc EXCEPT ![s] = "list"]
  /\ UNCHANGED <<serving, clientChannel>>

(* open(O_EXCL | O_CREAT) fails on an existing file *)
SrvPut(s) ==
  /\ Processes(s, "create")
  /\ \/ /\ ~Exists(s, Current(s).key)
        /\ SetFile(s, Current(s).key, Current(s).val)
        /\ ToList(s)
     \/ /\ Exists(s, Current(s).key)
        /\ Finish(s, "aborted", None)
        /\ UNCHANGED store
  /\ UNCHANGED <<table, in_charge_md, up, mgrChannel, xfer, hostChannel>>

(* open(O_TRUNC) without O_CREAT fails on a missing file *)
SrvUpdate(s) ==
  /\ Processes(s, "update")
  /\ \/ /\ Exists(s, Current(s).key)
        /\ SetFile(s, Current(s).key, Current(s).val)
        /\ Finish(s, "done", None)
     \/ /\ ~Exists(s, Current(s).key)
        /\ Finish(s, "aborted", None)
        /\ UNCHANGED store
  /\ UNCHANGED <<table, in_charge_md, up, mgrChannel, xfer, hostChannel>>

SrvDelete(s) ==
  /\ Processes(s, "delete")
  /\ \/ /\ Exists(s, Current(s).key)
        /\ SetFile(s, Current(s).key, None)
        /\ ToList(s)
     \/ /\ ~Exists(s, Current(s).key)
        /\ Finish(s, "aborted", None)
        /\ UNCHANGED store
  /\ UNCHANGED <<table, in_charge_md, up, mgrChannel, xfer, hostChannel>>

(* generic_get of a missing file gives NULL, and json_object_new_string    *)
(* dereferences it: the server process ends.                               *)
SrvGet(s) ==
  /\ Processes(s, "get")
  /\ \/ /\ Exists(s, Current(s).key)
        /\ Finish(s, "done", store[s][Current(s).key])
        /\ UNCHANGED up
     \/ /\ ~Exists(s, Current(s).key)
        /\ up' = up \ {s}
        /\ UNCHANGED <<mainVars, clientChannel>>
  /\ UNCHANGED <<sharedVars, mgrChannel, xfer, hostChannel>>

-----------------------------------------------------------------------------
(* distribution_pre_send: the name enters or leaves the list of its entry  *)
Listing(s, op) ==
  /\ s \in up
  /\ srvPc[s] = "list"
  /\ Current(s).op = op

SrvInsert(s) ==
  /\ Listing(s, "create")
  /\ LET k == Current(s).key IN
       in_charge_md' =
         [in_charge_md EXCEPT ![s][Index[k]] = md_entry_insert(@, k)]
  /\ Finish(s, "done", None)
  /\ UNCHANGED <<table, store, up, mgrChannel, xfer, hostChannel>>

SrvUnlink(s) ==
  /\ Listing(s, "delete")
  /\ LET k    == Current(s).key
         list == in_charge_md[s][Index[k]]
     IN  \/ /\ InList(list, k)
            /\ in_charge_md' = [in_charge_md EXCEPT
                                  ![s][Index[k]] = md_entry_search_md_name(@, k)]
            /\ Finish(s, "done", None)
         \/ /\ ~InList(list, k)
            /\ Finish(s, "aborted", None)
            /\ UNCHANGED in_charge_md
  /\ UNCHANGED <<table, store, up, mgrChannel, xfer, hostChannel>>

-----------------------------------------------------------------------------
(* usr1_handler and distribution_signal1_action: measure and acknowledge. *)
usr1_handler(s) ==
  /\ s \in up
  /\ pending[s] = "USR1"
  /\ pending' = [pending EXCEPT ![s] = "none"]
  /\ acks' = [acks EXCEPT ![s] = @ \cup {"USR-0"}]
  /\ UNCHANGED <<srvVars, clientChannel, mgrChannel, xfer>>

(* Faulty variant: it acknowledges, too, as usr1_handler does. *)
usr2_handlerAcking(s) ==
  /\ s \in up
  /\ pending[s] = "USR2"
  /\ pending' = [pending EXCEPT ![s] = "none"]
  /\ pull' = pull + 1
  /\ acks' = [acks EXCEPT ![s] = @ \cup {"USR-0"}]
  /\ UNCHANGED <<srvVars, clientChannel, mlts, xfer>>

(* usr2_handler and distribution_signal2_action: the SAI goes to the manager. *)
usr2_handler(s) ==
  /\ s \in up
  /\ pending[s] = "USR2"
  /\ pending' = [pending EXCEPT ![s] = "none"]
  /\ pull' = pull + 1
  /\ UNCHANGED <<srvVars, clientChannel, mlts, xfer, acks>>

MainNext(s) ==
  \/ \E c \in Clients :
       SrvWaitRetry(s, c) \/ SrvUpdateRetry(s, c) \/ SrvAccept(s, c)
  \/ SrvPut(s) \/ SrvUpdate(s) \/ SrvDelete(s) \/ SrvGet(s)
  \/ SrvInsert(s) \/ SrvUnlink(s)

HandlerNext(s) == usr1_handler(s) \/ usr2_handler(s)
=============================================================================
