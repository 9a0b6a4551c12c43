---------------------------- MODULE DHChannels ----------------------------
(***************************************************************************)
(* What the processes of the dynamic-hashing (DH) build share: the zmq     *)
(* sockets, the signals and the acknowledgement files.                     *)
(*                                                                         *)
(*  - net, req, rep   one REQ/REP exchange per client: a client has at     *)
(*                    most one outstanding request (client_request sends   *)
(*                    and then blocks in zstr_recv);                       *)
(*  - pull            number of SAI messages waiting at the manager;       *)
(*  - mlts            every MLT the manager has published, oldest first;   *)
(*                    a subscriber is an index into it.  mlts[1] is the    *)
(*                    table all processes compute for themselves at start; *)
(*  - xfer            one REQ/REP exchange per sending server;             *)
(*  - pending         the signal sent to a server and not yet handled;     *)
(*  - acks            the vmXUSR-0 / vmXUSR-1 files of each server.        *)
(***************************************************************************)
EXTENDS Mlt

CONSTANTS Clients,       \* client processes
          Keys,          \* metadata names
          Index,         \* MurmurHash3(key) % N_entry
          Values,        \* contents a client may write
          DefaultValue,  \* "a word", what thread_load_receiver writes
          Ops,           \* the request types the traces hold
          None           \* no file, no message, no thread-local value

AllOps == {"create", "get", "update", "delete"}

File    == Values \cup {None}
Request == [op : AllOps, key : Keys, val : File, id_srv : Servers, entryVersion : Nat]
Flags   == {"done", "update&retry", "wait&retry", "aborted"}
Reply   == [flag : Flags, new : Assignment \cup {None}, val : File]
Packet  == [status : {"sent", "taken", "done"}, to : Servers, entry : Entries,
            names : Seq(Keys)]

ASSUME DataAssumption ==
  /\ Index \in [Keys -> Entries]
  /\ DefaultValue \in Values
  /\ Ops \subseteq AllOps
  /\ None \notin Values \cup Keys \cup Clients \cup Servers
  /\ None \notin Packet

VARIABLES net, req, rep, pull, mlts, xfer, pending, acks

clientChannel == <<net, req, rep>>
mgrChannel    == <<pull, mlts>>
hostChannel   == <<pending, acks>>

ChannelsTypeOK ==
  /\ net \in [Clients -> {"idle", "sent", "taken", "replied"}]
  /\ req \in [Clients -> Request \cup {None}]
  /\ rep \in [Clients -> Reply \cup {None}]
  /\ pull \in Nat
  /\ mlts \in Seq([Entries -> Assignment])
  /\ Len(mlts) >= 1
  /\ xfer \in [Servers -> Packet \cup {None}]
  /\ pending \in [Servers -> {"none", "USR1", "USR2"}]
  /\ acks \in [Servers -> SUBSET {"USR-0", "USR-1"}]

ChannelsInit ==
  /\ net = [c \in Clients |-> "idle"]
  /\ req = [c \in Clients |-> None]
  /\ rep = [c \in Clients |-> None]
  /\ pull = 0
  /\ mlts = << [e \in Entries |-> AssignmentOf(mlt_init[e])] >>
  /\ xfer = [s \in Servers |-> None]
  /\ pending = [s \in Servers |-> "none"]
  /\ acks = [s \in Servers |-> {}]

(* The server answers client c. *)
Answer(c, flag, new, val) ==
  /\ net' = [net EXCEPT ![c] = "replied"]
  /\ rep' = [rep EXCEPT ![c] = [flag |-> flag, new |-> new, val |-> val]]
  /\ UNCHANGED req
=============================================================================
