----------------------------- MODULE DHMetadata -----------------------------
(***************************************************************************)
(* The metadata under launch_all.sh (Barrier): while clients run nothing   *)
(* is transferred, and while entries are transferred no client runs.       *)
(* MetadataInv says where the file and the list element of every key are,  *)
(* at each step of a request and of a transfer; DHMetadataProofs shows it  *)
(* for all values of the constants, and that no thread fails, nothing is   *)
(* lost and every key is where the manager wants it.                       *)
(***************************************************************************)
EXTENDS DHHandover

-----------------------------------------------------------------------------
(* Requests *)

(* What the server has still to do: its request loop is past the file, and *)
(* past the list as well.                                                  *)
Completed(c) == net[c] = "replied" /\ rep[c].flag = "done"
Applied(c)   == Completed(c) \/ (net[c] = "taken" /\ srvPc[req[c].id_srv] = "list")

(* The request on key k, of the one client whose trace holds the key. *)
Busy(k) == net[TraceOf[k]] # "idle" /\ req[TraceOf[k]].key = k
Op(k)   == req[TraceOf[k]].op

(* Whether the file and the list element of k should be there. *)
HasFile(k) ==
  IF ~Busy(k) THEN acked[k] # None
  ELSE /\ Op(k) = "create" => Applied(TraceOf[k])
       /\ Op(k) = "delete" => ~Applied(TraceOf[k])

HasName(k) ==
  IF ~Busy(k) THEN acked[k] # None
  ELSE /\ Op(k) = "create" => Completed(TraceOf[k])
       /\ Op(k) = "delete" => ~Completed(TraceOf[k])

(* A client runs or has exited without a request; it requests its own keys *)
(* only.  A request is taken by the server the last table names; it is     *)
(* never told to wait and never aborted.                                   *)
RequestOK(c) ==
  /\ cPc[c] = "exited" => net[c] = "idle"
  /\ net[c] # "idle" =>
       /\ TraceOf[req[c].key] = c
       /\ req[c].op \in {"create", "update"} => req[c].val # None
  /\ net[c] = "taken" =>
       /\ serving[req[c].id_srv] = c
       /\ srvPc[req[c].id_srv] # "recv"
       /\ srvPc[req[c].id_srv] = "list" => req[c].op \in {"create", "delete"}
       /\ New(Index[req[c].key]) = req[c].id_srv
  /\ net[c] = "replied" => rep[c].flag \in {"done", "update&retry"}

(* Clients run in the launcher's clients phase only. *)
RequestsOK ==
  /\ phase # "clients" => \A c \in Clients : cPc[c] = "exited"
  /\ \A c \in Clients : RequestOK(c)

(* What the traces have created is what was acknowledged, up to the request *)
(* under way.                                                              *)
TraceOK(k) ==
  /\ ~Busy(k) => (k \in made <=> acked[k] # None)
  /\ Busy(k) => /\ k \in made <=> Op(k) # "delete"
                /\ acked[k] # None <=> Op(k) # "create"

TracesOK == \A k \in Keys : TraceOK(k)

-----------------------------------------------------------------------------
(* Names *)

Distinct(names) == \A i, j \in DOMAIN names : names[i] = names[j] => i = j

(* A list of names of entry e, each once *)
NamesOf(e, names) == Distinct(names) /\ \A i \in DOMAIN names : Index[names[i]] = e

NamesAt(s) ==
  /\ \A e \in Entries : NamesOf(e, in_charge_md[s][e])
  /\ NamesOf(sndEntry[s], sndNames[s])
  /\ xfer[s] # None => NamesOf(xfer[s].entry, xfer[s].names)
  /\ NamesOf(rcvEntry[s], rcvNames[s])

NamesOK == \A s \in Servers : NamesAt(s)

(* thread_load_sender pops a list that nobody else empties, and what it    *)
(* has popped travels in one packet.                                       *)
DrainAt(s) ==
  /\ sndNames[s] # << >> => sndPc[s] \in {"check", "pop", "del", "send"}
  /\ sndPc[s] = "pop" => in_charge_md[s][sndEntry[s]] # << >>
  /\ sndPc[s] = "del" => Index[sndPtr[s]] = sndEntry[s]
  /\ sndPc[s] \in {"send", "mark", "ack"} => in_charge_md[s][sndEntry[s]] = << >>
  /\ xfer[s] # None /\ xfer[s].status # "sent" => xfer[s].names = << >>

DrainOK == \A s \in Servers : DrainAt(s)

(* thread_load_receiver creates the file of the name it has just listed.   *)
ArriveAt(s) ==
  /\ rcvNames[s] # << >> => rcvPc[s] \in {"insert", "put"}
  /\ rcvPc[s] = "put" =>
       /\ in_charge_md[s][rcvEntry[s]] # << >>
       /\ Head(in_charge_md[s][rcvEntry[s]]) = Head(rcvNames[s])

ArriveOK == \A s \in Servers : ArriveAt(s)

-----------------------------------------------------------------------------
(* Where the file and the list element of a key are *)

(* The receiver has taken the packet of e. *)
Handed(e) ==
  \/ Given(e)
  \/ xfer[Old(e)] # None /\ xfer[Old(e)].status = "taken" /\ sndEntry[Old(e)] = e

(* The server that holds the names of e, or packs them. *)
Keeper(e) == IF Moves(e) /\ ~Handed(e) THEN Old(e) ELSE New(e)

Listed(s, k)   == Holds(in_charge_md[s][Index[k]], k)
Popped(s, k)   == sndPc[s] = "del" /\ sndPtr[s] = k
Packed(s, k)   == Holds(sndNames[s], k)
Sent(s, k)     == xfer[s] # None /\ Holds(xfer[s].names, k)
Arriving(s, k) == Holds(rcvNames[s], k)

(* While clients run: both at the server the last table names.             *)
RestingOK ==
  phase = "clients" =>
    \A k \in Keys, s \in Servers :
      /\ store[s][k] # None <=> s = New(Index[k]) /\ HasFile(k)
      /\ Listed(s, k) <=> s = New(Index[k]) /\ HasName(k)

(* During a redistribution: an acknowledged key is at the keeper of its    *)
(* entry, as a file that is listed or just popped, or as a name that is    *)
(* packed, sent, or arrived; another key is nowhere.                       *)
Here(s, k) ==
  /\ store[s][k] # None \/ Listed(s, k) => s = Keeper(Index[k])
  /\ Popped(s, k) \/ Packed(s, k) => ~Listed(s, k)
  /\ Popped(s, k) => ~Packed(s, k)
  /\ Arriving(s, k) /\ Listed(s, k) => rcvPc[s] = "put" /\ k = Head(rcvNames[s])
  /\ store[s][k] # None <=> Popped(s, k) \/ (Listed(s, k) /\ ~Arriving(s, k))

Some(s, k) == store[s][k] # None \/ Packed(s, k) \/ Sent(s, k) \/ Arriving(s, k)

Moving(k) ==
  /\ \A s \in Servers : Here(s, k)
  /\ acked[k] # None <=> \E s \in Servers : Some(s, k)

MovingOK == phase # "clients" => \A k \in Keys : Moving(k)

MetadataInv ==
  /\ NoThreadFails
  /\ AnswerIsNewer
  /\ RequestsOK
  /\ TracesOK
  /\ NamesOK
  /\ DrainOK
  /\ ArriveOK
  /\ RestingOK
  /\ MovingOK
=============================================================================
