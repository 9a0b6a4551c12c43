-------------------------- MODULE DHMetadataProofs --------------------------
(***************************************************************************)
(* MetadataInv is an invariant of the DH build under launch_all.sh         *)
(* (Barrier), for every number of servers, entries, clients, keys,         *)
(* requests and rounds.  In the clients phase only the main threads and    *)
(* the clients step, in the others only the transfer threads and the       *)
(* manager: the two halves are shown one after the other, on top of        *)
(* IndInv and HandoverInv.                                                 *)
(***************************************************************************)
EXTENDS DHMetadata, DHProtocolProofs

-----------------------------------------------------------------------------
(* Lists of names *)

(* The list without names. *)
LEMMA EmptyNames ==
  /\ \A k : ~Holds(<< >>, k)
  /\ \A e : NamesOf(e, << >>)
  BY DEF Holds, NamesOf, Distinct

(* md_entry_insert of a name that is not in the list. *)
LEMMA InsertNames ==
  ASSUME NEW S, NEW list \in Seq(S), NEW n \in S
  PROVE  /\ md_entry_insert(list, n) # << >> /\ Head(md_entry_insert(list, n)) = n
         /\ \A k : Holds(md_entry_insert(list, n), k) <=> k = n \/ Holds(list, k)
         /\ \A e : NamesOf(e, list) /\ ~Holds(list, n) /\ Index[n] = e
                     => NamesOf(e, md_entry_insert(list, n))
  <1>. DEFINE new == <<n>> \o list
  <1>1. /\ new \in Seq(S) /\ Len(new) = Len(list) + 1 /\ Len(list) \in Nat /\ new[1] = n
        /\ \A i \in 1 .. Len(list) : new[i + 1] = list[i]
        /\ DOMAIN new = 1 .. Len(list) + 1 /\ DOMAIN list = 1 .. Len(list)
    OBVIOUS
  <1>. HIDE DEF new
  <1>2. \A i \in DOMAIN new : i = 1 \/ (i - 1 \in DOMAIN list /\ new[i] = list[i - 1])
    <2>. SUFFICES ASSUME NEW i \in 1 .. Len(list) + 1, i # 1
                  PROVE  i - 1 \in 1 .. Len(list) /\ new[i] = list[i - 1]
      BY <1>1
    <2>1. i - 1 \in 1 .. Len(list) /\ (i - 1) + 1 = i
      BY <1>1
    <2>. QED
      BY <1>1, <2>1
  <1>3. new # << >> /\ Head(new) = n
    BY <1>1
  <1>4. \A k : Holds(new, k) <=> k = n \/ Holds(list, k)
    <2>1. ASSUME NEW k, Holds(new, k) PROVE k = n \/ Holds(list, k)
      BY <1>1, <1>2, <2>1 DEF Holds
    <2>2. Holds(new, n)
      BY <1>1 DEF Holds
    <2>3. ASSUME NEW k, Holds(list, k) PROVE Holds(new, k)
      <3>1. PICK i \in 1 .. Len(list) : list[i] = k
        BY <1>1, <2>3 DEF Holds
      <3>2. i + 1 \in DOMAIN new /\ new[i + 1] = k
        BY <1>1, <3>1
      <3>. QED
        BY <3>2 DEF Holds
    <2>. QED
      BY <2>1, <2>2, <2>3
  <1>5. ASSUME NEW e, NamesOf(e, list), ~Holds(list, n), Index[n] = e PROVE NamesOf(e, new)
    <2>1. \A i \in DOMAIN new : Index[new[i]] = e
      BY <1>1, <1>2, <1>5 DEF NamesOf
    <2>2. ASSUME NEW i \in DOMAIN new, NEW j \in DOMAIN new, new[i] = new[j] PROVE i = j
      <3>1. \A l \in DOMAIN list : list[l] # n
        BY <1>5 DEF Holds
      <3>2. CASE i = 1 \/ j = 1
        BY <1>1, <1>2, <2>2, <3>1, <3>2
      <3>3. CASE i # 1 /\ j # 1
        <4>1. i - 1 = j - 1
          BY <1>2, <1>5, <2>2, <3>3 DEF NamesOf, Distinct
        <4>. QED
          BY <1>1, <4>1
      <3>. QED
        BY <3>2, <3>3
    <2>. QED
      BY <2>1, <2>2 DEF NamesOf, Distinct
  <1>. QED
    BY <1>3, <1>4, <1>5 DEF new, md_entry_insert

(* md_entry_pop, and the sender's append to its packet. *)
LEMMA TailNames ==
  ASSUME NEW S, NEW list \in Seq(S), list # << >>, NEW e, NamesOf(e, list)
  PROVE  /\ Head(list) \in S /\ Index[Head(list)] = e /\ Tail(list) \in Seq(S)
         /\ \A k : Holds(list, k) <=> k = Head(list) \/ Holds(Tail(list), k)
         /\ ~Holds(Tail(list), Head(list))
         /\ NamesOf(e, Tail(list))
  <1>. DEFINE t == Tail(list)
  <1>1. /\ t \in Seq(S) /\ Len(list) \in Nat /\ Len(list) >= 1 /\ Len(t) = Len(list) - 1
        /\ \A i \in 1 .. Len(t) : t[i] = list[i + 1]
        /\ Head(list) = list[1] /\ Head(list) \in S
        /\ DOMAIN list = 1 .. Len(list) /\ DOMAIN t = 1 .. Len(list) - 1
    OBVIOUS
  <1>. HIDE DEF t
  <1>2. \A i \in DOMAIN t : i + 1 \in DOMAIN list /\ i + 1 # 1 /\ t[i] = list[i + 1]
    BY <1>1
  <1>3. \A i \in DOMAIN list : i = 1 \/ (i - 1 \in DOMAIN t /\ list[i] = t[i - 1])
    <2>. SUFFICES ASSUME NEW i \in 1 .. Len(list), i # 1
                  PROVE  i - 1 \in 1 .. Len(list) - 1 /\ list[i] = t[i - 1]
      BY <1>1
    <2>1. i - 1 \in 1 .. Len(list) - 1 /\ (i - 1) + 1 = i
      BY <1>1
    <2>. QED
      BY <1>1, <2>1
  <1>4. 1 \in DOMAIN list /\ \A i \in DOMAIN list : Index[list[i]] = e
    BY <1>1 DEF NamesOf
  <1>5. \A k : Holds(list, k) <=> k = Head(list) \/ Holds(t, k)
    <2>1. ASSUME NEW k, Holds(list, k) PROVE k = Head(list) \/ Holds(t, k)
      BY <1>1, <1>3, <2>1 DEF Holds
    <2>2. Holds(list, Head(list))
      BY <1>1, <1>4 DEF Holds
    <2>3. ASSUME NEW k, Holds(t, k) PROVE Holds(list, k)
      BY <1>2, <2>3 DEF Holds
    <2>. QED
      BY <2>1, <2>2, <2>3
  <1>6. ~Holds(t, Head(list))
    <2>. SUFFICES ASSUME NEW i \in DOMAIN t, t[i] = Head(list) PROVE FALSE
      BY DEF Holds
    <2>1. list[i + 1] = list[1] /\ i + 1 \in DOMAIN list /\ i + 1 # 1
      BY <1>1, <1>2
    <2>. QED
      BY <1>4, <2>1 DEF NamesOf, Distinct
  <1>7. NamesOf(e, t)
    <2>1. \A i \in DOMAIN t : Index[t[i]] = e
      BY <1>2, <1>4
    <2>2. ASSUME NEW i \in DOMAIN t, NEW j \in DOMAIN t, t[i] = t[j] PROVE i = j
      <3>1. i + 1 = j + 1
        BY <1>2, <2>2 DEF NamesOf, Distinct
      <3>. QED
        BY <1>1, <3>1
    <2>. QED
      BY <2>1, <2>2 DEF NamesOf, Distinct
  <1>. QED
    BY <1>1, <1>4, <1>5, <1>6, <1>7 DEF t

(* A list with one more name. *)
LEMMA AppendNames ==
  ASSUME NEW S, NEW list \in Seq(S), NEW n \in S
  PROVE  /\ Append(list, n) # << >>
         /\ \A k : Holds(Append(list, n), k) <=> k = n \/ Holds(list, k)
         /\ \A e : NamesOf(e, list) /\ ~Holds(list, n) /\ Index[n] = e => NamesOf(e, Append(list, n))
  <1>. DEFINE new == Append(list, n)
              m   == Len(list)
  <1>1. /\ new \in Seq(S) /\ Len(new) = m + 1 /\ m \in Nat /\ new[m + 1] = n
        /\ \A i \in 1 .. m : new[i] = list[i]
        /\ DOMAIN new = 1 .. m + 1 /\ DOMAIN list = 1 .. m /\ new # << >>
    OBVIOUS
  <1>. HIDE DEF new, m
  <1>2. /\ \A i \in DOMAIN new : i = m + 1 \/ (i \in DOMAIN list /\ new[i] = list[i])
        /\ \A i \in DOMAIN list : i \in DOMAIN new
        /\ m + 1 \in DOMAIN new
    BY <1>1
  <1>3. \A k : Holds(new, k) <=> k = n \/ Holds(list, k)
    <2>1. ASSUME NEW k, Holds(new, k) PROVE k = n \/ Holds(list, k)
      BY <1>1, <1>2, <2>1 DEF Holds
    <2>2. Holds(new, n)
      BY <1>1, <1>2 DEF Holds
    <2>3. ASSUME NEW k, Holds(list, k) PROVE Holds(new, k)
      BY <1>1, <1>2, <2>3 DEF Holds
    <2>. QED
      BY <2>1, <2>2, <2>3
  <1>4. ASSUME NEW e, NamesOf(e, list), ~Holds(list, n), Index[n] = e PROVE NamesOf(e, new)
    <2>1. \A i \in DOMAIN new : Index[new[i]] = e
      BY <1>1, <1>2, <1>4 DEF NamesOf
    <2>2. ASSUME NEW i \in DOMAIN new, NEW j \in DOMAIN new, new[i] = new[j] PROVE i = j
      BY <1>1, <1>2, <1>4, <2>2 DEF NamesOf, Distinct, Holds
    <2>. QED
      BY <2>1, <2>2 DEF NamesOf, Distinct
  <1>. QED
    BY <1>1, <1>3, <1>4 DEF new

(* md_entry_search_md_name removes a name that is there once. *)
LEMMA SearchNames ==
  ASSUME NEW S, NEW list \in Seq(S), NEW n, Holds(list, n), NEW e, NamesOf(e, list)
  PROVE  /\ \A k : Holds(md_entry_search_md_name(list, n), k) <=> k # n /\ Holds(list, k)
         /\ NamesOf(e, md_entry_search_md_name(list, n))
  <1>. DEFINE First(i) == list[i] = n /\ \A j \in 1 .. i - 1 : list[j] # n
              p == CHOOSE i \in DOMAIN list : First(i)
              m == Len(list)
              a == SubSeq(list, 1, p - 1)
              b == SubSeq(list, p + 1, m)
              r == a \o b
  <1>1. DOMAIN list = 1 .. m /\ m \in Nat
    BY LenProperties
  <1>2. \E i \in DOMAIN list : First(i)
    BY FirstPosition DEF InList, Holds
  <1>3. p \in 1 .. m /\ list[p] = n
    BY <1>1, <1>2
  <1>. HIDE DEF p, m
  <1>4. \A i \in 1 .. m : list[i] = n => i = p
    BY <1>1, <1>3 DEF NamesOf, Distinct
  <1>5. a \in Seq(S) /\ Len(a) = p - 1 /\ \A i \in 1 .. p - 1 : a[i] = list[i]
    <2>1. \A j \in 1 .. p - 1 : list[j] \in S
      BY <1>1, <1>3, ElementOfSeq
    <2>2. /\ a \in Seq(S)
          /\ Len(a) = IF 1 <= p - 1 THEN p - 1 - 1 + 1 ELSE 0
          /\ \A i \in 1 .. p - 1 - 1 + 1 : a[i] = list[1 + i - 1]
      BY <1>3, <1>1, <2>1, SubSeqProperties
    <2>3. \A i \in 1 .. p - 1 : 1 + i - 1 = i /\ i \in 1 .. p - 1 - 1 + 1
      BY <1>3, <1>1
    <2>. QED
      BY <1>1, <1>3, <2>2, <2>3
  <1>6. b \in Seq(S) /\ Len(b) = m - p /\ \A i \in 1 .. m - p : b[i] = list[p + i]
    <2>1. \A j \in p + 1 .. m : list[j] \in S
      BY <1>1, <1>3, ElementOfSeq
    <2>2. /\ b \in Seq(S)
          /\ Len(b) = IF p + 1 <= m THEN m - (p + 1) + 1 ELSE 0
          /\ \A i \in 1 .. m - (p + 1) + 1 : b[i] = list[p + 1 + i - 1]
      BY <1>3, <1>1, <2>1, SubSeqProperties
    <2>3. \A i \in 1 .. m - p : p + 1 + i - 1 = p + i /\ i \in 1 .. m - (p + 1) + 1
      BY <1>3, <1>1
    <2>. QED
      BY <1>1, <1>3, <2>2, <2>3
  <1>. HIDE DEF a, b
  <1>7. /\ Len(r) = m - 1
        /\ \A i \in 1 .. p - 1 : r[i] = list[i]
        /\ \A i \in p .. m - 1 : r[i] = list[i + 1]
        /\ DOMAIN r = 1 .. m - 1
    <2>1. /\ r \in Seq(S) /\ Len(r) = Len(a) + Len(b)
          /\ \A i \in 1 .. Len(a) + Len(b) :
               r[i] = IF i <= Len(a) THEN a[i] ELSE b[i - Len(a)]
      BY <1>5, <1>6, ConcatProperties
    <2>2. Len(r) = m - 1
      BY <1>1, <1>3, <1>5, <1>6, <2>1
    <2>3. ASSUME NEW i \in 1 .. p - 1 PROVE r[i] = list[i]
      <3>1. i \in 1 .. Len(a) + Len(b) /\ i <= Len(a)
        BY <1>1, <1>3, <1>5, <1>6
      <3>. QED
        BY <1>5, <2>1, <3>1
    <2>4. ASSUME NEW i \in p .. m - 1 PROVE r[i] = list[i + 1]
      <3>1. i \in 1 .. Len(a) + Len(b) /\ ~ (i <= Len(a)) /\ i - Len(a) \in 1 .. m - p
              /\ p + (i - Len(a)) = i + 1
        BY <1>1, <1>3, <1>5, <1>6
      <3>2. r[i] = b[i - Len(a)]
        BY <2>1, <3>1
      <3>. QED
        BY <1>6, <3>1, <3>2
    <2>5. DOMAIN r = 1 .. Len(r)
      BY <2>1, LenProperties
    <2>. QED
      BY <2>2, <2>3, <2>4, <2>5
  <1>. HIDE DEF r
  <1>. DEFINE Old2(i) == IF i < p THEN i ELSE i + 1
              New2(i) == IF i < p THEN i ELSE i - 1
  <1>8. ASSUME NEW i \in DOMAIN r
        PROVE  Old2(i) \in 1 .. m /\ Old2(i) # p /\ r[i] = list[Old2(i)]
    BY <1>1, <1>3, <1>7
  <1>9. ASSUME NEW i \in 1 .. m, i # p
        PROVE  New2(i) \in DOMAIN r /\ r[New2(i)] = list[i]
    <2>1. CASE i < p
      BY <1>1, <1>3, <1>7, <2>1
    <2>2. CASE i > p
      <3>1. i - 1 \in p .. m - 1 /\ (i - 1) + 1 = i /\ i - 1 \in 1 .. m - 1 /\ ~(i < p)
        BY <1>1, <1>3, <2>2
      <3>. QED
        BY <1>7, <3>1
    <2>. QED
      BY <1>1, <1>3, <1>9, <2>1, <2>2
  <1>10. ASSUME NEW i \in DOMAIN r, NEW j \in DOMAIN r, r[i] = r[j] PROVE i = j
    <2>1. Old2(i) = Old2(j)
      BY <1>1, <1>8, <1>10 DEF NamesOf, Distinct
    <2>. QED
      BY <1>1, <1>3, <1>7, <2>1
  <1>11. \A i \in DOMAIN r : Index[r[i]] = e
    BY <1>1, <1>8 DEF NamesOf
  <1>. HIDE DEF Old2, New2
  <1>12. \A k : Holds(r, k) <=> k # n /\ Holds(list, k)
    <2>1. ASSUME NEW k, Holds(r, k) PROVE k # n /\ Holds(list, k)
      BY <1>1, <1>4, <1>8, <2>1 DEF Holds
    <2>2. ASSUME NEW k, k # n, Holds(list, k) PROVE Holds(r, k)
      BY <1>1, <1>3, <1>9, <2>2 DEF Holds
    <2>. QED
      BY <2>1, <2>2
  <1>. QED
    BY <1>10, <1>11, <1>12 DEF r, a, b, p, m, md_entry_search_md_name, NamesOf, Distinct

(* How often a name is in a list without duplicates. *)
LEMMA CountName ==
  ASSUME NEW list, NEW e, NamesOf(e, list), NEW k
  PROVE  Cardinality({i \in DOMAIN list : list[i] = k}) = IF Holds(list, k) THEN 1 ELSE 0
  <1>. DEFINE Hits == {i \in DOMAIN list : list[i] = k}
  <1>1. CASE Holds(list, k)
    <2>1. PICK i \in DOMAIN list : list[i] = k
      BY <1>1 DEF Holds
    <2>2. Hits = {i}
      BY <2>1 DEF NamesOf, Distinct
    <2>3. Cardinality(Hits) = 1
      BY <2>2, FS_Singleton
    <2>. QED
      BY <1>1, <2>3
  <1>2. CASE ~Holds(list, k)
    <2>1. Hits = {}
      BY <1>2 DEF Holds
    <2>2. Cardinality(Hits) = 0
      BY <2>1, FS_EmptySet
    <2>. QED
      BY <1>2, <2>2
  <1>. QED
    BY <1>1, <1>2

-----------------------------------------------------------------------------
(* The two halves of a round *)

(* The types of the variables the metadata is made of. *)
LEMMA MetadataTypes ==
  ASSUME TypeOK
  PROVE  /\ store \in [Servers -> [Keys -> File]]
         /\ in_charge_md \in [Servers -> [Entries -> Seq(Keys)]]
         /\ srvPc \in [Servers -> {"recv", "store", "list"}]
         /\ serving \in [Servers -> Clients \cup {None}]
         /\ sndPtr \in [Servers -> Keys \cup {None}]
         /\ sndNames \in [Servers -> Seq(Keys)] /\ rcvNames \in [Servers -> Seq(Keys)]
         /\ net \in [Clients -> {"idle", "sent", "taken", "replied"}]
         /\ req \in [Clients -> Request \cup {None}]
         /\ rep \in [Clients -> Reply \cup {None}]
         /\ cPc \in [Clients -> {"running", "exited"}]
         /\ made \in SUBSET Keys /\ acked \in [Keys -> File]
         /\ phase \in {"clients", "manager", "synchro"}
         /\ Index \in [Keys -> Entries] /\ TraceOf \in [Keys -> Clients]
  BY DataAssumption, TraceAssumption
     DEF TypeOK, SrvTypeOK, ThrTypeOK, ChannelsTypeOK, CliTypeOK, LaunchTypeOK

(* An entry is in the charge of a server. *)
LEMMA NewType ==
  ASSUME TypeOK, NEW e \in Entries
  PROVE  New(e) \in Servers
  <1>1. Last \in 1 .. Len(mlts)
    BY HandoverTypes DEF Last
  <1>2. mlts[Last] \in [Entries -> Assignment]
    BY <1>1, MltsType
  <1>. QED
    BY <1>2 DEF New, Assignment

(* During a redistribution no request is under way.                        *)
LEMMA ClientsRest ==
  ASSUME TypeOK, MainOK, RequestsOK, phase # "clients"
  PROVE  /\ \A c \in Clients : net[c] = "idle" /\ cPc[c] = "exited"
         /\ \A s \in Servers : srvPc[s] = "recv"
         /\ \A k \in Keys : ~Busy(k)
  <1>1. \A c \in Clients : net[c] = "idle" /\ cPc[c] = "exited"
    BY DEF RequestsOK, RequestOK
  <1>. QED
    BY <1>1, MetadataTypes DEF MainOK, Busy

(* While clients run no entry is in transfer: every table is the last one, *)
(* and the manager's.                                                      *)
LEMMA ThreadsRest ==
  ASSUME IndInv, HandoverInv, phase = "clients" \/ UpdatersIdle
  PROVE  /\ \A s \in Servers : seen[s] = Last /\ updPc[s] = "wait"
         /\ \A s \in Servers : sndPc[s] \in Ended \cup {"off"} /\ rcvPc[s] \in Ended \cup {"off"}
         /\ \A s \in Servers : xfer[s] = None
         /\ \A s \in Servers, e \in Entries :
              table[s][e].state = 0 /\ AssignmentOf(table[s][e]) = mlts[Last][e]
         /\ \A e \in Entries : Keeper(e) = New(e)
  <1>0. /\ TypeOK /\ ThreadsOK /\ TablesOK /\ LockstepOK /\ SendersOK /\ ReceiversOK /\ LinesOK
        /\ CountsOK
    BY DEF IndInv, HandoverInv
  <1>1. UpdatersIdle
    BY <1>0 DEF LockstepOK
  <1>2. /\ \A s \in Servers : xfer[s] = None
        /\ \A s \in Servers, e \in Entries : table[s][e].state # 1
    BY <1>0, <1>1, SettledLines
  <1>3. \A s \in Servers : sndPc[s] \in Ended \cup {"off"} /\ rcvPc[s] \in Ended \cup {"off"}
    BY <1>0, <1>1 DEF ThreadsOK, UpdatersIdle
  <1>4. \A s \in Servers, e \in Entries : At(s, e) = Last
    BY <1>1 DEF UpdatersIdle, At
  <1>5. \A s \in Servers, e \in Entries : table[s][e].state = 0
    BY <1>0, <1>2, HandoverTypes DEF MltLine
  <1>6. ASSUME NEW e \in Entries, Moves(e) PROVE Handed(e)
    <2>1. Old(e) \in Servers /\ New(e) \in Servers
      BY <1>0, <1>6, MoveTypes DEF Moves
    <2>. DEFINE t == New(e)
    <2>2. t \in Servers /\ rcvPc[t] \in Ended /\ rcvPc[t] # "failed"
      BY <1>0, <1>1, <1>2, <1>6, <2>1, HandoverTypes DEF ReceiversOK, UpdatersIdle, Moves
    <2>3. to_receive[t] = 0
      BY <1>0, <1>1, <2>2 DEF ReceiversOK, UpdatersIdle, Ended
    <2>4. Awaited(t) = {}
      BY <1>0, <1>1, <2>2, <2>3, AwaitedFinite, FS_EmptySet DEF CountsOK, UpdatersIdle
    <2>. QED
      BY <1>4, <1>6, <2>1, <2>4 DEF Awaited, Handed
  <1>. QED
    BY <1>0, <1>1, <1>2, <1>3, <1>4, <1>5, <1>6 DEF UpdatersIdle, TablesOK, Keeper

(* So the transfer threads do not step, and the manager does not publish.  *)
LEMMA ThreadsStop ==
  ASSUME IndInv, HandoverInv, phase = "clients"
  PROVE  /\ \A s \in Servers : ~UpdaterNext(s) /\ ~SenderNext(s) /\ ~ReceiverNext(s)
         /\ ~MgrSend
         /\ mgrTable = mlts[Last]
  <1>1. /\ \A s \in Servers : seen[s] = Last /\ updPc[s] = "wait"
        /\ \A s \in Servers : sndPc[s] \in Ended \cup {"off"} /\ rcvPc[s] \in Ended \cup {"off"}
    BY ThreadsRest
  <1>2. mgrPc \in {"sleep", "reset"}
    BY DEF HandoverInv, LockstepOK, MgrQuiet
  <1>3. ASSUME NEW s \in Servers PROVE ~UpdaterNext(s)
    BY <1>1 DEF UpdaterNext, UpdReceive, UpdCompare, UpdSpawn, UpdJoin, Last
  <1>4. ASSUME NEW s \in Servers PROVE ~SenderNext(s)
    BY <1>1 DEF SenderNext, SndNext, SndCheck, SndPop, SndDel, SndSend, SndMark, SndAck, SndAt, Ended
  <1>5. ASSUME NEW s \in Servers PROVE ~ReceiverNext(s)
    BY <1>1 DEF ReceiverNext, RcvFinished, RcvReceive, RcvInsert, RcvPut, RcvState, RcvReply, RcvAt,
                Ended
  <1>. QED
    BY <1>2, <1>3, <1>4, <1>5 DEF MgrSend, IndInv, HistoryOK, Last

-----------------------------------------------------------------------------
(* A step of one request *)

(* Only the exchange of client c0, about key k0, changes. *)
Only(c0, k0) ==
  /\ phase = "clients" /\ UNCHANGED <<phase, mlts>>
  /\ \A c \in Clients \ {c0} :
       /\ net'[c] = net[c] /\ req'[c] = req[c] /\ rep'[c] = rep[c] /\ cPc'[c] = cPc[c]
       /\ net[c] = "taken" => /\ srvPc'[req[c].id_srv] = srvPc[req[c].id_srv]
                              /\ serving'[req[c].id_srv] = serving[req[c].id_srv]
  /\ net[c0] # "idle" => req[c0].key = k0
  /\ net'[c0] # "idle" => req'[c0].key = k0
  /\ \A k \in Keys \ {k0} : acked'[k] = acked[k] /\ (k \in made' <=> k \in made)

(* A step for one request concerns no other request, ... *)
LEMMA OnlyRequests ==
  ASSUME TypeOK, RequestsOK, NEW c0 \in Clients, NEW k0, Only(c0, k0), RequestOK(c0)'
  PROVE  RequestsOK'
  <1>1. ASSUME NEW c \in Clients \ {c0} PROVE RequestOK(c)'
    <2>1. RequestOK(c)
      BY DEF RequestsOK
    <2>2. \A e : New(e)' = New(e)
      BY DEF Only, New, Last
    <2>. QED
      BY <2>1, <2>2 DEF RequestOK, Only
  <1>. QED
    BY <1>1 DEF RequestsOK, Only

(* ... no other answer, ... *)
LEMMA OnlyAnswers ==
  ASSUME AnswerIsNewer, NEW c0 \in Clients, NEW k0, Only(c0, k0),
         net'[c0] = "replied" /\ rep'[c0].flag = "update&retry"
           => rep'[c0].new.n_ver > req'[c0].entryVersion
  PROVE  AnswerIsNewer'
  BY DEF AnswerIsNewer, Only

(* ... no other key ... *)
LEMMA OnlyKeys ==
  ASSUME TypeOK, NEW c0 \in Clients, NEW k0, Only(c0, k0), NEW k \in Keys, k # k0
  PROVE  /\ Busy(k)' <=> Busy(k)
         /\ Busy(k) => Op(k)' = Op(k)
         /\ HasFile(k)' <=> HasFile(k)
         /\ HasName(k)' <=> HasName(k)
  <1>1. TraceOf[k] \in Clients
    BY MetadataTypes
  <1>2. CASE TraceOf[k] = c0
    <2>1. ~Busy(k) /\ ~Busy(k)'
      BY <1>2 DEF Busy, Only
    <2>. QED
      BY <2>1 DEF HasFile, HasName, Only
  <1>3. CASE TraceOf[k] # c0
    <2>. DEFINE c == TraceOf[k]
    <2>1. net'[c] = net[c] /\ req'[c] = req[c] /\ rep'[c] = rep[c]
      BY <1>1, <1>3 DEF Only
    <2>2. Busy(k)' <=> Busy(k)
      BY <2>1 DEF Busy
    <2>3. Op(k)' = Op(k)
      BY <2>1 DEF Op
    <2>4. Completed(c)' <=> Completed(c)
      BY <2>1 DEF Completed
    <2>5. Applied(c)' <=> Applied(c)
      BY <1>1, <1>3, <2>1, <2>4 DEF Applied, Only
    <2>. QED
      BY <2>2, <2>3, <2>4, <2>5 DEF HasFile, HasName, Only
  <1>. QED
    BY <1>2, <1>3

(* ... and no other trace. *)
LEMMA OnlyTraces ==
  ASSUME TypeOK, TracesOK, NEW c0 \in Clients, NEW k0, Only(c0, k0), TraceOK(k0)'
  PROVE  TracesOK'
  <1>. SUFFICES ASSUME NEW k \in Keys, k # k0 PROVE TraceOK(k)'
    BY DEF TracesOK
  <1>1. TraceOK(k)
    BY DEF TracesOK
  <1>2. Busy(k)' <=> Busy(k)
    BY OnlyKeys
  <1>3. Busy(k) => Op(k)' = Op(k)
    BY OnlyKeys
  <1>4. acked'[k] = acked[k] /\ (k \in made' <=> k \in made)
    BY DEF Only
  <1>. QED
    BY <1>1, <1>2, <1>3, <1>4 DEF TraceOK

(* The server s0 in charge of k0 has the file and the list element that    *)
(* the request now calls for, and no other key is touched.                 *)
LEMMA OnlyResting ==
  ASSUME TypeOK, RestingOK, NEW c0 \in Clients, NEW k0 \in Keys, Only(c0, k0),
         \A k \in Keys, s \in Servers : k # k0 \/ s # New(Index[k0]) =>
           /\ store'[s][k] # None <=> store[s][k] # None
           /\ Listed(s, k)' <=> Listed(s, k),
         store'[New(Index[k0])][k0] # None <=> HasFile(k0)',
         Holds(in_charge_md'[New(Index[k0])][Index[k0]], k0) <=> HasName(k0)'
  PROVE  RestingOK'
  <1>. SUFFICES ASSUME NEW k \in Keys, NEW s \in Servers
                PROVE  /\ store'[s][k] # None <=> s = New(Index[k])' /\ HasFile(k)'
                       /\ Listed(s, k)' <=> s = New(Index[k])' /\ HasName(k)'
    BY DEF RestingOK
  <1>1. \A e : New(e)' = New(e)
    BY DEF Only, New, Last
  <1>2. /\ store[s][k] # None <=> s = New(Index[k]) /\ HasFile(k)
        /\ Listed(s, k) <=> s = New(Index[k]) /\ HasName(k)
    BY DEF RestingOK, Only
  <1>3. CASE k # k0
    <2>1. HasFile(k)' <=> HasFile(k)
      BY <1>3, OnlyKeys
    <2>2. HasName(k)' <=> HasName(k)
      BY <1>3, OnlyKeys
    <2>. QED
      BY <1>1, <1>2, <1>3, <2>1, <2>2
  <1>4. CASE k = k0 /\ s # New(Index[k0])
    BY <1>1, <1>2, <1>4
  <1>5. CASE k = k0 /\ s = New(Index[k0])
    <2>1. store'[s][k] # None <=> HasFile(k)'
      BY <1>5
    <2>2. Listed(s, k)' <=> HasName(k)'
      BY <1>5 DEF Listed
    <2>. QED
      BY <1>1, <1>5, <2>1, <2>2
  <1>. QED
    BY <1>3, <1>4, <1>5

-----------------------------------------------------------------------------
(* The main threads *)

(* A request under way is the only one on its key. *)
LEMMA RequestKey ==
  ASSUME TypeOK, ExchangesOK, RequestsOK, NEW c \in Clients, net[c] # "idle"
  PROVE  /\ req[c] \in Request /\ req[c].key \in Keys /\ Index[req[c].key] \in Entries
         /\ TraceOf[req[c].key] = c /\ Busy(req[c].key) /\ Op(req[c].key) = req[c].op
         /\ RequestOK(c) /\ cPc[c] = "running" /\ phase = "clients"
  <1>1. req[c] \in Request
    BY DEF ExchangesOK
  <1>2. RequestOK(c) /\ phase = "clients" /\ cPc[c] = "running"
    BY MetadataTypes DEF RequestsOK, RequestOK
  <1>. QED
    BY <1>1, <1>2, DataAssumption DEF Request, RequestOK, Busy, Op

(* The request a main thread holds is one on an entry of its own. *)
LEMMA HeldRequest ==
  ASSUME TypeOK, ExchangesOK, MainOK, RequestsOK, NEW s \in Servers, srvPc[s] # "recv"
  PROVE  /\ serving[s] \in Clients /\ net[serving[s]] = "taken" /\ Current(s).id_srv = s
         /\ s = New(Index[Current(s).key])
         /\ ~Completed(serving[s])
         /\ Applied(serving[s]) <=> srvPc[s] = "list"
  <1>1. serving[s] \in Clients /\ net[serving[s]] = "taken" /\ Current(s).id_srv = s
    BY DEF MainOK, Current
  <1>2. RequestOK(serving[s])
    BY <1>1 DEF RequestsOK
  <1>. QED
    BY <1>1, <1>2 DEF RequestOK, Current, Completed, Applied

(* What any step of a main thread on the exchange of client c0 changes. *)
Touches(s, c0) ==
  /\ \A c \in Clients \ {c0} : net'[c] = net[c] /\ rep'[c] = rep[c]
  /\ \A t \in Servers \ {s} : srvPc'[t] = srvPc[t] /\ serving'[t] = serving[t]
  /\ UNCHANGED <<req, cPc, made, acked, phase, mlts>>

(* A step of a main thread is for the request it serves. *)
LEMMA MainOnly ==
  ASSUME TypeOK, ExchangesOK, RequestsOK, NEW s \in Servers, NEW c0 \in Clients,
         net[c0] # "idle", srvPc[s] = "recv" \/ serving[s] = c0, Touches(s, c0)
  PROVE  Only(c0, req[c0].key)
  <1>1. ASSUME NEW c \in Clients \ {c0}, net[c] = "taken"
        PROVE  req[c].id_srv \in Servers /\ req[c].id_srv # s
    <2>1. RequestOK(c) /\ req[c] \in Request
      BY <1>1, RequestKey
    <2>. QED
      BY <1>1, <2>1 DEF RequestOK, Request
  <1>2. phase = "clients"
    BY RequestKey
  <1>. QED
    BY <1>1, <1>2 DEF Only, Touches

(* With the transfer threads at rest, the lists of names are all that      *)
(* matters of the names.                                                   *)
LEMMA NamesAtRest ==
  ASSUME IndInv, HandoverInv, phase = "clients", NamesOK, DrainOK, ArriveOK,
         UNCHANGED <<xfer, sndPc, sndEntry, sndPtr, sndNames, rcvPc, rcvEntry, rcvNames>>,
         \A s \in Servers, e \in Entries : NamesOf(e, in_charge_md'[s][e])
  PROVE  NamesOK' /\ DrainOK' /\ ArriveOK'
  <1>1. /\ \A s \in Servers : sndPc[s] \in Ended \cup {"off"} /\ rcvPc[s] \in Ended \cup {"off"}
        /\ \A s \in Servers : xfer[s] = None
    BY ThreadsRest
  <1>2. NamesOK'
    BY DEF NamesOK, NamesAt
  <1>3. DrainOK'
    BY <1>1 DEF DrainOK, Ended, DrainAt
  <1>4. ArriveOK'
    BY <1>1 DEF ArriveOK, Ended, ArriveAt
  <1>. QED
    BY <1>2, <1>3, <1>4

(* What is left to show of a step of the clients phase. *)
Kept == NoThreadFails /\ AnswerIsNewer /\ RequestsOK /\ TracesOK /\ NamesOK /\ DrainOK /\ ArriveOK
          /\ RestingOK

(* distribution_post_receive finds no line in transfer: it redirects a     *)
(* client that has an older line, and takes the request otherwise.         *)
LEMMA SrvReceiveKept ==
  ASSUME IndInv, HandoverInv, Kept, NEW s \in Servers, NEW c \in Clients, MainStep(s),
         SrvWaitRetry(s, c) \/ SrvUpdateRetry(s, c) \/ SrvAccept(s, c)
  PROVE  Kept'
  <1>0. /\ TypeOK /\ ExchangesOK /\ MainOK /\ TablesOK /\ ClientsOK /\ HistoryOK
    BY DEF IndInv
  <1>1. Receives(s, c)
    BY DEF SrvWaitRetry, SrvUpdateRetry, SrvAccept
  <1>2. /\ net[c] = "sent" /\ req[c].id_srv = s /\ srvPc[s] = "recv"
    BY <1>1 DEF Receives
  <1>a. PICK k0 \in Keys : k0 = req[c].key
    BY <1>0, <1>2, RequestKey DEF Kept
  <1>. DEFINE e0 == Index[k0]
  <1>3. /\ req[c] \in Request /\ k0 \in Keys /\ e0 \in Entries /\ TraceOf[k0] = c
        /\ Busy(k0) /\ RequestOK(c) /\ cPc[c] = "running" /\ phase = "clients"
    BY <1>0, <1>2, <1>a, RequestKey DEF Kept
  <1>4. LineFor(s, c).state = 0 /\ AssignmentOf(LineFor(s, c)) = mlts[Last][e0]
    BY <1>3, <1>a, ThreadsRest DEF LineFor
  <1>5. SrvUpdateRetry(s, c) \/ SrvAccept(s, c)
    BY <1>4 DEF SrvWaitRetry, InTransfer
  <1>6. /\ UNCHANGED <<store, in_charge_md, up, req, cPc, made, acked, phase, mlts, xfer, sndPc,
                       sndEntry, sndPtr, sndNames, rcvPc, rcvEntry, rcvNames>>
        /\ LineFor(s, c).id_srv = New(e0) /\ LineFor(s, c).n_ver = mlts[Last][e0].n_ver
    <2>1. UNCHANGED <<store, in_charge_md, up, req, cPc, made, acked, phase, mlts, xfer, sndPc,
                       sndEntry, sndPtr, sndNames, rcvPc, rcvEntry, rcvNames>>
      BY <1>5 DEF SrvUpdateRetry, SrvAccept, Answer, MainStep, srvVars, sharedVars, thrVars,
                  cliVars, launchVars, mgrChannel
    <2>. QED
      BY <2>1, <1>4 DEF AssignmentOf, New
  <1>7. /\ Touches(s, c)
        /\ \/ /\ net'[c] = "replied" /\ rep'[c].flag = "update&retry"
              /\ rep'[c].new = mlts[Last][e0] /\ mlts[Last][e0].n_ver # req[c].entryVersion
              /\ UNCHANGED <<srvPc, serving>>
           \/ /\ net'[c] = "taken" /\ srvPc'[s] = "store" /\ serving'[s] = c
              /\ mlts[Last][e0].n_ver = req[c].entryVersion
    <2>1. CASE SrvUpdateRetry(s, c)
      <3>1. /\ net' = [net EXCEPT ![c] = "replied"]
            /\ rep' = [rep EXCEPT ![c] = [flag |-> "update&retry",
                                          new |-> AssignmentOf(LineFor(s, c)), val |-> None]]
            /\ UNCHANGED <<srvPc, serving>> /\ LineFor(s, c).n_ver # req[c].entryVersion
        BY <2>1 DEF SrvUpdateRetry, Answer, srvVars, Redirects
      <3>. QED
        BY <1>0, <1>4, <1>6, <3>1, MetadataTypes DEF Touches
    <2>2. CASE SrvAccept(s, c)
      <3>1. /\ net' = [net EXCEPT ![c] = "taken"] /\ UNCHANGED rep
            /\ srvPc' = [srvPc EXCEPT ![s] = "store"] /\ serving' = [serving EXCEPT ![s] = c]
            /\ LineFor(s, c).n_ver = req[c].entryVersion
        BY <2>2 DEF SrvAccept, Accepts
      <3>. QED
        BY <1>0, <1>6, <3>1, MetadataTypes DEF Touches
    <2>. QED
      BY <1>5, <2>1, <2>2
  <1>8. Only(c, k0)
    BY <1>0, <1>2, <1>7, <1>a, MainOnly DEF Kept
  <1>9. PICK i \in 1 .. Len(mlts) : mlts[i][e0] = Stamp(req[c])
    BY <1>0, <1>2, <1>a DEF ClientsOK, Published
  <1>10. mlts[Last][e0].n_ver = req[c].entryVersion => New(e0) = s
    <2>1. Published(mlts, e0, mlts[Last][e0]) /\ Published(mlts, e0, Stamp(req[c]))
      <3>1. Last \in 1 .. Len(mlts)
        BY <1>0, HandoverTypes DEF Last
      <3>. QED
        BY <1>9, <3>1 DEF Published
    <2>2. mlts[Last][e0].n_ver = req[c].entryVersion => mlts[Last][e0] = Stamp(req[c])
      BY <1>3, <2>1, PublishedAgree DEF Stamp
    <2>. QED
      BY <1>2, <2>2 DEF Stamp, New
  <1>11. AnswerIsNewer'
    <2>. SUFFICES ASSUME net'[c] = "replied", rep'[c].flag = "update&retry"
                  PROVE  rep'[c].new.n_ver > req'[c].entryVersion
      BY <1>8, OnlyAnswers DEF Kept
    <2>1. rep'[c].new = mlts[Last][e0] /\ mlts[Last][e0].n_ver # req[c].entryVersion
      BY <1>7
    <2>2. Last \in 1 .. Len(mlts) /\ i <= Last
      BY <1>0, HandoverTypes DEF Last
    <2>3. mlts[i][e0].n_ver <= mlts[Last][e0].n_ver
      BY <1>0, <1>3, <2>2 DEF HistoryOK, Follows
    <2>4. mlts[i][e0].n_ver = req[c].entryVersion
      BY <1>9 DEF Stamp
    <2>5. mlts[i][e0] \in Assignment /\ mlts[Last][e0] \in Assignment
      BY <1>0, <1>3, <2>2, MltsType
    <2>6. mlts[i][e0].n_ver \in Nat /\ mlts[Last][e0].n_ver \in Nat
      BY <2>5 DEF Assignment
    <2>. QED
      BY <1>6, <2>1, <2>3, <2>4, <2>6
  <1>12. RequestsOK'
    <2>1. \A e : New(e)' = New(e)
      BY <1>6 DEF New, Last
    <2>2. RequestOK(c)'
      BY <1>2, <1>3, <1>6, <1>7, <1>10, <1>a, <2>1 DEF RequestOK
    <2>. QED
      BY <1>0, <1>8, <2>2, OnlyRequests DEF Kept
  <1>13. Busy(k0)' /\ Op(k0)' = Op(k0) /\ ~Applied(c) /\ ~Applied(c)' /\ ~Completed(c)
           /\ ~Completed(c)'
    BY <1>2, <1>3, <1>6, <1>7, <1>a DEF Busy, Op, Applied, Completed
  <1>14. TracesOK'
    <2>1. TraceOK(k0)
      BY <1>3 DEF Kept, TracesOK
    <2>2. TraceOK(k0)'
      BY <1>3, <1>6, <1>13, <2>1 DEF TraceOK
    <2>. QED
      BY <1>0, <1>8, <2>2, OnlyTraces DEF Kept
  <1>15. NamesOK' /\ DrainOK' /\ ArriveOK'
    BY <1>3, <1>6, NamesAtRest DEF Kept, NamesOK, NamesAt
  <1>16. RestingOK'
    <2>1. HasFile(k0)' <=> HasFile(k0)
      BY <1>3, <1>6, <1>13 DEF HasFile
    <2>2. HasName(k0)' <=> HasName(k0)
      BY <1>3, <1>6, <1>13 DEF HasName
    <2>3. New(e0) \in Servers
      BY <1>0, <1>3, NewType
    <2>4. /\ store[New(e0)][k0] # None <=> HasFile(k0)
          /\ Listed(New(e0), k0) <=> HasName(k0)
      BY <1>3, <2>3 DEF Kept, RestingOK
    <2>5. store'[New(e0)][k0] # None <=> HasFile(k0)'
      BY <1>6, <2>1, <2>4
    <2>6. Holds(in_charge_md'[New(e0)][e0], k0) <=> HasName(k0)'
      BY <1>6, <2>2, <2>4 DEF Listed
    <2>7. \A k \in Keys, t \in Servers : (store'[t][k] # None <=> store[t][k] # None)
                                         /\ (Listed(t, k)' <=> Listed(t, k))
      BY <1>6 DEF Listed
    <2>. QED
      BY <1>0, <1>3, <1>8, <2>5, <2>6, <2>7, OnlyResting DEF Kept
  <1>. QED
    BY <1>6, <1>11, <1>12, <1>14, <1>15, <1>16 DEF Kept, NoThreadFails

(* The request loop past its check: the file is done, and the list is next *)
(* or the answer "done" is sent.                                           *)
LEMMA HeldKept ==
  ASSUME IndInv, HandoverInv, Kept, NEW s \in Servers, srvPc[s] # "recv",
         NEW c \in Clients, c = serving[s], NEW k0 \in Keys, k0 = Current(s).key,
         Touches(s, c),
         UNCHANGED <<up, xfer, sndPc, sndEntry, sndPtr, sndNames, rcvPc, rcvEntry, rcvNames>>,
         \/ /\ net'[c] = "taken" /\ srvPc'[s] = "list" /\ serving'[s] = c
            /\ Op(k0) \in {"create", "delete"}
         \/ net'[c] = "replied" /\ rep'[c].flag = "done",
         \A e \in Entries, t \in Servers : NamesOf(e, in_charge_md'[t][e]),
         \A k \in Keys, t \in Servers : k # k0 \/ t # s =>
           /\ store'[t][k] # None <=> store[t][k] # None
           /\ Listed(t, k)' <=> Listed(t, k),
         store'[s][k0] # None <=> Op(k0) # "delete",
         Holds(in_charge_md'[s][Index[k0]], k0)
           <=> Op(k0) # (IF net'[c] = "taken" THEN "create" ELSE "delete")
  PROVE  Kept'
  <1>0. /\ TypeOK /\ ExchangesOK /\ MainOK
    BY DEF IndInv
  <1>1. /\ net[c] = "taken" /\ req[c].id_srv = s /\ s = New(Index[k0]) /\ req[c].key = k0
        /\ Op(k0) = req[c].op
    <2>1. /\ net[c] = "taken" /\ req[c].id_srv = s /\ s = New(Index[k0]) /\ req[c].key = k0
      BY <1>0, HeldRequest DEF Kept, Current
    <2>. QED
      BY <1>0, <2>1, RequestKey DEF Kept
  <1>2. /\ Index[k0] \in Entries /\ TraceOf[k0] = c /\ Busy(k0) /\ RequestOK(c)
        /\ phase = "clients" /\ cPc[c] = "running"
    BY <1>0, <1>1, RequestKey DEF Kept
  <1>3. Only(c, k0)
    BY <1>0, <1>1, MainOnly DEF Kept
  <1>4. UNCHANGED <<req, cPc, made, acked, phase, mlts>>
    BY DEF Touches
  <1>5. \A e : New(e)' = New(e)
    BY <1>4 DEF New, Last
  <1>6. AnswerIsNewer'
    BY <1>3, OnlyAnswers DEF Kept
  <1>7. RequestsOK'
    <2>1. RequestOK(c)'
      BY <1>1, <1>2, <1>4, <1>5 DEF RequestOK
    <2>. QED
      BY <1>0, <1>3, <2>1, OnlyRequests DEF Kept
  <1>8. /\ Busy(k0)' /\ Op(k0)' = Op(k0) /\ Applied(c)'
        /\ Completed(c)' <=> net'[c] # "taken"
    BY <1>1, <1>2, <1>4 DEF Busy, Op, Applied, Completed
  <1>9. TracesOK'
    <2>1. TraceOK(k0)
      BY DEF Kept, TracesOK
    <2>2. TraceOK(k0)'
      BY <1>2, <1>4, <1>8, <2>1 DEF TraceOK
    <2>. QED
      BY <1>0, <1>3, <2>2, OnlyTraces DEF Kept
  <1>10. NamesOK' /\ DrainOK' /\ ArriveOK'
    BY <1>2, NamesAtRest DEF Kept
  <1>11. RestingOK'
    <2>1. HasFile(k0)' <=> Op(k0) # "delete"
      BY <1>2, <1>8 DEF HasFile
    <2>2. HasName(k0)' <=> Op(k0) # (IF net'[c] = "taken" THEN "create" ELSE "delete")
      BY <1>2, <1>8 DEF HasName
    <2>. QED
      BY <1>0, <1>1, <1>3, <2>1, <2>2, OnlyResting DEF Kept
  <1>. QED
    BY <1>6, <1>7, <1>9, <1>10, <1>11 DEF Kept, NoThreadFails

(* What a held request finds: the file and the list element the traces     *)
(* say are there, so no answer is "aborted" and no get finds nothing.      *)
LEMMA HeldFinds ==
  ASSUME IndInv, HandoverInv, Kept, NEW s \in Servers, srvPc[s] # "recv"
  PROVE  /\ serving[s] \in Clients /\ net[serving[s]] = "taken"
         /\ Current(s) \in Request /\ Current(s).key \in Keys /\ Index[Current(s).key] \in Entries
         /\ Op(Current(s).key) = Current(s).op
         /\ Current(s).op \in {"create", "update"} => Current(s).val # None
         /\ srvPc[s] = "list" => Current(s).op \in {"create", "delete"}
         /\ Exists(s, Current(s).key) <=>
              Current(s).op # (IF srvPc[s] = "list" THEN "delete" ELSE "create")
         /\ Listed(s, Current(s).key) <=> Current(s).op # "create"
         /\ phase = "clients"
  <1>0. TypeOK /\ ExchangesOK /\ MainOK
    BY DEF IndInv
  <1>. DEFINE c == serving[s]
              k == Current(s).key
  <1>1. /\ c \in Clients /\ net[c] = "taken" /\ Current(s).id_srv = s /\ s = New(Index[k])
        /\ ~Completed(c) /\ (Applied(c) <=> srvPc[s] = "list")
    BY <1>0, HeldRequest DEF Kept
  <1>2. /\ Current(s) \in Request /\ k \in Keys /\ Index[k] \in Entries /\ TraceOf[k] = c /\ Busy(k)
        /\ Op(k) = Current(s).op /\ RequestOK(c) /\ phase = "clients"
    BY <1>0, <1>1, RequestKey DEF Kept, Current
  <1>3. /\ Exists(s, k) <=> HasFile(k)
        /\ Listed(s, k) <=> HasName(k)
    BY <1>1, <1>2 DEF Kept, RestingOK, Exists
  <1>4. srvPc[s] = "list" => Current(s).op \in {"create", "delete"}
    BY <1>1, <1>2 DEF RequestOK, Current
  <1>5. Current(s).op \in {"create", "update"} => Current(s).val # None
    BY <1>1, <1>2 DEF RequestOK, Current
  <1>6. srvPc[s] \in {"store", "list"}
    BY <1>0, MetadataTypes
  <1>7. HasFile(k) <=> Current(s).op # (IF srvPc[s] = "list" THEN "delete" ELSE "create")
    BY <1>1, <1>2, <1>4, <1>6 DEF HasFile
  <1>8. HasName(k) <=> Current(s).op # "create"
    BY <1>1, <1>2 DEF HasName
  <1>. QED
    BY <1>1, <1>2, <1>3, <1>4, <1>5, <1>7, <1>8

(* What the steps of an accepted request leave alone. *)
LEMMA HeldFrame ==
  ASSUME NEW s \in Servers, MainStep(s),
         SrvPut(s) \/ SrvUpdate(s) \/ SrvDelete(s) \/ SrvGet(s) \/ SrvInsert(s) \/ SrvUnlink(s)
  PROVE  /\ UNCHANGED <<xfer, sndPc, sndEntry, sndPtr, sndNames, rcvPc, rcvEntry, rcvNames>>
         /\ UNCHANGED <<req, cPc, made, acked, phase, mlts>>
         /\ srvPc[s] # "recv"
  <1>1. UNCHANGED <<xfer, sndPc, sndEntry, sndPtr, sndNames, rcvPc, rcvEntry, rcvNames>>
        /\ UNCHANGED <<cPc, made, acked, phase>>
    BY DEF MainStep, SrvPut, SrvUpdate, SrvDelete, SrvGet, SrvInsert, SrvUnlink, thrVars, cliVars,
           launchVars
  <1>2. UNCHANGED <<req, mlts>>
    BY DEF SrvPut, SrvUpdate, SrvDelete, SrvGet, SrvInsert, SrvUnlink, Finish, Answer, ToList,
           mgrChannel, clientChannel
  <1>3. srvPc[s] # "recv"
    BY DEF SrvPut, SrvUpdate, SrvDelete, SrvGet, SrvInsert, SrvUnlink, Processes, Listing
  <1>. QED
    BY <1>1, <1>2, <1>3

(* The answer "done" of a main thread. *)
LEMMA FinishTouches ==
  ASSUME TypeOK, NEW s \in Servers, NEW c \in Clients, serving[s] = c, NEW val,
         Finish(s, "done", val), UNCHANGED <<req, cPc, made, acked, phase, mlts>>
  PROVE  Touches(s, c) /\ net'[c] = "replied" /\ rep'[c].flag = "done"
  <1>1. /\ net' = [net EXCEPT ![c] = "replied"]
        /\ rep' = [rep EXCEPT ![c] = [flag |-> "done", new |-> None, val |-> val]]
        /\ srvPc' = [srvPc EXCEPT ![s] = "recv"]
        /\ serving' = [serving EXCEPT ![s] = None]
    BY DEF Finish, Answer
  <1>. QED
    BY <1>1, MetadataTypes DEF Touches

(* So is the one that goes on to the list of names. *)
LEMMA ToListTouches ==
  ASSUME TypeOK, NEW s \in Servers, NEW c \in Clients, serving[s] = c, net[c] = "taken",
         ToList(s), UNCHANGED <<cPc, made, acked, phase, mlts>>
  PROVE  Touches(s, c) /\ net'[c] = "taken" /\ srvPc'[s] = "list" /\ serving'[s] = c
  BY MetadataTypes DEF ToList, Touches, clientChannel

(* A file operation writes the file of the request's key and no other.     *)
LEMMA FileWritten ==
  ASSUME TypeOK, NEW s \in Servers, NEW k0 \in Keys, NEW v, SetFile(s, k0, v)
  PROVE  /\ store'[s][k0] = v
         /\ \A k \in Keys, t \in Servers : k # k0 \/ t # s => store'[t][k] = store[t][k]
  BY MetadataTypes DEF SetFile

(* generic_put, generic_update, generic_del and generic_get find what the  *)
(* traces left: none of them fails.                                        *)
LEMMA SrvStoreKept ==
  ASSUME IndInv, HandoverInv, Kept, NEW s \in Servers, MainStep(s),
         SrvPut(s) \/ SrvUpdate(s) \/ SrvDelete(s) \/ SrvGet(s)
  PROVE  Kept'
  <1>0. TypeOK
    BY DEF IndInv
  <1>1. /\ UNCHANGED <<xfer, sndPc, sndEntry, sndPtr, sndNames, rcvPc, rcvEntry, rcvNames>>
        /\ UNCHANGED <<req, cPc, made, acked, phase, mlts>>
        /\ srvPc[s] = "store" /\ UNCHANGED in_charge_md
    <2>1. srvPc[s] = "store" /\ UNCHANGED in_charge_md
      BY DEF SrvPut, SrvUpdate, SrvDelete, SrvGet, Processes, sharedVars
    <2>. QED
      BY <2>1, HeldFrame
  <1>2. PICK c \in Clients : c = serving[s]
    BY <1>1, HeldFinds
  <1>3. PICK k0 \in Keys : k0 = Current(s).key
    BY <1>1, HeldFinds
  <1>4. /\ net[c] = "taken" /\ Op(k0) = Current(s).op
        /\ Current(s).op \in {"create", "update"} => Current(s).val # None
        /\ Exists(s, k0) <=> Op(k0) # "create"
        /\ Listed(s, k0) <=> Op(k0) # "create"
        /\ Index[k0] \in Entries
    BY <1>1, <1>2, <1>3, HeldFinds
  <1>5. /\ \A e \in Entries, t \in Servers : NamesOf(e, in_charge_md'[t][e])
        /\ \A k \in Keys, t \in Servers : Listed(t, k)' <=> Listed(t, k)
        /\ Holds(in_charge_md'[s][Index[k0]], k0) <=> Op(k0) # "create"
    BY <1>1, <1>4 DEF Kept, NamesOK, Listed, NamesAt
  <1>6. CASE SrvPut(s)
    <2>1. Op(k0) = "create" /\ UNCHANGED up
      BY <1>4, <1>6 DEF SrvPut, Processes
    <2>2. SetFile(s, k0, Current(s).val) /\ ToList(s)
      BY <1>3, <1>4, <1>6, <2>1 DEF SrvPut
    <2>3. Touches(s, c) /\ net'[c] = "taken" /\ srvPc'[s] = "list" /\ serving'[s] = c
      BY <1>0, <1>1, <1>2, <1>4, <2>2, ToListTouches
    <2>4. /\ store'[s][k0] # None
          /\ \A k \in Keys, t \in Servers : k # k0 \/ t # s => store'[t][k] = store[t][k]
      BY <1>0, <1>4, <2>1, <2>2, FileWritten
    <2>. QED
      BY <1>1, <1>2, <1>3, <1>5, <2>1, <2>3, <2>4, HeldKept
  <1>7. CASE SrvDelete(s)
    <2>1. Op(k0) = "delete" /\ UNCHANGED up
      BY <1>4, <1>7 DEF SrvDelete, Processes
    <2>2. SetFile(s, k0, None) /\ ToList(s)
      BY <1>3, <1>4, <1>7, <2>1 DEF SrvDelete
    <2>3. Touches(s, c) /\ net'[c] = "taken" /\ srvPc'[s] = "list" /\ serving'[s] = c
      BY <1>0, <1>1, <1>2, <1>4, <2>2, ToListTouches
    <2>4. /\ store'[s][k0] = None
          /\ \A k \in Keys, t \in Servers : k # k0 \/ t # s => store'[t][k] = store[t][k]
      BY <1>0, <2>2, FileWritten
    <2>. QED
      BY <1>1, <1>2, <1>3, <1>5, <2>1, <2>3, <2>4, HeldKept
  <1>8. CASE SrvUpdate(s)
    <2>1. Op(k0) = "update" /\ UNCHANGED up
      BY <1>4, <1>8 DEF SrvUpdate, Processes
    <2>2. SetFile(s, k0, Current(s).val) /\ Finish(s, "done", None)
      BY <1>3, <1>4, <1>8, <2>1 DEF SrvUpdate
    <2>3. Touches(s, c) /\ net'[c] = "replied" /\ rep'[c].flag = "done"
      BY <1>0, <1>1, <1>2, <2>2, FinishTouches
    <2>4. /\ store'[s][k0] # None
          /\ \A k \in Keys, t \in Servers : k # k0 \/ t # s => store'[t][k] = store[t][k]
      BY <1>0, <1>4, <2>1, <2>2, FileWritten
    <2>. QED
      BY <1>1, <1>2, <1>3, <1>5, <2>1, <2>3, <2>4, HeldKept
  <1>9. CASE SrvGet(s)
    <2>1. Op(k0) = "get" /\ UNCHANGED store
      BY <1>4, <1>9 DEF SrvGet, Processes, sharedVars
    <2>2. Finish(s, "done", store[s][k0]) /\ UNCHANGED up
      BY <1>3, <1>4, <1>9, <2>1 DEF SrvGet
    <2>3. Touches(s, c) /\ net'[c] = "replied" /\ rep'[c].flag = "done"
      BY <1>0, <1>1, <1>2, <2>2, FinishTouches
    <2>4. store'[s][k0] # None
      BY <1>4, <2>1 DEF Exists
    <2>. QED
      BY <1>1, <1>2, <1>3, <1>5, <2>1, <2>2, <2>3, <2>4, HeldKept
  <1>. QED
    BY <1>6, <1>7, <1>8, <1>9

(* distribution_pre_send: md_entry_insert of a name that is not listed,    *)
(* md_entry_search_md_name of one that is.                                 *)
LEMMA SrvListKept ==
  ASSUME IndInv, HandoverInv, Kept, NEW s \in Servers, MainStep(s), SrvInsert(s) \/ SrvUnlink(s)
  PROVE  Kept'
  <1>0. TypeOK /\ NamesOK
    BY DEF IndInv, Kept
  <1>1. /\ UNCHANGED <<xfer, sndPc, sndEntry, sndPtr, sndNames, rcvPc, rcvEntry, rcvNames>>
        /\ UNCHANGED <<req, cPc, made, acked, phase, mlts>>
        /\ srvPc[s] = "list" /\ UNCHANGED <<store, up>>
    <2>1. srvPc[s] = "list" /\ UNCHANGED <<store, up>>
      BY DEF SrvInsert, SrvUnlink, Listing
    <2>. QED
      BY <2>1, HeldFrame
  <1>2. PICK c \in Clients : c = serving[s]
    BY <1>1, HeldFinds
  <1>3. PICK k0 \in Keys : k0 = Current(s).key
    BY <1>1, HeldFinds
  <1>e. PICK e0 \in Entries : e0 = Index[k0]
    BY <1>1, <1>3, HeldFinds
  <1>. DEFINE list == in_charge_md[s][e0]
  <1>4. /\ net[c] = "taken" /\ Op(k0) = Current(s).op
        /\ Op(k0) \in {"create", "delete"}
        /\ Exists(s, k0) <=> Op(k0) # "delete"
        /\ Listed(s, k0) <=> Op(k0) # "create"
    BY <1>1, <1>2, <1>3, HeldFinds
  <1>5. list \in Seq(Keys) /\ NamesOf(e0, list) /\ (Holds(list, k0) <=> Op(k0) # "create")
    BY <1>0, <1>4, <1>e, MetadataTypes DEF NamesOK, Listed, NamesAt
  <1>6. PICK new : /\ in_charge_md' = [in_charge_md EXCEPT ![s][e0] = new]
                   /\ NamesOf(e0, new)
                   /\ \A k \in Keys : k # k0 => (Holds(new, k) <=> Holds(list, k))
                   /\ Holds(new, k0) <=> Op(k0) # "delete"
                   /\ Finish(s, "done", None)
    <2>1. CASE SrvInsert(s)
      <3>. DEFINE new == md_entry_insert(list, k0)
      <3>1. Op(k0) = "create" /\ Finish(s, "done", None)
        BY <1>4, <2>1 DEF SrvInsert, Listing
      <3>2. in_charge_md' = [in_charge_md EXCEPT ![s][e0] = new]
        BY <1>3, <1>e, <2>1 DEF SrvInsert
      <3>3. /\ \A k : Holds(new, k) <=> k = k0 \/ Holds(list, k)
            /\ NamesOf(e0, list) /\ ~Holds(list, k0) /\ Index[k0] = e0 => NamesOf(e0, new)
        BY <1>5, InsertNames
      <3>. HIDE DEF new, list
      <3>. QED
        BY <1>5, <1>e, <3>1, <3>2, <3>3
    <2>2. CASE SrvUnlink(s)
      <3>. DEFINE new == md_entry_search_md_name(list, k0)
      <3>1. Op(k0) = "delete"
        BY <1>4, <2>2 DEF SrvUnlink, Listing
      <3>2. InList(list, k0)
        BY <1>5, <3>1 DEF InList, Holds
      <3>3. in_charge_md' = [in_charge_md EXCEPT ![s][e0] = new] /\ Finish(s, "done", None)
        BY <1>3, <1>e, <2>2, <3>2 DEF SrvUnlink
      <3>4. /\ \A k : Holds(new, k) <=> k # k0 /\ Holds(list, k)
            /\ NamesOf(e0, new)
        BY <1>5, <3>1, SearchNames
      <3>. HIDE DEF new, list
      <3>. QED
        BY <1>5, <3>1, <3>3, <3>4
    <2>. QED
      BY <2>1, <2>2
  <1>7. Touches(s, c) /\ net'[c] = "replied" /\ rep'[c].flag = "done"
    BY <1>0, <1>1, <1>2, <1>6, FinishTouches
  <1>8. /\ in_charge_md'[s][e0] = new
        /\ \A e \in Entries, t \in Servers : NamesOf(e, in_charge_md'[t][e])
        /\ \A e \in Entries, t \in Servers :
              e # e0 \/ t # s => in_charge_md'[t][e] = in_charge_md[t][e]
    <2>1. in_charge_md' = [in_charge_md EXCEPT ![s][e0] = new] /\ NamesOf(e0, new)
      BY <1>6
    <2>2. /\ in_charge_md'[s][e0] = new
          /\ \A e \in Entries, t \in Servers :
               e # e0 \/ t # s => in_charge_md'[t][e] = in_charge_md[t][e]
      BY <1>0, <2>1, MetadataTypes
    <2>. QED
      BY <1>0, <2>1, <2>2 DEF NamesOK, NamesAt
  <1>9. ASSUME NEW k \in Keys, NEW t \in Servers, k # k0 \/ t # s
        PROVE  Listed(t, k)' <=> Listed(t, k)
    <2>1. Index[k] \in Entries
      BY <1>0, MetadataTypes
    <2>2. CASE Index[k] # e0 \/ t # s
      BY <1>8, <2>1, <2>2 DEF Listed
    <2>3. CASE Index[k] = e0 /\ t = s
      BY <1>6, <1>8, <1>9, <2>3 DEF Listed
    <2>. QED
      BY <2>2, <2>3
  <1>10. store'[s][k0] # None <=> Op(k0) # "delete"
    BY <1>1, <1>4 DEF Exists
  <1>11. Holds(in_charge_md'[s][Index[k0]], k0) <=> Op(k0) # "delete"
    BY <1>6, <1>8, <1>e
  <1>12. \A k \in Keys, t \in Servers : store'[t][k] # None <=> store[t][k] # None
    BY <1>1
  <1>. HIDE DEF list
  <1>. QED
    BY <1>1, <1>2, <1>3, <1>7, <1>8, <1>9, <1>10, <1>11, <1>12, HeldKept

(* Every step of the request loop.                                         *)
LEMMA MainKept ==
  ASSUME IndInv, HandoverInv, Kept, NEW s \in Servers, MainStep(s)
  PROVE  Kept'
  BY SrvReceiveKept, SrvStoreKept, SrvListKept DEF MainStep, MainNext

-----------------------------------------------------------------------------
(* The clients *)

(* A client starts a line of its trace: the request is on its way, and the *)
(* file and the list element are still what was acknowledged.              *)
LEMMA CliIssueKept ==
  ASSUME IndInv, HandoverInv, Kept, NEW c \in Clients, CliStep(c), NEW op \in Ops, NEW k \in Keys,
         CliIssue(c, op, k)
  PROVE  Kept'
  <1>0. TypeOK /\ ExchangesOK
    BY DEF IndInv
  <1>1. /\ net[c] = "idle" /\ cPc[c] = "running" /\ TraceOf[k] = c /\ InTrace(op, k)
        /\ op \in AllOps /\ Index[k] \in Entries
    BY <1>0, MetadataTypes, DataAssumption DEF CliIssue
  <1>2. phase = "clients"
    BY <1>1 DEF Kept, RequestsOK
  <1>3. UNCHANGED <<store, in_charge_md, up, cPc, rep, acked, phase, mlts, srvPc, serving, xfer,
                    sndPc, sndEntry, sndPtr, sndNames, rcvPc, rcvEntry, rcvNames>>
    BY DEF CliStep, CliIssue, srvVars, thrVars, launchVars, mgrChannel
  <1>4. PICK v \in Contents(op) : req' = [req EXCEPT ![c] = Addressed(cTable[c], op, k, v)]
    BY DEF CliIssue
  <1>5. /\ req'[c].op = op /\ req'[c].key = k /\ req'[c].val = v
        /\ \A d \in Clients \ {c} : req'[d] = req[d]
    BY <1>0, <1>4, MetadataTypes DEF Addressed
  <1>6. net'[c] = "sent" /\ \A d \in Clients \ {c} : net'[d] = net[d]
    BY <1>0, MetadataTypes DEF CliIssue
  <1>7. made' = CASE op = "create" -> made \cup {k}
                  [] op = "delete" -> made \ {k}
                  [] OTHER -> made
    BY DEF CliIssue
  <1>8. Only(c, k)
    <2>1. \A j \in Keys \ {k} : j \in made' <=> j \in made
      BY <1>1, <1>7
    <2>. QED
      BY <1>1, <1>2, <1>3, <1>5, <1>6, <2>1 DEF Only
  <1>9. ~Busy(k) /\ Busy(k)' /\ Op(k)' = op /\ ~Applied(c)' /\ ~Completed(c)'
    BY <1>1, <1>5, <1>6 DEF Busy, Op, Applied, Completed
  <1>10. k \in made <=> acked[k] # None
    BY <1>9 DEF Kept, TracesOK, TraceOK
  <1>11. acked[k] # None <=> op # "create"
    BY <1>1, <1>10 DEF InTrace
  <1>12. AnswerIsNewer'
    BY <1>6, <1>8, OnlyAnswers DEF Kept
  <1>13. RequestsOK'
    <2>1. op \in {"create", "update"} => v # None
      BY DataAssumption DEF Contents
    <2>2. RequestOK(c)'
      BY <1>1, <1>3, <1>5, <1>6, <2>1 DEF RequestOK
    <2>. QED
      BY <1>0, <1>8, <2>2, OnlyRequests DEF Kept
  <1>14. TracesOK'
    <2>1. k \in made' <=> op # "delete"
      BY <1>1, <1>7 DEF InTrace
    <2>2. TraceOK(k)'
      BY <1>3, <1>9, <1>11, <2>1 DEF TraceOK
    <2>. QED
      BY <1>0, <1>8, <2>2, OnlyTraces DEF Kept
  <1>15. NamesOK' /\ DrainOK' /\ ArriveOK'
    BY <1>2, <1>3, NamesAtRest DEF Kept, NamesOK, NamesAt
  <1>16. RestingOK'
    <2>1. HasFile(k)' <=> HasFile(k)
      BY <1>1, <1>9, <1>11 DEF HasFile
    <2>2. HasName(k)' <=> HasName(k)
      BY <1>1, <1>9, <1>11 DEF HasName
    <2>3. PICK e \in Entries : e = Index[k]
      BY <1>1
    <2>4. PICK s0 \in Servers : s0 = New(e)
      BY <1>0, NewType
    <2>5. /\ store[s0][k] # None <=> HasFile(k)
          /\ Listed(s0, k) <=> HasName(k)
      BY <1>2, <2>3, <2>4 DEF Kept, RestingOK
    <2>6. store'[New(Index[k])][k] # None <=> HasFile(k)'
      BY <1>3, <2>1, <2>3, <2>4, <2>5
    <2>7. Holds(in_charge_md'[New(Index[k])][Index[k]], k) <=> HasName(k)'
      BY <1>3, <2>2, <2>3, <2>4, <2>5 DEF Listed
    <2>8. \A j \in Keys, t \in Servers : (store'[t][j] # None <=> store[t][j] # None)
                                         /\ (Listed(t, j)' <=> Listed(t, j))
      BY <1>3 DEF Listed
    <2>. QED
      BY <1>0, <1>8, <2>6, <2>7, <2>8, OnlyResting DEF Kept
  <1>. QED
    BY <1>3, <1>12, <1>13, <1>14, <1>15, <1>16 DEF Kept, NoThreadFails

(* A client takes its answer: it repeats the request, gives a get up, or   *)
(* acknowledges what the server has done.                                  *)
LEMMA CliReplyKept ==
  ASSUME IndInv, HandoverInv, Kept, NEW c \in Clients, CliStep(c), CliReply(c)
  PROVE  Kept'
  <1>0. TypeOK /\ ExchangesOK
    BY DEF IndInv
  <1>1. net[c] = "replied"
    BY DEF CliReply
  <1>2. PICK k \in Keys : k = req[c].key
    BY <1>0, <1>1, RequestKey DEF Kept
  <1>3. PICK op \in AllOps : op = req[c].op
    BY <1>0, <1>1, RequestKey DEF Kept, Request
  <1>4. /\ TraceOf[k] = c /\ Busy(k) /\ Op(k) = op /\ RequestOK(c) /\ cPc[c] = "running"
        /\ phase = "clients" /\ Index[k] \in Entries
        /\ op \in {"create", "update"} => req[c].val # None
        /\ rep[c].flag \in {"done", "update&retry"}
    <2>1. /\ TraceOf[k] = c /\ Busy(k) /\ Op(k) = op /\ RequestOK(c) /\ cPc[c] = "running"
          /\ phase = "clients" /\ Index[k] \in Entries
      BY <1>0, <1>1, <1>2, <1>3, RequestKey DEF Kept
    <2>. QED
      BY <1>1, <1>3, <2>1 DEF RequestOK
  <1>5. UNCHANGED <<store, in_charge_md, up, cPc, made, phase, mlts, srvPc, serving, xfer,
                    sndPc, sndEntry, sndPtr, sndNames, rcvPc, rcvEntry, rcvNames>>
    BY DEF CliStep, CliReply, srvVars, thrVars, launchVars, mgrChannel
  <1>6. /\ net'[c] # "replied" /\ net'[c] # "taken"
        /\ net'[c] # "idle" => /\ rep[c].flag = "update&retry"
                               /\ req'[c].key = k /\ req'[c].op = op /\ req'[c].val = req[c].val
        /\ net'[c] = "idle" => rep[c].flag = "done" \/ op = "get"
        /\ \A d \in Clients \ {c} : net'[d] = net[d] /\ req'[d] = req[d] /\ rep'[d] = rep[d]
    <2>. DEFINE t == Learn(cTable[c], Index[req[c].key], rep[c])
    <2>1. /\ rep' = [rep EXCEPT ![c] = None]
          /\ \/ /\ Repeats(op, rep[c].flag)
                /\ req' = [req EXCEPT ![c] = Addressed(t, op, k, req[c].val)]
                /\ net' = [net EXCEPT ![c] = "sent"]
             \/ /\ ~Repeats(op, rep[c].flag)
                /\ req' = [req EXCEPT ![c] = None]
                /\ net' = [net EXCEPT ![c] = "idle"]
      BY <1>2, <1>3 DEF CliReply
    <2>. HIDE DEF t
    <2>2. CASE Repeats(op, rep[c].flag)
      <3>1. rep[c].flag = "update&retry"
        BY <1>4, <2>2 DEF Repeats
      <3>. QED
        BY <1>0, <2>1, <2>2, <3>1, MetadataTypes DEF Addressed
    <2>3. CASE ~Repeats(op, rep[c].flag)
      <3>1. rep[c].flag = "done" \/ op = "get"
        BY <1>4, <2>3 DEF Repeats, AllOps
      <3>. QED
        BY <1>0, <2>1, <2>3, <3>1, MetadataTypes
    <2>. QED
      BY <2>2, <2>3
  <1>7. /\ rep[c].flag = "done" =>
             acked'[k] = CASE op \in {"create", "update"} -> req[c].val
                           [] op = "delete" -> None
                           [] OTHER -> acked[k]
        /\ rep[c].flag # "done" => acked' = acked
        /\ \A j \in Keys \ {k} : acked'[j] = acked[j]
    <2>1. IF rep[c].flag = "done" THEN Acknowledge(op, k, req[c].val) ELSE UNCHANGED acked
      BY <1>2, <1>3 DEF CliReply
    <2>2. acked \in [Keys -> File]
      BY <1>0, MetadataTypes
    <2>. QED
      BY <2>1, <2>2 DEF Acknowledge, AllOps
  <1>8. Only(c, k)
    BY <1>2, <1>4, <1>5, <1>6, <1>7 DEF Only
  <1>9. /\ k \in made <=> op # "delete"
        /\ acked[k] # None <=> op # "create"
    BY <1>4 DEF Kept, TracesOK, TraceOK
  <1>10. /\ Completed(c) <=> rep[c].flag = "done"
         /\ Applied(c) <=> rep[c].flag = "done"
         /\ ~Completed(c)' /\ ~Applied(c)'
    BY <1>1, <1>6 DEF Completed, Applied
  <1>11. /\ Busy(k)' <=> net'[c] # "idle"
         /\ net'[c] # "idle" => Op(k)' = op
    BY <1>4, <1>6 DEF Busy, Op
  <1>12. net'[c] = "idle" => (acked'[k] # None <=> op # "delete")
    BY <1>4, <1>6, <1>7, <1>9
  <1>13. net'[c] # "idle" => acked' = acked
    BY <1>6, <1>7
  <1>14. AnswerIsNewer'
    BY <1>6, <1>8, OnlyAnswers DEF Kept
  <1>15. RequestsOK'
    <2>1. RequestOK(c)'
      BY <1>4, <1>5, <1>6 DEF RequestOK
    <2>. QED
      BY <1>0, <1>8, <2>1, OnlyRequests DEF Kept
  <1>16. TracesOK'
    <2>1. k \in made' <=> k \in made
      BY <1>5
    <2>2. TraceOK(k)'
      BY <1>9, <1>11, <1>12, <1>13, <2>1 DEF TraceOK
    <2>. QED
      BY <1>0, <1>8, <2>2, OnlyTraces DEF Kept
  <1>17. NamesOK' /\ DrainOK' /\ ArriveOK'
    BY <1>4, <1>5, NamesAtRest DEF Kept, NamesOK, NamesAt
  <1>18. RestingOK'
    <2>1. HasFile(k)' <=> HasFile(k)
      BY <1>4, <1>6, <1>9, <1>10, <1>11, <1>12, <1>13 DEF HasFile
    <2>2. HasName(k)' <=> HasName(k)
      BY <1>4, <1>6, <1>9, <1>10, <1>11, <1>12, <1>13 DEF HasName
    <2>3. PICK e \in Entries : e = Index[k]
      BY <1>4
    <2>4. PICK s0 \in Servers : s0 = New(e)
      BY <1>0, NewType
    <2>5. /\ store[s0][k] # None <=> HasFile(k)
          /\ Listed(s0, k) <=> HasName(k)
      BY <1>4, <2>3, <2>4 DEF Kept, RestingOK
    <2>6. store'[New(Index[k])][k] # None <=> HasFile(k)'
      BY <1>5, <2>1, <2>3, <2>4, <2>5
    <2>7. Holds(in_charge_md'[New(Index[k])][Index[k]], k) <=> HasName(k)'
      BY <1>5, <2>2, <2>3, <2>4, <2>5 DEF Listed
    <2>8. \A j \in Keys, s \in Servers : (store'[s][j] # None <=> store[s][j] # None)
                                         /\ (Listed(s, j)' <=> Listed(s, j))
      BY <1>5 DEF Listed
    <2>. QED
      BY <1>0, <1>8, <2>6, <2>7, <2>8, OnlyResting DEF Kept
  <1>. QED
    BY <1>5, <1>14, <1>15, <1>16, <1>17, <1>18 DEF Kept, NoThreadFails

-----------------------------------------------------------------------------
(* Steps that leave the metadata alone *)

metaVars == <<net, req, rep, made, acked, store, in_charge_md, up, srvPc, serving, xfer,
              sndPc, sndEntry, sndPtr, sndNames, rcvPc, rcvEntry, rcvNames>>

(* MetadataInv but for the two conjuncts about the clients' processes and  *)
(* the place of the keys.                                                  *)
Rest == NoThreadFails /\ AnswerIsNewer /\ TracesOK /\ NamesOK /\ DrainOK /\ ArriveOK

(* Steps that change no file, name, thread or request, ... *)
LEMMA RestFrame ==
  ASSUME Rest, UNCHANGED metaVars
  PROVE  Rest'
  <1>1. NoThreadFails' /\ AnswerIsNewer'
    BY DEF Rest, metaVars, NoThreadFails, AnswerIsNewer
  <1>2. TracesOK'
    <2>. SUFFICES ASSUME NEW k \in Keys PROVE TraceOK(k)'
      BY DEF TracesOK
    <2>1. TraceOK(k)
      BY DEF Rest, TracesOK
    <2>2. (Busy(k)' <=> Busy(k)) /\ Op(k)' = Op(k)
      BY DEF metaVars, Busy, Op
    <2>. QED
      BY <2>1, <2>2 DEF TraceOK, metaVars
  <1>3. NamesOK' /\ DrainOK' /\ ArriveOK'
    BY DEF Rest, metaVars, NamesOK, DrainOK, ArriveOK, NamesAt, DrainAt, ArriveAt
  <1>. QED
    BY <1>1, <1>2, <1>3 DEF Rest

(* ... for the files at rest ... *)
LEMMA RestingFrame ==
  ASSUME RestingOK, phase = "clients", UNCHANGED <<metaVars, mlts>>
  PROVE  RestingOK'
  <1>. SUFFICES ASSUME NEW k \in Keys, NEW s \in Servers
                PROVE  /\ store'[s][k] # None <=> s = New(Index[k])' /\ HasFile(k)'
                       /\ Listed(s, k)' <=> s = New(Index[k])' /\ HasName(k)'
    BY DEF RestingOK
  <1>1. /\ store[s][k] # None <=> s = New(Index[k]) /\ HasFile(k)
        /\ Listed(s, k) <=> s = New(Index[k]) /\ HasName(k)
    BY DEF RestingOK
  <1>2. New(Index[k])' = New(Index[k])
    BY DEF metaVars, New, Last
  <1>3. \A c : (Completed(c)' <=> Completed(c)) /\ (Applied(c)' <=> Applied(c))
    BY DEF metaVars, Completed, Applied
  <1>4. (Busy(k)' <=> Busy(k)) /\ Op(k)' = Op(k)
    BY DEF metaVars, Busy, Op
  <1>5. (HasFile(k)' <=> HasFile(k)) /\ (HasName(k)' <=> HasName(k))
    BY <1>3, <1>4 DEF HasFile, HasName, metaVars
  <1>6. store' = store /\ (Listed(s, k)' <=> Listed(s, k))
    BY DEF metaVars, Listed
  <1>. QED
    BY <1>1, <1>2, <1>5, <1>6

(* ... and for a key that moves. *)
LEMMA MovingFrame ==
  ASSUME NEW k \in Keys, Moving(k), UNCHANGED metaVars, Keeper(Index[k])' = Keeper(Index[k])
  PROVE  Moving(k)'
  <1>1. \A s \in Servers :
          /\ Listed(s, k)' <=> Listed(s, k)
          /\ Popped(s, k)' <=> Popped(s, k)
          /\ Packed(s, k)' <=> Packed(s, k)
          /\ Sent(s, k)' <=> Sent(s, k)
          /\ Arriving(s, k)' <=> Arriving(s, k)
    BY DEF metaVars, Listed, Popped, Packed, Sent, Arriving
  <1>2. UNCHANGED <<store, rcvPc, rcvNames, acked>>
    BY DEF metaVars
  <1>. QED
    BY <1>1, <1>2 DEF Moving, Here, Some

(* A client that exits changes no file and no request. *)
LEMMA CliExitKept ==
  ASSUME Kept, NEW c \in Clients, CliStep(c), CliExit(c)
  PROVE  Kept'
  <1>1. UNCHANGED <<metaVars, mlts, phase>> /\ net[c] = "idle" /\ cPc[c] = "running"
    BY DEF CliStep, CliExit, metaVars, srvVars, thrVars, launchVars, mgrChannel, clientChannel
  <1>2. Rest' /\ phase = "clients"
    BY <1>1, RestFrame DEF Kept, Rest, RequestsOK
  <1>3. RestingOK'
    BY <1>1, <1>2, RestingFrame DEF Kept
  <1>4. RequestsOK'
    <2>. SUFFICES ASSUME NEW d \in Clients PROVE RequestOK(d)'
      BY <1>1, <1>2 DEF RequestsOK
    <2>1. RequestOK(d)
      BY DEF Kept, RequestsOK
    <2>2. cPc'[d] = "exited" => net[d] = "idle"
      <3>1. cPc' = [cPc EXCEPT ![c] = "exited"]
        BY DEF CliExit
      <3>2. d # c => cPc'[d] = cPc[d]
        BY <3>1
      <3>. QED
        BY <1>1, <2>1, <3>2 DEF RequestOK
    <2>3. \A e : New(e)' = New(e)
      BY <1>1 DEF metaVars, New, Last
    <2>. QED
      BY <1>1, <2>1, <2>2, <2>3 DEF RequestOK, metaVars
  <1>. QED
    BY <1>2, <1>3, <1>4 DEF Kept, Rest

(* The keeper of an entry depends on the tables and the packets only. *)
keeperVars == <<mlts, seen, updPc, scan, to_send, xfer, sndEntry>>

(* The keeper of an entry depends on these variables only. *)
LEMMA KeeperFrame ==
  ASSUME UNCHANGED keeperVars
  PROVE  \A e : Keeper(e)' = Keeper(e)
  <1>. TAKE e
  <1>1. Last' = Last /\ (Moves(e)' <=> Moves(e)) /\ Old(e)' = Old(e) /\ New(e)' = New(e)
    BY DEF keeperVars, Last, Moves, Old, New
  <1>2. Given(e)' <=> Given(e)
    BY <1>1 DEF keeperVars, Given, At
  <1>3. Handed(e)' <=> Handed(e)
    BY <1>1, <1>2 DEF keeperVars, Handed
  <1>. QED
    BY <1>1, <1>3 DEF Keeper

(* Steps that leave the requests alone. *)
LEMMA RequestsFrame ==
  ASSUME RequestsOK, UNCHANGED <<metaVars, mlts, phase, cPc>>
  PROVE  RequestsOK'
  <1>1. \A e : New(e)' = New(e)
    BY DEF New, Last
  <1>. QED
    BY <1>1 DEF RequestsOK, RequestOK, metaVars

(* The invariant by the parts that the two halves are shown by. *)
LEMMA MetadataParts ==
  /\ phase # "clients" /\ MovingOK => \A k \in Keys : Moving(k)
  /\ MetadataInv <=> Rest /\ RequestsOK /\ RestingOK /\ MovingOK
  BY DEF MovingOK, Moving, MetadataInv, Rest, Here, Some

(* The steps of the handlers and of a manager that does not publish, and   *)
(* the updater's that touch its threads' tables only.                      *)
LEMMA QuietKept ==
  ASSUME MetadataInv, UNCHANGED <<metaVars, phase, cPc>>, UNCHANGED keeperVars
  PROVE  MetadataInv'
  <1>1. Rest /\ RequestsOK /\ RestingOK /\ UNCHANGED mlts
    BY MetadataParts DEF keeperVars
  <1>2. Rest' /\ RequestsOK'
    BY <1>1, RestFrame, RequestsFrame
  <1>3. RestingOK'
    BY <1>1, RestingFrame DEF RestingOK
  <1>4. MovingOK'
    <2>. SUFFICES ASSUME phase' # "clients", NEW k \in Keys PROVE Moving(k)'
      BY DEF MovingOK
    <2>1. Moving(k)
      BY MetadataParts
    <2>2. Keeper(Index[k])' = Keeper(Index[k])
      BY KeeperFrame
    <2>. QED
      BY <2>1, <2>2, MovingFrame
  <1>. QED
    BY <1>2, <1>3, <1>4 DEF MetadataInv, Rest

(* With the transfer threads at rest no name is on its way. *)
LEMMA NoneMoving ==
  ASSUME IndInv, HandoverInv, DrainOK, ArriveOK, phase = "clients" \/ UpdatersIdle,
         NEW s \in Servers, NEW k
  PROVE  ~Popped(s, k) /\ ~Packed(s, k) /\ ~Sent(s, k) /\ ~Arriving(s, k)
  <1>1. /\ sndPc[s] \in Ended \cup {"off"} /\ rcvPc[s] \in Ended \cup {"off"} /\ xfer[s] = None
    BY ThreadsRest
  <1>2. sndNames[s] = << >> /\ rcvNames[s] = << >>
    BY <1>1 DEF DrainOK, ArriveOK, Ended, DrainAt, ArriveAt
  <1>. QED
    BY <1>1, <1>2, EmptyNames DEF Popped, Packed, Sent, Arriving, Ended

(* The launcher signals the servers after every client of the step has     *)
(* exited: what the clients left is what the transfer starts from.         *)
LEMMA SignalKept ==
  ASSUME Barrier, IndInv, HandoverInv, MetadataInv, NEW sig, LaunchSignal(sig)
  PROVE  MetadataInv'
  <1>0. TypeOK /\ phase = "clients" /\ Rest /\ RequestsOK /\ RestingOK /\ DrainOK /\ ArriveOK
    BY MetadataParts DEF IndInv, LaunchSignal, MetadataInv
  <1>1. UNCHANGED metaVars /\ UNCHANGED keeperVars /\ UNCHANGED cPc /\ phase' # "clients"
    BY DEF LaunchSignal, metaVars, keeperVars, clientChannel, mgrChannel, srvVars, thrVars, cliVars
  <1>2. \A c \in Clients : cPc[c] = "exited" /\ net[c] = "idle"
    BY <1>0 DEF LaunchSignal, StepEnded, RequestsOK, RequestOK
  <1>3. RequestsOK'
    BY <1>1, <1>2 DEF RequestsOK, RequestOK, metaVars
  <1>4. ASSUME NEW k \in Keys PROVE Moving(k)
    <2>1. PICK e \in Entries : e = Index[k]
      BY <1>0, MetadataTypes
    <2>2. Keeper(e) = New(e) /\ New(e) \in Servers
      BY <1>0, NewType, ThreadsRest
    <2>3. ~Busy(k)
      BY <1>0, <1>2, MetadataTypes DEF Busy
    <2>4. \A s \in Servers : /\ store[s][k] # None <=> s = New(e) /\ acked[k] # None
                             /\ Listed(s, k) <=> s = New(e) /\ acked[k] # None
      BY <1>0, <2>1, <2>3 DEF RestingOK, HasFile, HasName
    <2>5. \A s \in Servers : ~Popped(s, k) /\ ~Packed(s, k) /\ ~Sent(s, k) /\ ~Arriving(s, k)
      BY <1>0, NoneMoving
    <2>. QED
      BY <2>1, <2>2, <2>4, <2>5 DEF Moving, Here, Some
  <1>5. MovingOK'
    <2>. SUFFICES ASSUME NEW k \in Keys PROVE Moving(k)'
      BY DEF MovingOK
    <2>1. Keeper(Index[k])' = Keeper(Index[k])
      BY <1>1, KeeperFrame
    <2>. QED
      BY <1>1, <1>4, <2>1, MovingFrame
  <1>6. Rest' /\ RestingOK'
    BY <1>0, <1>1, RestFrame DEF RestingOK
  <1>. QED
    BY <1>3, <1>5, <1>6 DEF MetadataInv, Rest

(* The launcher's signal to the manager touches none of it. *)
LEMMA ManagerSignalKept ==
  ASSUME MetadataInv, LaunchManager
  PROVE  MetadataInv'
  <1>1. /\ UNCHANGED metaVars /\ UNCHANGED keeperVars /\ UNCHANGED cPc
        /\ phase # "clients" /\ phase' # "clients"
    BY DEF LaunchManager, metaVars, keeperVars, clientChannel, mgrChannel, srvVars, thrVars, cliVars
  <1>2. Rest /\ RequestsOK /\ MovingOK
    BY MetadataParts
  <1>3. \A c \in Clients : cPc[c] = "exited" /\ net[c] = "idle"
    BY <1>1, <1>2 DEF RequestsOK, RequestOK
  <1>4. RequestsOK'
    BY <1>1, <1>3 DEF RequestsOK, RequestOK, metaVars
  <1>5. MovingOK'
    <2>. SUFFICES ASSUME NEW k \in Keys PROVE Moving(k)'
      BY DEF MovingOK
    <2>1. Keeper(Index[k])' = Keeper(Index[k])
      BY <1>1, KeeperFrame
    <2>2. Moving(k)
      BY <1>1, <1>2, MetadataParts
    <2>. QED
      BY <1>1, <2>1, <2>2, MovingFrame
  <1>. QED
    BY <1>1, <1>2, <1>4, <1>5, RestFrame DEF MetadataInv, Rest, RestingOK

(* synchro.bash returns when every server has acknowledged: what the       *)
(* transfer left is what the next step's clients find.                     *)
LEMMA StepKept ==
  ASSUME IndInv, HandoverInv, MetadataInv, LaunchStep
  PROVE  MetadataInv'
  <1>0. TypeOK /\ MainOK /\ Rest /\ RequestsOK /\ MovingOK /\ DrainOK /\ ArriveOK /\ LockstepOK
    BY MetadataParts DEF IndInv, MetadataInv, HandoverInv
  <1>1. /\ UNCHANGED metaVars /\ UNCHANGED keeperVars
        /\ phase # "clients" /\ phase' = "clients"
    BY DEF LaunchStep, metaVars, keeperVars, clientChannel, mgrChannel, srvVars, thrVars,
           CliRestart
  <1>2. UpdatersIdle
    BY <1>0 DEF LaunchStep, AllAcked, LockstepOK, UpdatersIdle
  <1>3. \A c \in Clients : net[c] = "idle"
    BY <1>0, <1>1, ClientsRest
  <1>4. RequestsOK'
    BY <1>1, <1>3 DEF RequestsOK, RequestOK, metaVars
  <1>5. RestingOK'
    <2>. SUFFICES ASSUME NEW k \in Keys, NEW s \in Servers
                  PROVE  /\ store'[s][k] # None <=> s = New(Index[k])' /\ HasFile(k)'
                         /\ Listed(s, k)' <=> s = New(Index[k])' /\ HasName(k)'
      BY DEF RestingOK
    <2>1. PICK e \in Entries : e = Index[k]
      BY <1>0, MetadataTypes
    <2>2. Keeper(e) = New(e) /\ New(e)' = New(e)
      BY <1>0, <1>1, <1>2, ThreadsRest DEF keeperVars, New, Last
    <2>3. ~Busy(k)'
      BY <1>0, <1>1, <1>3, MetadataTypes DEF Busy, metaVars
    <2>4. \A t \in Servers : ~Popped(t, k) /\ ~Packed(t, k) /\ ~Sent(t, k) /\ ~Arriving(t, k)
      BY <1>0, <1>2, NoneMoving
    <2>5. Moving(k)
      BY <1>0, <1>1, MetadataParts
    <2>6. /\ store[s][k] # None <=> s = New(e) /\ acked[k] # None
          /\ Listed(s, k) <=> s = New(e) /\ acked[k] # None
      BY <2>1, <2>2, <2>4, <2>5 DEF Moving, Here, Some
    <2>7. store'[s][k] = store[s][k] /\ (Listed(s, k)' <=> Listed(s, k)) /\ acked' = acked
      BY <1>1 DEF metaVars, Listed
    <2>8. (HasFile(k)' <=> acked[k] # None) /\ (HasName(k)' <=> acked[k] # None)
      BY <2>3, <2>7 DEF HasFile, HasName
    <2>. QED
      BY <2>1, <2>2, <2>6, <2>7, <2>8
  <1>. QED
    BY <1>0, <1>1, <1>4, <1>5, RestFrame DEF MetadataInv, Rest, MovingOK

-----------------------------------------------------------------------------
(* The steps of a redistribution *)

(* What no thread of a redistribution changes. *)
requestVars == <<net, req, rep, made, acked, srvPc, serving, cPc, phase, up>>

(* What is left to show for a step of the transfer. *)
LEMMA TransferKept ==
  ASSUME MetadataInv, phase # "clients", UNCHANGED requestVars,
         \A s \in Servers : sndPc'[s] # "failed" /\ rcvPc'[s] # "failed",
         NamesOK', DrainOK', ArriveOK', \A k \in Keys : Moving(k)'
  PROVE  MetadataInv'
  <1>1. NoThreadFails' /\ AnswerIsNewer'
    BY DEF MetadataInv, requestVars, NoThreadFails, AnswerIsNewer
  <1>2. TracesOK'
    <2>. SUFFICES ASSUME NEW k \in Keys PROVE TraceOK(k)'
      BY DEF TracesOK
    <2>1. TraceOK(k)
      BY DEF MetadataInv, TracesOK
    <2>2. (Busy(k)' <=> Busy(k)) /\ Op(k)' = Op(k)
      BY DEF requestVars, Busy, Op
    <2>. QED
      BY <2>1, <2>2 DEF TraceOK, requestVars
  <1>3. RequestsOK'
    <2>1. \A c \in Clients : net[c] = "idle" /\ cPc[c] = "exited"
      BY DEF MetadataInv, RequestsOK, RequestOK
    <2>. QED
      BY <2>1 DEF RequestsOK, RequestOK, requestVars
  <1>4. RestingOK' /\ MovingOK'
    BY DEF RestingOK, MovingOK, Moving, requestVars, Here, Some
  <1>. QED
    BY <1>1, <1>2, <1>3, <1>4 DEF MetadataInv

(* The manager publishes: what was the last table becomes the old one, and *)
(* no entry that moves has been handed over.                               *)
LEMMA PublishKept ==
  ASSUME IndInv, HandoverInv, MetadataInv, MgrStep, MgrSend
  PROVE  MetadataInv'
  <1>0. TypeOK /\ LockstepOK /\ Rest /\ MovingOK
    BY MetadataParts DEF IndInv, HandoverInv
  <1>1. /\ UNCHANGED metaVars /\ UNCHANGED requestVars /\ mlts' = Append(mlts, mgrTable)
        /\ UNCHANGED <<seen, updPc, scan, to_send, xfer, sndEntry>> /\ mgrPc = "send"
    BY DEF MgrStep, MgrSend, metaVars, requestVars, clientChannel, srvVars, thrVars, cliVars, launchVars
  <1>2. UpdatersIdle /\ phase # "clients"
    BY <1>0, <1>1 DEF LockstepOK, MgrQuiet
  <1>3. /\ \A s \in Servers : seen[s] = Last /\ updPc[s] = "wait" /\ xfer[s] = None
        /\ \A e \in Entries : Keeper(e) = New(e)
    BY <1>2, ThreadsRest
  <1>4. /\ Last \in Nat /\ Last' = Last + 1 /\ mlts'[Last] = mlts[Last]
    BY <1>0, <1>1, HandoverTypes DEF Last, TypeOK, ChannelsTypeOK
  <1>5. ASSUME NEW e \in Entries PROVE Keeper(e)' = New(e)
    <2>1. Last' > 1 /\ Last' - 1 = Last
      BY <1>0, <1>4, HandoverTypes
    <2>2. /\ Old(e)' = New(e)
          /\ Moves(e)' <=> mlts'[Last][e] # mlts'[Last'][e]
      BY <1>4, <2>1 DEF Old, New, Moves
    <2>3. CASE Moves(e)'
      <3>1. PICK s0 \in Servers : s0 = New(e)
        BY <1>0, NewType
      <3>2. ~Handed(e)'
        BY <1>1, <1>3, <1>4, <2>2, <3>1 DEF Handed, Given, At
      <3>. QED
        BY <2>2, <2>3, <3>2 DEF Keeper
    <2>4. CASE ~Moves(e)'
      <3>1. New(e)' = New(e)
        BY <1>4, <2>2, <2>4 DEF New
      <3>. QED
        BY <2>4, <3>1 DEF Keeper
    <2>. QED
      BY <2>3, <2>4
  <1>6. ASSUME NEW k \in Keys PROVE Moving(k)'
    <2>1. PICK e \in Entries : e = Index[k]
      BY <1>0, MetadataTypes
    <2>2. Keeper(Index[k])' = Keeper(Index[k])
      BY <1>3, <1>5, <2>1
    <2>3. Moving(k)
      BY <1>0, <1>2, MetadataParts
    <2>. QED
      BY <1>1, <2>2, <2>3, MovingFrame
  <1>7. Rest'
    BY <1>0, <1>1, RestFrame
  <1>. QED
    BY <1>1, <1>2, <1>6, <1>7, TransferKept DEF Rest, NoThreadFails

(* Nothing of server s changes but, perhaps, what its packet holds. *)
Same(s, k) ==
  /\ store'[s][k] = store[s][k]
  /\ Listed(s, k)' <=> Listed(s, k)
  /\ Popped(s, k)' <=> Popped(s, k)
  /\ Packed(s, k)' <=> Packed(s, k)
  /\ Arriving(s, k)' <=> Arriving(s, k)
  /\ Arriving(s, k) /\ Listed(s, k) => rcvPc'[s] = rcvPc[s] /\ rcvNames'[s] = rcvNames[s]

(* A step of server s on key k *)
LEMMA MovingStep ==
  ASSUME NEW k, Moving(k), NEW s \in Servers, UNCHANGED acked,
         Keeper(Index[k])' = Keeper(Index[k]),
         \A t \in Servers \ {s} : Same(t, k) /\ (Sent(t, k)' <=> Sent(t, k)),
         Here(s, k)', Some(s, k)' <=> Some(s, k)
  PROVE  Moving(k)'
  <1>1. ASSUME NEW t \in Servers PROVE Here(t, k)' /\ (Some(t, k)' <=> Some(t, k))
    <2>1. CASE t = s
      BY <2>1
    <2>2. CASE t # s
      <3>1. Here(t, k)
        BY DEF Moving
      <3>. QED
        BY <2>2, <3>1 DEF Same, Here, Some
    <2>. QED
      BY <2>1, <2>2
  <1>2. acked[k] # None <=> \E t \in Servers : Some(t, k)
    BY DEF Moving
  <1>3. acked'[k] # None <=> \E t \in Servers : Some(t, k)'
    BY <1>1, <1>2
  <1>4. \A t \in Servers : Here(t, k)'
    BY <1>1
  <1>. QED
    BY <1>3, <1>4 DEF Moving, Here, Some

(* A step that changes no server's part of key k *)
LEMMA MovingStill ==
  ASSUME NEW k, Moving(k), UNCHANGED acked,
         Keeper(Index[k])' = Keeper(Index[k]),
         \A t \in Servers : Same(t, k) /\ (Sent(t, k)' <=> Sent(t, k))
  PROVE  Moving(k)'
  <1>1. ASSUME NEW t \in Servers PROVE Here(t, k)' /\ (Some(t, k)' <=> Some(t, k))
    <2>1. Here(t, k)
      BY DEF Moving
    <2>. QED
      BY <2>1 DEF Same, Here, Some
  <1>2. acked[k] # None <=> \E t \in Servers : Some(t, k)
    BY DEF Moving
  <1>3. acked'[k] # None <=> \E t \in Servers : Some(t, k)'
    BY <1>1, <1>2
  <1>4. \A t \in Servers : Here(t, k)'
    BY <1>1
  <1>. QED
    BY <1>3, <1>4 DEF Moving, Here, Some

(* Whoever is handed an entry keeps it until the next redistribution. *)
LEMMA KeeperSame ==
  ASSUME UNCHANGED mlts, NEW e, Moves(e) => (Handed(e)' <=> Handed(e))
  PROVE  Keeper(e)' = Keeper(e)
  BY SameMoves DEF Keeper

(* thread_mlt_updater: a line it compares may join the sender's list, but  *)
(* the packet of that entry has not been made.                             *)
LEMMA UpdaterKeeper ==
  ASSUME IndInv, HandoverInv, NEW s \in Servers, UpdaterStep(s), NEW e \in Entries
  PROVE  Keeper(e)' = Keeper(e)
  <1>0. /\ TypeOK /\ ThreadsOK /\ TablesOK /\ LockstepOK /\ MovesOK
    BY DEF IndInv, HandoverInv
  <1>1. UNCHANGED <<mlts, xfer, sndEntry>>
    BY DEF UpdaterStep, UpdaterNext, UpdReceive, UpdCompare, UpdSpawn, UpdJoin, Elsewhere,
           mgrChannel, sndVars
  <1>. SUFFICES ASSUME Moves(e) PROVE Handed(e)' <=> Handed(e)
    BY <1>1, KeeperSame
  <1>2. /\ Last' = Last /\ (Moves(e)' <=> Moves(e)) /\ Old(e)' = Old(e)
    BY <1>1, SameMoves
  <1>3. PICK o \in Servers : o = Old(e)
    BY <1>0, MoveTypes DEF Moves
  <1>. SUFFICES Given(e)' <=> Given(e)
    BY <1>1, <1>2 DEF Handed
  <1>4. CASE UpdReceive(s)
    <2>1. /\ updPc[s] = "wait" /\ seen[s] < Last
          /\ seen' = [seen EXCEPT ![s] = @ + 1] /\ scan' = [scan EXCEPT ![s] = 0]
          /\ to_send' = [to_send EXCEPT ![s] = {}] /\ updPc' = [updPc EXCEPT ![s] = "scan"]
      BY <1>4 DEF UpdReceive, Last
    <2>2. seen[s] = Last - 1
      <3>1. seen[s] \in Nat /\ Last \in Nat /\ seen[s] >= Last - 1 /\ seen[s] < Last
        <4>1. seen[s] >= Last - 1
          BY <1>0 DEF LockstepOK
        <4>. QED
          BY <1>0, <2>1, <4>1, HandoverTypes
      <3>. QED
        BY <3>1
    <2>3. At(s, e) = Last - 1 /\ At(s, e)' = Last - 1 /\ Last - 1 # Last
          /\ \A t \in Servers \ {s} : At(t, e)' = At(t, e) /\ to_send'[t] = to_send[t]
      BY <1>0, <2>1, <2>2, HandoverTypes DEF At, Entries
    <2>. QED
      BY <1>1, <1>2, <1>3, <2>3 DEF Given
  <1>5. CASE UpdCompare(s)
    <2>1. PICK i \in Entries : i = scan[s]
      BY <1>0, <1>5, HandoverTypes, SizesAssumption DEF UpdCompare, Entries
    <2>2. updPc[s] = "scan" /\ scan' = [scan EXCEPT ![s] = i + 1] /\ UNCHANGED <<seen, updPc>>
      BY <1>5, <2>1 DEF UpdCompare
    <2>3. seen[s] = Last /\ Last > 1 /\ xfer[s] = None
      <3>1. sndPc[s] \in Ended \cup {"off"}
        BY <1>0, <2>2 DEF ThreadsOK
      <3>2. xfer[s] = None
        BY <1>0, <3>1 DEF ThreadsOK, Ended
      <3>. QED
        BY <1>0, <2>2, <3>2, HandoverTypes DEF LockstepOK, TablesOK
    <2>4. /\ At(s, i) = Last - 1 /\ At(s, i)' = Last
          /\ \A t \in Servers : t # s \/ e # i => At(t, e)' = At(t, e)
      <3>1. scan'[s] = i + 1 /\ (i + 1 <= i <=> FALSE) /\ (i <= i <=> TRUE)
              /\ (i # e => (i + 1 <= e <=> i <= e)) /\ Last \in Nat
        BY <1>0, <2>2, HandoverTypes DEF Entries
      <3>2. \A t \in Servers \ {s} : scan'[t] = scan[t]
        BY <1>0, <2>2, HandoverTypes
      <3>. QED
        BY <2>1, <2>2, <2>3, <3>1, <3>2 DEF At
    <2>5. /\ \A t \in Servers : t # s \/ e # i => (e \in to_send'[t] <=> e \in to_send[t])
          /\ i = e /\ o = s => e \in to_send'[s]
      <3>1. to_send' = to_send \/ to_send' = [to_send EXCEPT ![s] = @ \cup {i}]
        BY <1>5, <2>1 DEF UpdCompare
      <3>2. ASSUME i = e, o = s PROVE e \in to_send'[s]
        <4>1. AssignmentOf(table[s][e]) = mlts[Last - 1][e]
          BY <1>0, <2>3, <2>4, <3>2 DEF TablesOK
        <4>2. table[s][i].n_ver # mlts[seen[s]][i].n_ver /\ table[s][i].id_srv = s
          <5>1. mlts[Last - 1][e].n_ver # mlts[Last][e].n_ver
            BY <1>0 DEF MovesOK
          <5>2. table[s][e].id_srv = Old(e) /\ table[s][e].n_ver = mlts[Last - 1][e].n_ver
            BY <4>1 DEF AssignmentOf, Old
          <5>. QED
            BY <1>3, <2>3, <3>2, <5>1, <5>2
        <4>3. to_send' = [to_send EXCEPT ![s] = @ \cup {i}]
          BY <1>5, <2>1, <4>2 DEF UpdCompare
        <4>. QED
          BY <1>0, <3>2, <4>3, HandoverTypes
      <3>. QED
        BY <1>0, <3>1, <3>2, HandoverTypes
    <2>6. CASE i = e /\ o = s
      <3>1. ~Given(e)
        BY <1>0, <1>3, <2>4, <2>6, HandoverTypes DEF Given
      <3>2. ~Given(e)'
        BY <1>1, <1>2, <1>3, <2>3, <2>5, <2>6 DEF Given
      <3>. QED
        BY <3>1, <3>2
    <2>7. CASE i # e \/ o # s
      BY <1>1, <1>2, <1>3, <2>4, <2>5, <2>7 DEF Given
    <2>. QED
      BY <2>6, <2>7
  <1>6. CASE UpdSpawn(s) \/ UpdJoin(s)
    <2>1. /\ UNCHANGED <<seen, scan, to_send>>
          /\ \A t \in Servers \ {s} : updPc'[t] = updPc[t]
          /\ updPc[s] # "scan" \/ scan[s] = NEntry
          /\ updPc'[s] # "scan"
      BY <1>0, <1>6, HandoverTypes DEF UpdSpawn, UpdJoin
    <2>2. \A t \in Servers : At(t, e)' = At(t, e)
      <3>1. ~(NEntry <= e)
        BY SizesAssumption DEF Entries
      <3>. QED
        BY <2>1, <3>1 DEF At
    <2>. QED
      BY <1>1, <1>2, <1>3, <2>1, <2>2 DEF Given
  <1>. QED
    BY <1>4, <1>5, <1>6 DEF UpdaterStep, UpdaterNext

(* The thread that reads the table keeps the invariant, ... *)
LEMMA UpdaterKept ==
  ASSUME IndInv, HandoverInv, MetadataInv, NEW s \in Servers, UpdaterStep(s)
  PROVE  MetadataInv'
  <1>0. /\ TypeOK /\ ThreadsOK /\ Rest /\ MovingOK /\ NamesOK /\ DrainOK /\ ArriveOK
    BY MetadataParts DEF IndInv, MetadataInv
  <1>1. phase # "clients"
    BY ThreadsStop DEF UpdaterStep
  <1>2. /\ UNCHANGED requestVars
        /\ UNCHANGED <<mlts, store, in_charge_md, xfer, sndEntry, sndPtr, sndNames, rcvEntry,
                       rcvNames>>
    BY DEF UpdaterStep, UpdaterNext, UpdReceive, UpdCompare, UpdSpawn, UpdJoin, Elsewhere,
           requestVars, clientChannel, mgrChannel, cliVars, launchVars, srvVars, mainVars, sndVars,
           rcvVars
  <1>3. \/ UNCHANGED <<sndPc, rcvPc>>
        \/ /\ sndPc' = [sndPc EXCEPT ![s] = "next"] /\ rcvPc' = [rcvPc EXCEPT ![s] = "recv"]
           /\ sndPc[s] \in Ended \cup {"off"} /\ rcvPc[s] \in Ended \cup {"off"}
    <2>1. UpdReceive(s) \/ UpdCompare(s) \/ UpdJoin(s) => UNCHANGED <<sndPc, rcvPc>>
      BY DEF UpdReceive, UpdCompare, UpdJoin, sndVars, rcvVars
    <2>2. UpdSpawn(s) => /\ sndPc' = [sndPc EXCEPT ![s] = "next"]
                         /\ rcvPc' = [rcvPc EXCEPT ![s] = "recv"]
                         /\ sndPc[s] \in Ended \cup {"off"} /\ rcvPc[s] \in Ended \cup {"off"}
      BY <1>0 DEF UpdSpawn, ThreadsOK
    <2>. QED
      BY <2>1, <2>2 DEF UpdaterStep, UpdaterNext
  <1>4. \A t \in Servers :
          \/ sndPc'[t] = sndPc[t] /\ rcvPc'[t] = rcvPc[t]
          \/ /\ sndPc'[t] = "next" /\ rcvPc'[t] = "recv" /\ sndNames[t] = << >> /\ rcvNames[t] = << >>
             /\ sndPc[t] \in Ended \cup {"off"}
    <2>1. /\ sndPc[s] \in Ended \cup {"off"} => sndNames[s] = << >>
          /\ rcvPc[s] \in Ended \cup {"off"} => rcvNames[s] = << >>
      BY <1>0 DEF DrainOK, ArriveOK, Ended, DrainAt, ArriveAt
    <2>. QED
      BY <1>0, <1>3, <2>1, HandoverTypes
  <1>5. ASSUME NEW k \in Keys PROVE Moving(k)'
    <2>1. PICK e \in Entries : e = Index[k]
      BY <1>0, MetadataTypes
    <2>2. Keeper(Index[k])' = Keeper(Index[k])
      BY <2>1, UpdaterKeeper
    <2>3. Moving(k)
      BY <1>0, <1>1, MetadataParts
    <2>4. ASSUME NEW t \in Servers PROVE Same(t, k) /\ (Sent(t, k)' <=> Sent(t, k))
      <3>1. (Popped(t, k)' <=> Popped(t, k)) /\ (Arriving(t, k) => rcvPc'[t] = rcvPc[t])
        BY <1>2, <1>4, EmptyNames DEF Popped, Arriving, Ended
      <3>. QED
        BY <1>2, <3>1 DEF Same, Listed, Packed, Arriving, Sent
    <2>. QED
      BY <1>2, <2>2, <2>3, <2>4, MovingStill DEF requestVars
  <1>6. NamesOK'
    BY <1>0, <1>2 DEF NamesOK, NamesAt
  <1>7. DrainOK'
    BY <1>0, <1>2, <1>4 DEF DrainOK, DrainAt
  <1>8. ArriveOK'
    BY <1>0, <1>2, <1>4 DEF ArriveOK, ArriveAt
  <1>9. \A t \in Servers : sndPc'[t] # "failed" /\ rcvPc'[t] # "failed"
    BY <1>0, <1>4 DEF Rest, NoThreadFails
  <1>. QED
    BY <1>1, <1>2, <1>5, <1>6, <1>7, <1>8, <1>9, TransferKept

(* A step of thread_load_sender touches the names of its own server only:  *)
(* what is left to show of it.                                             *)
LEMMA SenderKept ==
  ASSUME IndInv, HandoverInv, MetadataInv, NEW s \in Servers, SenderStep(s),
         UNCHANGED up, sndPc'[s] # "failed", NamesAt(s)', DrainAt(s)', ArriveAt(s)',
         \A e \in Entries : Keeper(e)' = Keeper(e),
         \A k \in Keys : Here(s, k)' /\ (Some(s, k)' <=> Some(s, k))
  PROVE  MetadataInv'
  <1>0. TypeOK /\ Rest /\ MovingOK /\ NamesOK /\ DrainOK /\ ArriveOK
    BY MetadataParts DEF IndInv, MetadataInv
  <1>1. phase # "clients"
    BY ThreadsStop DEF SenderStep
  <1>2. UNCHANGED requestVars /\ UNCHANGED <<rcvPc, rcvEntry, rcvNames>>
    BY DEF SenderStep, SenderNext, SndNext, SndCheck, SndPop, SndDel, SndSend, SndMark, SndAck,
           SndElsewhere, Elsewhere, requestVars, clientChannel, cliVars, launchVars, srvVars, mainVars,
           rcvVars
  <1>3. ASSUME NEW t \in Servers \ {s}
        PROVE  /\ store'[t] = store[t] /\ in_charge_md'[t] = in_charge_md[t] /\ xfer'[t] = xfer[t]
               /\ sndPc'[t] = sndPc[t] /\ sndEntry'[t] = sndEntry[t] /\ sndPtr'[t] = sndPtr[t]
               /\ sndNames'[t] = sndNames[t]
    <2>1. CASE SndNext(s)
      BY <1>0, <2>1, MetadataTypes, HandoverTypes DEF SndNext, SndGoto, srvVars
    <2>2. CASE SndCheck(s)
      BY <1>0, <2>2, MetadataTypes, HandoverTypes DEF SndCheck, SndGoto, srvVars
    <2>3. CASE SndPop(s)
      BY ZenonT(30), <1>0, <2>3, MetadataTypes, HandoverTypes DEF SndPop, SndGoto
    <2>4. CASE SndDel(s)
      BY <1>0, <2>4, MetadataTypes, HandoverTypes DEF SndDel, SndGoto, SetFile
    <2>5. CASE SndSend(s)
      BY <1>0, <2>5, MetadataTypes, HandoverTypes DEF SndSend, SndGoto, sharedVars
    <2>6. CASE SndMark(s)
      BY <1>0, <2>6, MetadataTypes, HandoverTypes DEF SndMark, SndGoto
    <2>7. CASE SndAck(s)
      BY <1>0, <2>7, MetadataTypes, HandoverTypes DEF SndAck, SndGoto, sharedVars
    <2>. QED
      BY <2>1, <2>2, <2>3, <2>4, <2>5, <2>6, <2>7 DEF SenderStep, SenderNext
  <1>4. NamesOK' /\ DrainOK' /\ ArriveOK'
    <2>. SUFFICES ASSUME NEW t \in Servers \ {s} PROVE NamesAt(t)' /\ DrainAt(t)' /\ ArriveAt(t)'
      BY DEF NamesOK, DrainOK, ArriveOK
    <2>1. NamesAt(t) /\ DrainAt(t) /\ ArriveAt(t)
      BY <1>0 DEF NamesOK, DrainOK, ArriveOK
    <2>2. NamesAt(t)'
      BY <1>2, <1>3, <2>1 DEF NamesAt
    <2>3. DrainAt(t)'
      BY <1>3, <2>1 DEF DrainAt
    <2>4. ArriveAt(t)'
      BY <1>2, <1>3, <2>1 DEF ArriveAt
    <2>. QED
      BY <2>2, <2>3, <2>4
  <1>5. ASSUME NEW k \in Keys PROVE Moving(k)'
    <2>1. PICK e \in Entries : e = Index[k]
      BY <1>0, MetadataTypes
    <2>2. Keeper(Index[k])' = Keeper(Index[k])
      BY <2>1
    <2>3. Moving(k)
      BY <1>0, <1>1, MetadataParts
    <2>4. ASSUME NEW t \in Servers \ {s} PROVE Same(t, k) /\ (Sent(t, k)' <=> Sent(t, k))
      BY <1>2, <1>3 DEF Same, Listed, Popped, Packed, Arriving, Sent
    <2>. QED
      BY <1>2, <2>2, <2>3, <2>4, MovingStep DEF requestVars
  <1>6. \A t \in Servers : sndPc'[t] # "failed" /\ rcvPc'[t] # "failed"
    BY <1>0, <1>2, <1>3 DEF Rest, NoThreadFails
  <1>. QED
    BY <1>1, <1>2, <1>4, <1>5, <1>6, TransferKept

(* The names a sender and a receiver of one server work on are of entries  *)
(* that leave it and of entries that come to it.                           *)
LEMMA ApartEntries ==
  ASSUME IndInv, HandoverInv, ArriveOK, NamesOK, NEW s \in Servers, sndPc[s] \in Sending
  PROVE  /\ rcvPc[s] \in {"insert", "put", "state", "reply"} => rcvEntry[s] # sndEntry[s]
         /\ \A k : Arriving(s, k) => Index[k] = rcvEntry[s] /\ Index[k] # sndEntry[s]
  <1>0. TypeOK /\ ThreadsOK /\ LockstepOK /\ MovesOK /\ SendersOK /\ ReceiversOK
    BY DEF IndInv, HandoverInv
  <1>1. /\ sndEntry[s] \in Entries /\ Moves(sndEntry[s]) /\ Old(sndEntry[s]) = s
    BY <1>0, SenderEntry
  <1>2. New(sndEntry[s]) # s
    BY <1>0, <1>1 DEF MovesOK
  <1>3. rcvPc[s] \in {"insert", "put", "state", "reply"} => New(rcvEntry[s]) = s
    BY <1>0, ReceiverEntry
  <1>4. ASSUME NEW k, Arriving(s, k) PROVE Index[k] = rcvEntry[s] /\ rcvPc[s] \in {"insert", "put"}
    <2>1. rcvNames[s] # << >>
      BY <1>4, EmptyNames DEF Arriving
    <2>. QED
      BY <1>4, <2>1 DEF ArriveOK, ArriveAt, NamesOK, NamesAt, NamesOf, Arriving, Holds
  <1>. QED
    BY <1>2, <1>3, <1>4

(* thread_load_sender pops a list that is not empty.                       *)
LEMMA PopKept ==
  ASSUME IndInv, HandoverInv, MetadataInv, NEW s \in Servers, SenderStep(s), SndPop(s)
  PROVE  MetadataInv'
  <1>0. /\ TypeOK /\ ThreadsOK /\ Rest /\ MovingOK /\ NamesAt(s) /\ DrainAt(s) /\ ArriveAt(s)
        /\ NamesOK /\ ArriveOK /\ phase # "clients"
    BY MetadataParts, ThreadsStop DEF IndInv, MetadataInv, NamesOK, DrainOK, ArriveOK, SenderStep
  <1>1. sndPc[s] = "pop" /\ sndPc[s] \in Sending
    BY DEF SndPop, SndAt, Sending
  <1>2. PICK e \in Entries : e = sndEntry[s]
    BY <1>0, HandoverTypes
  <1>3. PICK list \in Seq(Keys) : list = in_charge_md[s][e]
    BY <1>0, MetadataTypes
  <1>4. list # << >>
    BY <1>0, <1>1, <1>2, <1>3 DEF DrainAt
  <1>5. NamesOf(e, list)
    BY <1>0, <1>3 DEF NamesAt
  <1>6. /\ Head(list) \in Keys /\ Index[Head(list)] = e /\ Tail(list) \in Seq(Keys)
        /\ \A k : Holds(list, k) <=> k = Head(list) \/ Holds(Tail(list), k)
        /\ ~Holds(Tail(list), Head(list))
        /\ NamesOf(e, Tail(list))
    BY <1>4, <1>5, TailNames
  <1>7. PICK k1 \in Keys : k1 = Head(list)
    BY <1>6
  <1>8. /\ sndPtr' = [sndPtr EXCEPT ![s] = k1]
        /\ in_charge_md' = [in_charge_md EXCEPT ![s][sndEntry[s]] = Tail(@)]
        /\ sndPc' = [sndPc EXCEPT ![s] = "del"]
        /\ UNCHANGED <<up, store, xfer, sndEntry, sndNames, rcvPc, rcvEntry, rcvNames>>
    BY <1>2, <1>3, <1>4, <1>7 DEF SndPop, SndGoto, SndElsewhere, rcvVars
  <1>9. /\ sndPtr'[s] = k1 /\ sndPc'[s] = "del" /\ in_charge_md'[s][e] = Tail(list)
        /\ \A f \in Entries : f # e => in_charge_md'[s][f] = in_charge_md[s][f]
    BY <1>0, <1>2, <1>3, <1>8, MetadataTypes, HandoverTypes
  <1>10. /\ rcvPc[s] \in {"insert", "put", "state", "reply"} => rcvEntry[s] # e
         /\ \A k : Arriving(s, k) => Index[k] # e
    BY <1>0, <1>1, <1>2, ApartEntries
  <1>11. \A f \in Entries : Keeper(f)' = Keeper(f)
    BY KeeperFrame, <1>8
       DEF keeperVars, SndPop, SndElsewhere, updVars, Elsewhere, mgrChannel
  <1>12. ASSUME NEW k \in Keys
         PROVE  /\ Listed(s, k)' <=> Listed(s, k) /\ k # k1
                /\ Popped(s, k)' <=> k = k1
                /\ ~Popped(s, k)
                /\ Packed(s, k)' <=> Packed(s, k)
                /\ Sent(s, k)' <=> Sent(s, k)
                /\ Arriving(s, k)' <=> Arriving(s, k)
    <2>1. Listed(s, k)' <=> Listed(s, k) /\ k # k1
      <3>1. CASE Index[k] = e
        BY <1>3, <1>6, <1>7, <1>9, <3>1 DEF Listed
      <3>2. CASE Index[k] # e
        <4>1. Index[k] \in Entries
          BY <1>0, MetadataTypes
        <4>. QED
          BY <1>6, <1>7, <1>9, <3>2, <4>1 DEF Listed
      <3>. QED
        BY <3>1, <3>2
    <2>. QED
      BY <1>1, <1>8, <1>9, <2>1 DEF Popped, Packed, Sent, Arriving
  <1>13. Listed(s, k1) /\ ~Arriving(s, k1)
    BY <1>3, <1>6, <1>7, <1>10 DEF Listed
  <1>14. ASSUME NEW k \in Keys PROVE Here(s, k)' /\ (Some(s, k)' <=> Some(s, k))
    <2>1. Here(s, k)
      BY <1>0, MetadataParts DEF Moving
    <2>2. PICK f \in Entries : f = Index[k]
      BY <1>0, MetadataTypes
    <2>3. Keeper(Index[k])' = Keeper(Index[k])
      BY <1>11, <2>2
    <2>4. UNCHANGED <<store, rcvPc, rcvNames>>
      BY <1>8
    <2>5. Here(s, k)'
      BY <1>12, <1>13, <2>1, <2>3, <2>4 DEF Here
    <2>. QED
      BY <1>12, <2>4, <2>5 DEF Some
  <1>15. NamesAt(s)'
    <2>1. \A f \in Entries : NamesOf(f, in_charge_md'[s][f])
      BY <1>0, <1>6, <1>9 DEF NamesAt
    <2>. QED
      BY <1>0, <1>8, <2>1 DEF NamesAt
  <1>16. DrainAt(s)'
    BY <1>0, <1>1, <1>2, <1>6, <1>7, <1>8, <1>9 DEF DrainAt
  <1>17. ArriveAt(s)'
    <2>1. rcvPc[s] = "put" => in_charge_md'[s][rcvEntry[s]] = in_charge_md[s][rcvEntry[s]]
      BY <1>0, <1>9, <1>10, HandoverTypes
    <2>. QED
      BY <1>0, <1>8, <2>1 DEF ArriveAt
  <1>. QED
    BY <1>8, <1>9, <1>11, <1>14, <1>15, <1>16, <1>17, SenderKept

(* generic_del finds the file of the name just popped.                     *)
LEMMA DelKept ==
  ASSUME IndInv, HandoverInv, MetadataInv, NEW s \in Servers, SenderStep(s), SndDel(s)
  PROVE  MetadataInv'
  <1>0. /\ TypeOK /\ ThreadsOK /\ Rest /\ MovingOK /\ NamesAt(s) /\ DrainAt(s) /\ ArriveAt(s)
        /\ phase # "clients"
    BY MetadataParts, ThreadsStop DEF IndInv, MetadataInv, NamesOK, DrainOK, ArriveOK, SenderStep
  <1>1. sndPc[s] = "del"
    BY DEF SndDel, SndAt
  <1>2. PICK k1 \in Keys : k1 = sndPtr[s]
    BY <1>0, <1>1 DEF ThreadsOK
  <1>3. Popped(s, k1) /\ ~Packed(s, k1) /\ Exists(s, k1)
    <2>1. Here(s, k1)
      BY <1>0, MetadataParts DEF Moving
    <2>. QED
      BY <1>1, <1>2, <2>1 DEF Here, Popped, Exists
  <1>4. PICK names \in Seq(Keys) : names = sndNames[s]
    BY <1>0, MetadataTypes
  <1>5. /\ \A k : Holds(Append(names, k1), k) <=> k = k1 \/ Holds(names, k)
        /\ \A e : NamesOf(e, names) /\ ~Holds(names, k1) /\ Index[k1] = e
                    => NamesOf(e, Append(names, k1))
    BY AppendNames
  <1>6. /\ store' = [store EXCEPT ![s][k1] = None]
        /\ sndNames' = [sndNames EXCEPT ![s] = Append(names, k1)]
        /\ sndPc' = [sndPc EXCEPT ![s] = "check"]
        /\ UNCHANGED <<up, in_charge_md, xfer, sndEntry, rcvPc, rcvEntry, rcvNames>>
    BY <1>2, <1>3, <1>4 DEF SndDel, SndGoto, SetFile, SndElsewhere, rcvVars
  <1>7. /\ sndNames'[s] = Append(names, k1) /\ sndPc'[s] = "check" /\ store'[s][k1] = None
        /\ \A k \in Keys : k # k1 => store'[s][k] = store[s][k]
    BY <1>0, <1>6, MetadataTypes, HandoverTypes
  <1>8. \A e \in Entries : Keeper(e)' = Keeper(e)
    BY KeeperFrame, <1>6 DEF keeperVars, SndDel, SndElsewhere, updVars, Elsewhere, mgrChannel
  <1>9. ASSUME NEW k \in Keys
        PROVE  /\ Listed(s, k)' <=> Listed(s, k)
               /\ ~Popped(s, k)'
               /\ Popped(s, k) <=> k = k1
               /\ Packed(s, k)' <=> Packed(s, k) \/ k = k1
               /\ Sent(s, k)' <=> Sent(s, k)
               /\ Arriving(s, k)' <=> Arriving(s, k)
    BY <1>1, <1>2, <1>4, <1>5, <1>6, <1>7 DEF Listed, Popped, Packed, Sent, Arriving
  <1>10. ASSUME NEW k \in Keys PROVE Here(s, k)' /\ (Some(s, k)' <=> Some(s, k))
    <2>1. Here(s, k)
      BY <1>0, MetadataParts DEF Moving
    <2>2. PICK f \in Entries : f = Index[k]
      BY <1>0, MetadataTypes
    <2>3. Keeper(Index[k])' = Keeper(Index[k])
      BY <1>8, <2>2
    <2>4. UNCHANGED <<rcvPc, rcvNames>>
      BY <1>6
    <2>5. Here(s, k)'
      BY <1>7, <1>9, <2>1, <2>3, <2>4 DEF Here
    <2>6. Some(s, k)' <=> Some(s, k)
      BY <1>3, <1>7, <1>9 DEF Some, Exists
    <2>. QED
      BY <2>5, <2>6
  <1>11. NamesAt(s)'
    BY <1>0, <1>1, <1>2, <1>3, <1>4, <1>5, <1>6, <1>7 DEF NamesAt, DrainAt, Packed
  <1>12. DrainAt(s)'
    BY <1>0, <1>6, <1>7 DEF DrainAt
  <1>13. ArriveAt(s)'
    BY <1>0, <1>6 DEF ArriveAt
  <1>. QED
    BY <1>6, <1>7, <1>8, <1>10, <1>11, <1>12, <1>13, SenderKept

(* The names go out in one packet, which nobody has taken yet.             *)
LEMMA SendKept ==
  ASSUME IndInv, HandoverInv, MetadataInv, NEW s \in Servers, SenderStep(s), SndSend(s)
  PROVE  MetadataInv'
  <1>0. /\ TypeOK /\ ThreadsOK /\ Rest /\ MovingOK /\ NamesAt(s) /\ DrainAt(s) /\ ArriveAt(s)
        /\ phase # "clients"
    BY MetadataParts, ThreadsStop DEF IndInv, MetadataInv, NamesOK, DrainOK, ArriveOK, SenderStep
  <1>1. sndPc[s] = "send" /\ xfer[s] = None
    BY <1>0 DEF SndSend, SndAt, ThreadsOK
  <1>2. PICK p : p = [status |-> "sent", to |-> table[s][sndEntry[s]].id_srv,
                      entry |-> sndEntry[s], names |-> sndNames[s]]
    OBVIOUS
  <1>3. p.status = "sent" /\ p.entry = sndEntry[s] /\ p.names = sndNames[s]
    BY <1>2
  <1>4. /\ xfer' = [xfer EXCEPT ![s] = p] /\ sndNames' = [sndNames EXCEPT ![s] = << >>]
        /\ sndPc' = [sndPc EXCEPT ![s] = "mark"]
        /\ UNCHANGED <<up, store, in_charge_md, sndEntry, sndPtr, to_send, rcvPc, rcvEntry, rcvNames,
                       mlts, seen, updPc, scan>>
    BY <1>2 DEF SndSend, SndGoto, SndElsewhere, sharedVars, rcvVars, updVars, Elsewhere, mgrChannel
  <1>5. /\ xfer'[s] = p /\ sndNames'[s] = << >> /\ sndPc'[s] = "mark"
        /\ \A t \in Servers \ {s} : xfer'[t] = xfer[t]
    BY <1>0, <1>4, MetadataTypes, HandoverTypes
  <1>6. p # None
    <2>1. p \in Packet
      BY <1>0, <1>2 DEF Packet, TypeOK, SrvTypeOK, ThrTypeOK, MltLine
    <2>. QED
      BY <2>1, DataAssumption
  <1>7. ASSUME NEW e \in Entries PROVE Keeper(e)' = Keeper(e)
    <2>. SUFFICES ASSUME Moves(e) PROVE Handed(e)' <=> Handed(e)
      BY <1>4, KeeperSame
    <2>1. PICK o \in Servers : o = Old(e) /\ o = Old(e)'
      BY <1>0, <1>4, ThreadFrame
    <2>2. At(o, e)' = At(o, e) /\ Last' = Last
      BY <1>0, <1>4, ThreadFrame
    <2>. QED
      BY <1>1, <1>3, <1>4, <1>5, <2>1, <2>2 DEF Handed, Given
  <1>8. ASSUME NEW k \in Keys
        PROVE  /\ Listed(s, k)' <=> Listed(s, k)
               /\ ~Popped(s, k) /\ ~Popped(s, k)'
               /\ ~Packed(s, k)'
               /\ ~Sent(s, k)
               /\ Sent(s, k)' <=> Packed(s, k)
               /\ Arriving(s, k)' <=> Arriving(s, k)
    BY <1>1, <1>3, <1>4, <1>5, <1>6, EmptyNames DEF Listed, Popped, Packed, Sent, Arriving
  <1>9. ASSUME NEW k \in Keys PROVE Here(s, k)' /\ (Some(s, k)' <=> Some(s, k))
    <2>1. Here(s, k)
      BY <1>0, MetadataParts DEF Moving
    <2>2. PICK f \in Entries : f = Index[k]
      BY <1>0, MetadataTypes
    <2>3. Keeper(Index[k])' = Keeper(Index[k])
      BY <1>7, <2>2
    <2>4. UNCHANGED <<store, rcvPc, rcvNames>>
      BY <1>4
    <2>5. Here(s, k)'
      BY <1>8, <2>1, <2>3, <2>4 DEF Here
    <2>. QED
      BY <1>8, <2>4, <2>5 DEF Some
  <1>10. NamesAt(s)'
    BY <1>0, <1>3, <1>4, <1>5, EmptyNames DEF NamesAt
  <1>11. DrainAt(s)'
    BY <1>0, <1>1, <1>3, <1>4, <1>5 DEF DrainAt
  <1>12. ArriveAt(s)'
    BY <1>0, <1>4 DEF ArriveAt
  <1>. QED
    BY <1>4, <1>5, <1>7, <1>9, <1>10, <1>11, <1>12, SenderKept

(* The sender takes the next entry, looks at the head of its list, or      *)
(* marks its line: no name moves.                                          *)
LEMMA TurnKept ==
  ASSUME IndInv, HandoverInv, MetadataInv, NEW s \in Servers, SenderStep(s),
         SndNext(s) \/ SndCheck(s) \/ SndMark(s)
  PROVE  MetadataInv'
  <1>0. /\ TypeOK /\ ThreadsOK /\ Rest /\ MovingOK /\ NamesAt(s) /\ DrainAt(s) /\ ArriveAt(s)
        /\ phase # "clients"
    BY MetadataParts, ThreadsStop DEF IndInv, MetadataInv, NamesOK, DrainOK, ArriveOK, SenderStep
  <1>1. UNCHANGED <<up, store, in_charge_md, xfer, sndPtr, sndNames, to_send, rcvPc, rcvEntry,
                    rcvNames, mlts, seen, updPc, scan>>
    BY DEF SndNext, SndCheck, SndMark, SndElsewhere, srvVars, rcvVars, updVars, Elsewhere,
           mgrChannel
  <1>2. \/ /\ sndPc[s] = "next" /\ sndPc'[s] \in {"done", "check"}
           /\ \A t \in Servers \ {s} : sndEntry'[t] = sndEntry[t]
        \/ /\ sndPc[s] = "check" /\ sndEntry' = sndEntry
           /\ \/ in_charge_md[s][sndEntry[s]] = << >> /\ sndPc'[s] = "send"
              \/ in_charge_md[s][sndEntry[s]] # << >> /\ sndPc'[s] = "pop"
        \/ sndPc[s] = "mark" /\ sndPc'[s] = "ack" /\ sndEntry' = sndEntry
    <2>1. CASE SndNext(s)
      BY <1>0, <2>1, HandoverTypes DEF SndNext, SndAt, SndGoto
    <2>2. CASE SndCheck(s)
      BY <1>0, <2>2, HandoverTypes DEF SndCheck, SndAt, SndGoto
    <2>3. CASE SndMark(s)
      BY <1>0, <2>3, HandoverTypes DEF SndMark, SndAt, SndGoto
    <2>. QED
      BY <2>1, <2>2, <2>3
  <1>3. /\ sndPc[s] = "next" => xfer[s] = None /\ sndNames[s] = << >>
        /\ sndPc[s] # "next" => sndEntry' = sndEntry
        /\ \A t \in Servers \ {s} : sndEntry'[t] = sndEntry[t]
    <2>1. sndPc[s] = "next" => xfer[s] = None /\ sndNames[s] = << >>
      BY <1>0 DEF ThreadsOK, DrainAt
    <2>. QED
      BY <1>2, <2>1
  <1>4. ASSUME NEW e \in Entries PROVE Keeper(e)' = Keeper(e)
    <2>. SUFFICES ASSUME Moves(e) PROVE Handed(e)' <=> Handed(e)
      BY <1>1, KeeperSame
    <2>1. PICK o \in Servers : o = Old(e) /\ o = Old(e)'
      BY <1>0, <1>1, ThreadFrame
    <2>2. At(o, e)' = At(o, e) /\ Last' = Last
      BY <1>0, <1>1, ThreadFrame
    <2>. QED
      BY <1>1, <1>3, <2>1, <2>2 DEF Handed, Given
  <1>5. ASSUME NEW k \in Keys PROVE Here(s, k)' /\ (Some(s, k)' <=> Some(s, k))
    <2>1. Here(s, k)
      BY <1>0, MetadataParts DEF Moving
    <2>2. PICK f \in Entries : f = Index[k]
      BY <1>0, MetadataTypes
    <2>3. Keeper(Index[k])' = Keeper(Index[k])
      BY <1>4, <2>2
    <2>4. ~Popped(s, k) /\ ~Popped(s, k)'
      BY <1>2 DEF Popped
    <2>5. /\ Listed(s, k)' <=> Listed(s, k)
          /\ Packed(s, k)' <=> Packed(s, k)
          /\ Sent(s, k)' <=> Sent(s, k)
          /\ Arriving(s, k)' <=> Arriving(s, k)
      BY <1>1 DEF Listed, Packed, Sent, Arriving
    <2>. QED
      BY <1>1, <2>1, <2>3, <2>4, <2>5 DEF Here, Some
  <1>6. NamesAt(s)'
    BY <1>0, <1>1, <1>2, <1>3, EmptyNames DEF NamesAt
  <1>7. DrainAt(s)'
    BY <1>0, <1>1, <1>2, <1>3 DEF DrainAt
  <1>8. ArriveAt(s)'
    BY <1>0, <1>1 DEF ArriveAt
  <1>. QED
    BY <1>1, <1>2, <1>4, <1>5, <1>6, <1>7, <1>8, SenderKept

(* The packet was answered: the entry stays handed over.                   *)
LEMMA AckKept ==
  ASSUME IndInv, HandoverInv, MetadataInv, NEW s \in Servers, SenderStep(s), SndAck(s)
  PROVE  MetadataInv'
  <1>0. /\ TypeOK /\ ThreadsOK /\ LockstepOK /\ SendersOK /\ Rest /\ MovingOK
        /\ NamesAt(s) /\ DrainAt(s) /\ ArriveAt(s) /\ phase # "clients"
    BY MetadataParts, ThreadsStop
       DEF IndInv, HandoverInv, MetadataInv, NamesOK, DrainOK, ArriveOK, SenderStep
  <1>1. /\ sndPc[s] = "ack" /\ xfer[s].status = "done"
        /\ xfer' = [xfer EXCEPT ![s] = None]
        /\ to_send' = [to_send EXCEPT ![s] = @ \ {sndEntry[s]}]
        /\ sndPc' = [sndPc EXCEPT ![s] = "next"]
        /\ UNCHANGED <<up, store, in_charge_md, sndEntry, sndPtr, sndNames, rcvPc, rcvEntry,
                       rcvNames, mlts, seen, updPc, scan>>
    BY DEF SndAck, SndAt, SndGoto, SndElsewhere, sharedVars, rcvVars, updVars, Elsewhere, mgrChannel
  <1>2. xfer[s] # None /\ xfer[s].names = << >> /\ sndNames[s] = << >>
    <2>1. xfer[s] # None
      BY <1>0, <1>1 DEF ThreadsOK
    <2>. QED
      BY <1>0, <1>1, <2>1 DEF DrainAt
  <1>3. /\ xfer'[s] = None /\ to_send'[s] = to_send[s] \ {sndEntry[s]} /\ sndPc'[s] = "next"
        /\ \A t \in Servers \ {s} : xfer'[t] = xfer[t] /\ to_send'[t] = to_send[t]
    BY <1>0, <1>1, HandoverTypes
  <1>4. PICK e0 \in Entries : /\ e0 = sndEntry[s] /\ Old(e0) = s /\ At(s, e0) = Last
                              /\ e0 \in to_send[s]
    BY <1>0, <1>1, SenderEntry DEF Sending
  <1>5. ASSUME NEW e \in Entries PROVE Keeper(e)' = Keeper(e)
    <2>. SUFFICES ASSUME Moves(e) PROVE Handed(e)' <=> Handed(e)
      BY <1>1, KeeperSame
    <2>1. PICK o \in Servers : o = Old(e) /\ o = Old(e)'
      BY <1>0, <1>1, ThreadFrame
    <2>2. At(o, e)' = At(o, e) /\ Last' = Last
      BY <1>0, <1>1, ThreadFrame
    <2>3. CASE e = e0
      <3>1. Given(e)
        BY <1>1, <1>2, <1>4, <2>1, <2>3 DEF Given
      <3>2. Given(e)'
        BY <1>3, <1>4, <2>1, <2>2, <2>3 DEF Given
      <3>. QED
        BY <3>1, <3>2 DEF Handed
    <2>4. CASE e # e0
      BY <1>1, <1>3, <1>4, <2>1, <2>2, <2>4 DEF Handed, Given
    <2>. QED
      BY <2>3, <2>4
  <1>6. ASSUME NEW k \in Keys PROVE Here(s, k)' /\ (Some(s, k)' <=> Some(s, k))
    <2>1. Here(s, k)
      BY <1>0, MetadataParts DEF Moving
    <2>2. PICK f \in Entries : f = Index[k]
      BY <1>0, MetadataTypes
    <2>3. Keeper(Index[k])' = Keeper(Index[k])
      BY <1>5, <2>2
    <2>4. ~Popped(s, k) /\ ~Popped(s, k)'
      BY <1>1, <1>3 DEF Popped
    <2>5. ~Sent(s, k) /\ ~Sent(s, k)'
      BY <1>2, <1>3, EmptyNames DEF Sent
    <2>6. /\ Listed(s, k)' <=> Listed(s, k)
          /\ Packed(s, k)' <=> Packed(s, k)
          /\ Arriving(s, k)' <=> Arriving(s, k)
      BY <1>1 DEF Listed, Packed, Arriving
    <2>. QED
      BY <1>1, <2>1, <2>3, <2>4, <2>5, <2>6 DEF Here, Some
  <1>7. NamesAt(s)'
    BY <1>0, <1>1, <1>3 DEF NamesAt
  <1>8. DrainAt(s)'
    BY <1>0, <1>1, <1>2, <1>3 DEF DrainAt
  <1>9. ArriveAt(s)'
    BY <1>0, <1>1 DEF ArriveAt
  <1>. QED
    BY <1>1, <1>3, <1>5, <1>6, <1>7, <1>8, <1>9, SenderKept

(* ... as do the sender ... *)
LEMMA SenderStepKept ==
  ASSUME IndInv, HandoverInv, MetadataInv, NEW s \in Servers, SenderStep(s)
  PROVE  MetadataInv'
  BY PopKept, DelKept, SendKept, TurnKept, AckKept DEF SenderStep, SenderNext

(* What no step of a receiver changes, and what it changes of its own      *)
(* server only.                                                            *)
LEMMA ReceiverFrame ==
  ASSUME TypeOK, NEW s \in Servers, ReceiverStep(s)
  PROVE  /\ UNCHANGED requestVars
         /\ UNCHANGED <<sndPc, sndEntry, sndPtr, sndNames, to_send, mlts, seen, updPc, scan>>
         /\ \A t \in Servers \ {s} :
              /\ store'[t] = store[t] /\ in_charge_md'[t] = in_charge_md[t]
              /\ rcvPc'[t] = rcvPc[t] /\ rcvEntry'[t] = rcvEntry[t] /\ rcvNames'[t] = rcvNames[t]
  <1>1. UNCHANGED requestVars
    BY DEF ReceiverStep, ReceiverNext, RcvFinished, RcvReceive, RcvInsert, RcvPut, RcvState, RcvReply,
           RcvElsewhere, Elsewhere, requestVars, clientChannel, cliVars, launchVars, mainVars
  <1>2. UNCHANGED <<sndPc, sndEntry, sndPtr, sndNames, to_send, mlts, seen, updPc, scan>>
    BY DEF ReceiverStep, ReceiverNext, RcvFinished, RcvReceive, RcvInsert, RcvPut, RcvState, RcvReply,
           RcvElsewhere, Elsewhere, sndVars, updVars, mgrChannel
  <1>3. ASSUME NEW t \in Servers \ {s}
        PROVE  /\ store'[t] = store[t] /\ in_charge_md'[t] = in_charge_md[t]
               /\ rcvPc'[t] = rcvPc[t] /\ rcvEntry'[t] = rcvEntry[t] /\ rcvNames'[t] = rcvNames[t]
    <2>1. CASE RcvFinished(s)
      BY <2>1, MetadataTypes, HandoverTypes DEF RcvFinished, RcvGoto, sharedVars
    <2>2. CASE \E from \in Servers : RcvReceive(s, from)
      BY <2>2, MetadataTypes, HandoverTypes DEF RcvReceive, RcvGoto, sharedVars
    <2>3. CASE RcvInsert(s)
      BY ZenonT(30), <2>3, MetadataTypes, HandoverTypes DEF RcvInsert, RcvGoto
    <2>4. CASE RcvPut(s)
      BY ZenonT(30), <2>4, MetadataTypes, HandoverTypes DEF RcvPut, RcvGoto, SetFile
    <2>5. CASE RcvState(s)
      BY <2>5, MetadataTypes, HandoverTypes DEF RcvState, RcvGoto
    <2>6. CASE RcvReply(s)
      BY <2>6, MetadataTypes, HandoverTypes DEF RcvReply, RcvGoto, sharedVars
    <2>. QED
      BY <2>1, <2>2, <2>3, <2>4, <2>5, <2>6 DEF ReceiverStep, ReceiverNext
  <1>. QED
    BY <1>1, <1>2, <1>3

(* What is left to show of a step that takes no packet.                    *)
LEMMA ReceiverKept ==
  ASSUME IndInv, HandoverInv, MetadataInv, NEW s \in Servers, ReceiverStep(s),
         rcvPc'[s] # "failed", NamesAt(s)', DrainAt(s)', ArriveAt(s)',
         \A t \in Servers :
           /\ xfer'[t] # None <=> xfer[t] # None
           /\ xfer[t] # None => /\ xfer'[t].entry = xfer[t].entry /\ xfer'[t].names = xfer[t].names
                                /\ xfer'[t].status = "sent" <=> xfer[t].status = "sent",
         \A e \in Entries : Keeper(e)' = Keeper(e),
         \A k \in Keys : Here(s, k)' /\ (Some(s, k)' <=> Some(s, k))
  PROVE  MetadataInv'
  <1>0. TypeOK /\ Rest /\ MovingOK /\ NamesOK /\ DrainOK /\ ArriveOK
    BY MetadataParts DEF IndInv, MetadataInv
  <1>1. phase # "clients"
    BY ThreadsStop DEF ReceiverStep
  <1>2. /\ UNCHANGED requestVars
        /\ UNCHANGED <<sndPc, sndEntry, sndPtr, sndNames>>
        /\ \A t \in Servers \ {s} :
             /\ store'[t] = store[t] /\ in_charge_md'[t] = in_charge_md[t]
             /\ rcvPc'[t] = rcvPc[t] /\ rcvEntry'[t] = rcvEntry[t] /\ rcvNames'[t] = rcvNames[t]
    BY <1>0, ReceiverFrame
  <1>3. NamesOK' /\ DrainOK' /\ ArriveOK'
    <2>. SUFFICES ASSUME NEW t \in Servers \ {s} PROVE NamesAt(t)' /\ DrainAt(t)' /\ ArriveAt(t)'
      BY DEF NamesOK, DrainOK, ArriveOK
    <2>1. NamesAt(t) /\ DrainAt(t) /\ ArriveAt(t)
      BY <1>0 DEF NamesOK, DrainOK, ArriveOK
    <2>2. NamesAt(t)'
      BY <1>2, <2>1 DEF NamesAt
    <2>3. DrainAt(t)'
      BY <1>2, <2>1 DEF DrainAt
    <2>4. ArriveAt(t)'
      BY <1>2, <2>1 DEF ArriveAt
    <2>. QED
      BY <2>2, <2>3, <2>4
  <1>4. ASSUME NEW k \in Keys PROVE Moving(k)'
    <2>1. PICK e \in Entries : e = Index[k]
      BY <1>0, MetadataTypes
    <2>2. Keeper(Index[k])' = Keeper(Index[k])
      BY <2>1
    <2>3. Moving(k)
      BY <1>0, <1>1, MetadataParts
    <2>4. ASSUME NEW t \in Servers \ {s} PROVE Same(t, k) /\ (Sent(t, k)' <=> Sent(t, k))
      BY <1>2 DEF Same, Listed, Popped, Packed, Arriving, Sent
    <2>. QED
      BY <1>2, <2>2, <2>3, <2>4, MovingStep DEF requestVars
  <1>5. \A t \in Servers : sndPc'[t] # "failed" /\ rcvPc'[t] # "failed"
    BY <1>0, <1>2 DEF Rest, NoThreadFails
  <1>. QED
    BY <1>1, <1>2, <1>3, <1>4, <1>5, TransferKept

(* The entry of a receiver at work is its own now, and no sender of this   *)
(* server works on it.                                                     *)
LEMMA ReceiverKeeps ==
  ASSUME IndInv, HandoverInv, NamesOK, DrainOK, NEW s \in Servers,
         rcvPc[s] \in {"insert", "put", "state", "reply"}
  PROVE  /\ rcvEntry[s] \in Entries /\ Keeper(rcvEntry[s]) = s
         /\ sndPc[s] \in Sending => sndEntry[s] # rcvEntry[s]
         /\ \A k \in Keys : Index[k] = rcvEntry[s] => ~Popped(s, k) /\ ~Packed(s, k)
  <1>0. TypeOK /\ ThreadsOK /\ LockstepOK /\ MovesOK /\ SendersOK /\ ReceiversOK
    BY DEF IndInv, HandoverInv
  <1>. DEFINE e == rcvEntry[s]
              o == rcvFrom[s]
  <1>1. /\ o \in Servers /\ xfer[o] # None /\ xfer[o].status = "taken"
        /\ e \in Entries /\ e = sndEntry[o] /\ Moves(e) /\ Old(e) = o /\ New(e) = s
    BY <1>0, ReceiverEntry
  <1>2. Keeper(e) = s
    BY <1>1 DEF Keeper, Handed
  <1>3. sndPc[s] \in Sending => sndEntry[s] # e
    <2>1. sndPc[s] \in Sending => Old(sndEntry[s]) = s
      BY <1>0, SenderEntry
    <2>2. Old(e) # s
      BY <1>0, <1>1 DEF MovesOK
    <2>. QED
      BY <2>1, <2>2
  <1>4. ASSUME NEW k \in Keys, Index[k] = e PROVE ~Popped(s, k) /\ ~Packed(s, k)
    <2>1. Popped(s, k) => sndPc[s] \in Sending /\ Index[k] = sndEntry[s]
      BY DEF Popped, Sending, DrainOK, DrainAt
    <2>2. Packed(s, k) => sndPc[s] \in Sending /\ Index[k] = sndEntry[s]
      <3>1. Packed(s, k) => sndNames[s] # << >> /\ Index[k] = sndEntry[s]
        BY EmptyNames DEF Packed, NamesOK, NamesAt, NamesOf, Holds
      <3>. QED
        BY <3>1 DEF DrainOK, DrainAt, Sending
    <2>. QED
      BY <1>3, <1>4, <2>1, <2>2
  <1>. QED
    BY <1>1, <1>2, <1>3, <1>4

(* The receiver stops, has listed every name, or clears the transfer state *)
(* of its line: no name moves.                                             *)
LEMMA IdleKept ==
  ASSUME IndInv, HandoverInv, MetadataInv, NEW s \in Servers, ReceiverStep(s),
         RcvFinished(s) \/ (RcvInsert(s) /\ rcvNames[s] = << >>) \/ RcvState(s)
  PROVE  MetadataInv'
  <1>0. /\ TypeOK /\ MovingOK /\ NamesAt(s) /\ DrainAt(s) /\ ArriveAt(s) /\ phase # "clients"
    BY MetadataParts, ThreadsStop
       DEF IndInv, MetadataInv, NamesOK, DrainOK, ArriveOK, ReceiverStep
  <1>1. /\ UNCHANGED <<store, in_charge_md, xfer, rcvEntry, rcvNames>>
        /\ rcvPc[s] \in {"recv", "insert", "state"} /\ rcvPc'[s] \in {"done", "state", "reply"}
        /\ rcvNames[s] = << >>
    <2>1. CASE RcvFinished(s)
      BY <1>0, <2>1, HandoverTypes DEF RcvFinished, RcvGoto, RcvAt, sharedVars, ArriveAt
    <2>2. CASE RcvInsert(s) /\ rcvNames[s] = << >>
      BY <1>0, <2>2, HandoverTypes DEF RcvInsert, RcvGoto, RcvAt
    <2>3. CASE RcvState(s)
      BY <1>0, <2>3, HandoverTypes DEF RcvState, RcvGoto, RcvAt, ArriveAt
    <2>. QED
      BY <2>1, <2>2, <2>3
  <1>2. /\ UNCHANGED <<sndPc, sndEntry, sndPtr, sndNames, to_send, mlts, seen, updPc, scan>>
    BY <1>0, ReceiverFrame
  <1>3. \A e \in Entries : Keeper(e)' = Keeper(e)
    BY <1>1, <1>2, KeeperFrame DEF keeperVars
  <1>4. ASSUME NEW k \in Keys PROVE Here(s, k)' /\ (Some(s, k)' <=> Some(s, k))
    <2>1. Here(s, k)
      BY <1>0, MetadataParts DEF Moving
    <2>2. PICK f \in Entries : f = Index[k]
      BY <1>0, MetadataTypes
    <2>3. Keeper(Index[k])' = Keeper(Index[k])
      BY <1>3, <2>2
    <2>4. /\ Listed(s, k)' <=> Listed(s, k)
          /\ Popped(s, k)' <=> Popped(s, k)
          /\ Packed(s, k)' <=> Packed(s, k)
          /\ Sent(s, k)' <=> Sent(s, k)
          /\ ~Arriving(s, k) /\ ~Arriving(s, k)'
      BY <1>1, <1>2, EmptyNames DEF Listed, Popped, Packed, Sent, Arriving
    <2>. QED
      BY <1>1, <2>1, <2>3, <2>4 DEF Here, Some
  <1>5. NamesAt(s)' /\ DrainAt(s)' /\ ArriveAt(s)'
    BY <1>0, <1>1, <1>2 DEF NamesAt, DrainAt, ArriveAt
  <1>. QED
    BY <1>1, <1>3, <1>4, <1>5, ReceiverKept

(* thread_load_receiver lists a name that no list of this server holds.    *)
LEMMA InsertKept ==
  ASSUME IndInv, HandoverInv, MetadataInv, NEW s \in Servers, ReceiverStep(s),
         RcvInsert(s), rcvNames[s] # << >>
  PROVE  MetadataInv'
  <1>0. /\ TypeOK /\ MovingOK /\ NamesAt(s) /\ DrainAt(s) /\ ArriveAt(s) /\ phase # "clients"
        /\ NamesOK /\ DrainOK
    BY MetadataParts, ThreadsStop
       DEF IndInv, MetadataInv, NamesOK, DrainOK, ArriveOK, ReceiverStep
  <1>1. rcvPc[s] = "insert"
    BY DEF RcvInsert, RcvAt
  <1>2. PICK e \in Entries : e = rcvEntry[s]
    BY <1>0, HandoverTypes
  <1>3. PICK list \in Seq(Keys) : list = in_charge_md[s][e]
    BY <1>0, MetadataTypes
  <1>4. PICK names \in Seq(Keys) : names = rcvNames[s]
    BY <1>0, MetadataTypes
  <1>5. NamesOf(e, names) /\ NamesOf(e, list) /\ names # << >>
    BY <1>0, <1>2, <1>3, <1>4 DEF NamesAt
  <1>6. PICK k1 \in Keys : k1 = Head(names) /\ Index[k1] = e /\ Holds(names, k1)
    BY <1>5, TailNames
  <1>7. /\ \A k : ~(Arriving(s, k) /\ Listed(s, k)) \/ k \notin Keys
        /\ Arriving(s, k1) /\ ~Listed(s, k1)
    <2>1. \A k \in Keys : ~(Arriving(s, k) /\ Listed(s, k))
      BY <1>0, <1>1, MetadataParts DEF Moving, Here
    <2>2. Arriving(s, k1)
      BY <1>4, <1>6 DEF Arriving
    <2>. QED
      BY <2>1, <2>2
  <1>8. PICK new \in Seq(Keys) : new = md_entry_insert(list, k1)
    <2>1. md_entry_insert(list, k1) \in Seq(Keys)
      BY InsertType
    <2>. QED
      BY <2>1
  <1>9. /\ new # << >> /\ Head(new) = k1
        /\ \A k : Holds(new, k) <=> k = k1 \/ Holds(list, k)
        /\ NamesOf(e, new)
    <2>1. ~Holds(list, k1)
      BY <1>3, <1>6, <1>7 DEF Listed
    <2>. QED
      BY <1>5, <1>6, <1>8, <2>1, InsertNames
  <1>10. /\ in_charge_md' = [in_charge_md EXCEPT ![s][rcvEntry[s]] = md_entry_insert(@, k1)]
         /\ rcvPc' = [rcvPc EXCEPT ![s] = "put"]
         /\ UNCHANGED <<store, xfer, rcvEntry, rcvNames>>
    BY <1>4, <1>6 DEF RcvInsert, RcvGoto
  <1>11. /\ in_charge_md'[s][e] = new /\ rcvPc'[s] = "put"
         /\ \A f \in Entries : f # e => in_charge_md'[s][f] = in_charge_md[s][f]
    BY <1>0, <1>2, <1>3, <1>8, <1>10, MetadataTypes, HandoverTypes
  <1>12. UNCHANGED <<sndPc, sndEntry, sndPtr, sndNames, to_send, mlts, seen, updPc, scan>>
    BY <1>0, ReceiverFrame
  <1>13. \A f \in Entries : Keeper(f)' = Keeper(f)
    BY <1>10, <1>12, KeeperFrame DEF keeperVars
  <1>14. /\ Keeper(e) = s
         /\ sndPc[s] \in Sending => sndEntry[s] # e
         /\ ~Popped(s, k1) /\ ~Packed(s, k1)
    BY <1>0, <1>1, <1>2, <1>6, ReceiverKeeps
  <1>15. ASSUME NEW k \in Keys
         PROVE  /\ Listed(s, k)' <=> Listed(s, k) \/ k = k1
                /\ Popped(s, k)' <=> Popped(s, k)
                /\ Packed(s, k)' <=> Packed(s, k)
                /\ Sent(s, k)' <=> Sent(s, k)
                /\ Arriving(s, k)' <=> Arriving(s, k)
    <2>1. Listed(s, k)' <=> Listed(s, k) \/ k = k1
      <3>1. CASE Index[k] = e
        BY <1>3, <1>9, <1>11, <3>1 DEF Listed
      <3>2. CASE Index[k] # e
        <4>1. Index[k] \in Entries
          BY <1>0, MetadataTypes
        <4>. QED
          BY <1>6, <1>11, <3>2, <4>1 DEF Listed
      <3>. QED
        BY <3>1, <3>2
    <2>. QED
      BY <1>10, <1>12, <2>1 DEF Popped, Packed, Sent, Arriving
  <1>16. ASSUME NEW k \in Keys PROVE Here(s, k)' /\ (Some(s, k)' <=> Some(s, k))
    <2>1. Here(s, k)
      BY <1>0, MetadataParts DEF Moving
    <2>2. PICK f \in Entries : f = Index[k]
      BY <1>0, MetadataTypes
    <2>3. Keeper(Index[k])' = Keeper(Index[k])
      BY <1>13, <2>2
    <2>4. UNCHANGED <<store, rcvNames>> /\ k1 = Head(rcvNames[s]) /\ rcvPc'[s] = "put"
      BY <1>4, <1>6, <1>10, <1>11
    <2>5. Here(s, k)'
      BY <1>6, <1>7, <1>14, <1>15, <2>1, <2>3, <2>4 DEF Here
    <2>. QED
      BY <1>15, <2>4, <2>5 DEF Some
  <1>17. NamesAt(s)'
    <2>1. \A f \in Entries : NamesOf(f, in_charge_md'[s][f])
      BY <1>0, <1>9, <1>11 DEF NamesAt
    <2>. QED
      BY <1>0, <1>10, <1>12, <2>1 DEF NamesAt
  <1>18. DrainAt(s)'
    <2>1. sndPc[s] \in Sending => in_charge_md'[s][sndEntry[s]] = in_charge_md[s][sndEntry[s]]
      BY <1>0, <1>11, <1>14, HandoverTypes
    <2>. QED
      BY <1>0, <1>10, <1>12, <2>1 DEF DrainAt, Sending
  <1>19. ArriveAt(s)'
    BY <1>2, <1>4, <1>6, <1>9, <1>10, <1>11 DEF ArriveAt
  <1>. QED
    BY <1>10, <1>11, <1>13, <1>16, <1>17, <1>18, <1>19, ReceiverKept

(* It creates the file of the name it has just listed, which is not there. *)
LEMMA PutKept ==
  ASSUME IndInv, HandoverInv, MetadataInv, NEW s \in Servers, ReceiverStep(s), RcvPut(s)
  PROVE  MetadataInv'
  <1>0. /\ TypeOK /\ ThreadsOK /\ MovingOK /\ NamesAt(s) /\ DrainAt(s) /\ ArriveAt(s)
        /\ NamesOK /\ DrainOK /\ phase # "clients"
    BY MetadataParts, ThreadsStop
       DEF IndInv, MetadataInv, NamesOK, DrainOK, ArriveOK, ReceiverStep
  <1>1. rcvPc[s] = "put"
    BY DEF RcvPut, RcvAt
  <1>2. PICK e \in Entries : e = rcvEntry[s]
    BY <1>0, HandoverTypes
  <1>3. PICK list \in Seq(Keys) : list = in_charge_md[s][e] /\ list # << >> /\ NamesOf(e, list)
    BY <1>0, <1>1, <1>2, MetadataTypes DEF ArriveAt, NamesAt
  <1>4. PICK names \in Seq(Keys) : names = rcvNames[s] /\ names # << >> /\ NamesOf(e, names)
    BY <1>0, <1>1, <1>2, MetadataTypes DEF ThreadsOK, NamesAt
  <1>5. PICK k1 \in Keys : k1 = Head(list) /\ k1 = Head(names) /\ Index[k1] = e /\ Holds(list, k1)
    <2>1. Head(list) = Head(names)
      BY <1>0, <1>1, <1>2, <1>3, <1>4 DEF ArriveAt
    <2>. QED
      BY <1>3, <2>1, TailNames
  <1>6. /\ \A k : Holds(names, k) <=> k = k1 \/ Holds(Tail(names), k)
        /\ ~Holds(Tail(names), k1) /\ NamesOf(e, Tail(names))
    BY <1>4, <1>5, TailNames
  <1>7. Listed(s, k1) /\ Arriving(s, k1)
    BY <1>3, <1>4, <1>5, <1>6 DEF Listed, Arriving
  <1>8. Keeper(e) = s /\ ~Popped(s, k1) /\ ~Packed(s, k1)
    BY <1>0, <1>1, <1>2, <1>5, ReceiverKeeps
  <1>9. ~Exists(s, k1)
    <2>1. Here(s, k1)
      BY <1>0, MetadataParts DEF Moving
    <2>. QED
      BY <1>7, <1>8, <2>1 DEF Here, Exists
  <1>10. /\ store' = [store EXCEPT ![s][k1] = DefaultValue]
         /\ rcvPc' = [rcvPc EXCEPT ![s] = "insert"]
         /\ rcvNames' = [rcvNames EXCEPT ![s] = Tail(names)]
         /\ UNCHANGED <<in_charge_md, xfer, rcvEntry>>
    BY <1>2, <1>3, <1>4, <1>5, <1>9 DEF RcvPut, RcvGoto, SetFile
  <1>11. /\ store'[s][k1] # None /\ rcvPc'[s] = "insert" /\ rcvNames'[s] = Tail(names)
         /\ \A k \in Keys : k # k1 => store'[s][k] = store[s][k]
    <2>1. DefaultValue # None
      BY DataAssumption
    <2>. QED
      BY <1>0, <1>10, <2>1, MetadataTypes, HandoverTypes
  <1>12. UNCHANGED <<sndPc, sndEntry, sndPtr, sndNames, to_send, mlts, seen, updPc, scan>>
    BY <1>0, ReceiverFrame
  <1>13. \A f \in Entries : Keeper(f)' = Keeper(f)
    BY <1>10, <1>12, KeeperFrame DEF keeperVars
  <1>14. ASSUME NEW k \in Keys
         PROVE  /\ Listed(s, k)' <=> Listed(s, k)
                /\ Popped(s, k)' <=> Popped(s, k)
                /\ Packed(s, k)' <=> Packed(s, k)
                /\ Sent(s, k)' <=> Sent(s, k)
                /\ Arriving(s, k)' <=> Arriving(s, k) /\ k # k1
    BY <1>4, <1>6, <1>10, <1>11, <1>12 DEF Listed, Popped, Packed, Sent, Arriving
  <1>15. ASSUME NEW k \in Keys PROVE Here(s, k)' /\ (Some(s, k)' <=> Some(s, k))
    <2>1. Here(s, k)
      BY <1>0, MetadataParts DEF Moving
    <2>2. PICK f \in Entries : f = Index[k]
      BY <1>0, MetadataTypes
    <2>3. Keeper(Index[k])' = Keeper(Index[k])
      BY <1>13, <2>2
    <2>4. k1 = Head(rcvNames[s])
      BY <1>4, <1>5
    <2>5. Here(s, k)'
      BY <1>5, <1>7, <1>8, <1>11, <1>14, <2>1, <2>3, <2>4 DEF Here
    <2>6. Some(s, k)' <=> Some(s, k)
      BY <1>7, <1>11, <1>14 DEF Some
    <2>. QED
      BY <2>5, <2>6
  <1>16. NamesAt(s)'
    BY <1>0, <1>2, <1>6, <1>10, <1>11, <1>12 DEF NamesAt
  <1>17. DrainAt(s)' /\ ArriveAt(s)'
    BY <1>0, <1>10, <1>11, <1>12 DEF DrainAt, ArriveAt
  <1>. QED
    BY <1>10, <1>11, <1>13, <1>15, <1>16, <1>17, ReceiverKept

(* The receiver answers: the entry is handed over for good.                *)
LEMMA ReplyKept ==
  ASSUME IndInv, HandoverInv, MetadataInv, NEW s \in Servers, ReceiverStep(s), RcvReply(s)
  PROVE  MetadataInv'
  <1>0. /\ TypeOK /\ ThreadsOK /\ LockstepOK /\ SendersOK /\ ReceiversOK
        /\ MovingOK /\ NamesAt(s) /\ DrainAt(s) /\ ArriveAt(s) /\ phase # "clients"
    BY MetadataParts, ThreadsStop
       DEF IndInv, HandoverInv, MetadataInv, NamesOK, DrainOK, ArriveOK, ReceiverStep
  <1>1. /\ rcvPc[s] = "reply" /\ rcvPc' = [rcvPc EXCEPT ![s] = "recv"]
        /\ xfer' = [xfer EXCEPT ![rcvFrom[s]].status = "done"]
        /\ UNCHANGED <<store, in_charge_md, rcvEntry, rcvNames>>
    BY DEF RcvReply, RcvAt, RcvGoto, sharedVars
  <1>2. PICK o \in Servers : o = rcvFrom[s]
    BY <1>0, HandoverTypes
  <1>3. PICK e0 \in Entries : /\ e0 = sndEntry[o] /\ Moves(e0) /\ Old(e0) = o /\ At(o, e0) = Last
                              /\ xfer[o] # None /\ xfer[o].status = "taken"
    BY <1>0, <1>1, <1>2, ReceiverEntry
  <1>4. /\ xfer'[o] # None /\ xfer'[o].status = "done" /\ xfer'[o].names = xfer[o].names
        /\ xfer'[o].entry = xfer[o].entry
        /\ \A t \in Servers \ {o} : xfer'[t] = xfer[t]
    <2>1. xfer[o] \in Packet
      BY <1>0, <1>3, HandoverTypes
    <2>2. xfer'[o] = [xfer[o] EXCEPT !.status = "done"] /\ \A t \in Servers \ {o} : xfer'[t] = xfer[t]
      BY <1>0, <1>1, <1>2, HandoverTypes
    <2>3. xfer'[o] \in Packet
      BY <2>1, <2>2 DEF Packet
    <2>. QED
      BY <2>1, <2>2, <2>3, DataAssumption DEF Packet
  <1>5. /\ rcvPc'[s] = "recv" /\ rcvNames[s] = << >>
    BY <1>0, <1>1, HandoverTypes DEF ArriveAt
  <1>6. UNCHANGED <<sndPc, sndEntry, sndPtr, sndNames, to_send, mlts, seen, updPc, scan>>
    BY <1>0, ReceiverFrame
  <1>7. ASSUME NEW e \in Entries PROVE Keeper(e)' = Keeper(e)
    <2>. SUFFICES ASSUME Moves(e) PROVE Handed(e)' <=> Handed(e)
      BY <1>6, KeeperSame
    <2>1. PICK p \in Servers : p = Old(e) /\ p = Old(e)'
      BY <1>0, <1>6, ThreadFrame
    <2>2. At(p, e)' = At(p, e) /\ Last' = Last
      BY <1>0, <1>6, ThreadFrame
    <2>3. CASE e = e0
      <3>1. Handed(e)
        BY <1>3, <2>3 DEF Handed
      <3>2. Handed(e)'
        BY <1>3, <1>4, <1>6, <2>1, <2>2, <2>3 DEF Handed, Given
      <3>. QED
        BY <3>1, <3>2
    <2>4. CASE e # e0
      BY <1>3, <1>4, <1>6, <2>1, <2>2, <2>4 DEF Handed, Given
    <2>. QED
      BY <2>3, <2>4
  <1>8. ASSUME NEW k \in Keys PROVE Here(s, k)' /\ (Some(s, k)' <=> Some(s, k))
    <2>1. Here(s, k)
      BY <1>0, MetadataParts DEF Moving
    <2>2. PICK f \in Entries : f = Index[k]
      BY <1>0, MetadataTypes
    <2>3. Keeper(Index[k])' = Keeper(Index[k])
      BY <1>7, <2>2
    <2>4. Sent(s, k)' <=> Sent(s, k)
      BY <1>3, <1>4 DEF Sent
    <2>5. /\ Listed(s, k)' <=> Listed(s, k)
          /\ Popped(s, k)' <=> Popped(s, k)
          /\ Packed(s, k)' <=> Packed(s, k)
          /\ ~Arriving(s, k) /\ ~Arriving(s, k)'
      BY <1>1, <1>5, <1>6, EmptyNames DEF Listed, Popped, Packed, Arriving
    <2>. QED
      BY <1>1, <2>1, <2>3, <2>4, <2>5 DEF Here, Some
  <1>9. \A t \in Servers :
          /\ xfer'[t] # None <=> xfer[t] # None
          /\ xfer[t] # None => /\ xfer'[t].entry = xfer[t].entry /\ xfer'[t].names = xfer[t].names
                               /\ xfer'[t].status = "sent" <=> xfer[t].status = "sent"
    BY <1>3, <1>4
  <1>10. NamesAt(s)'
    BY <1>0, <1>1, <1>6, <1>9 DEF NamesAt
  <1>11. DrainAt(s)' /\ ArriveAt(s)'
    BY <1>0, <1>1, <1>5, <1>6, <1>9 DEF DrainAt, ArriveAt
  <1>. QED
    BY <1>5, <1>7, <1>8, <1>9, <1>10, <1>11, ReceiverKept

(* The receiver takes a packet: the entry changes hands while its list at  *)
(* the sender is empty and its names are all in the packet.                *)
LEMMA TakeKept ==
  ASSUME IndInv, HandoverInv, MetadataInv, NEW s \in Servers, ReceiverStep(s),
         NEW from \in Servers, RcvReceive(s, from)
  PROVE  MetadataInv'
  <1>0. /\ TypeOK /\ ThreadsOK /\ LockstepOK /\ SendersOK /\ ReceiversOK /\ Rest
        /\ MovingOK /\ NamesOK /\ DrainOK /\ ArriveOK /\ phase # "clients"
    BY MetadataParts, ThreadsStop DEF IndInv, HandoverInv, MetadataInv, ReceiverStep
  <1>1. /\ rcvPc[s] = "recv" /\ rcvPc' = [rcvPc EXCEPT ![s] = "insert"]
        /\ xfer[from] # None /\ xfer[from].status = "sent" /\ xfer[from].to = s
        /\ rcvEntry' = [rcvEntry EXCEPT ![s] = xfer[from].entry]
        /\ rcvNames' = [rcvNames EXCEPT ![s] = xfer[from].names]
        /\ xfer' = [xfer EXCEPT ![from].status = "taken", ![from].names = << >>]
        /\ UNCHANGED <<store, in_charge_md>>
    BY DEF RcvReceive, RcvAt, RcvGoto, sharedVars
  <1>2. /\ UNCHANGED requestVars
        /\ UNCHANGED <<sndPc, sndEntry, sndPtr, sndNames, to_send, mlts, seen, updPc, scan>>
    BY <1>0, ReceiverFrame
  <1>3. sndPc[from] \in {"mark", "ack"} /\ sndPc[from] \in Sending
    BY <1>0, <1>1 DEF ThreadsOK, Sending
  <1>4. PICK e0 \in Entries :
          /\ e0 = sndEntry[from] /\ e0 = xfer[from].entry /\ Moves(e0) /\ Old(e0) = from
          /\ New(e0) = s /\ e0 \in to_send[from]
    <2>1. xfer[from].entry = sndEntry[from] /\ New(sndEntry[from]) = s
      BY <1>0, <1>1 DEF SendersOK
    <2>. QED
      BY <1>0, <1>3, <2>1, SenderEntry
  <1>5. PICK names : names = xfer[from].names
    OBVIOUS
  <1>6. /\ xfer'[from] # None /\ xfer'[from].status = "taken" /\ xfer'[from].names = << >>
        /\ xfer'[from].entry = e0
        /\ \A t \in Servers \ {from} : xfer'[t] = xfer[t]
    <2>1. xfer[from] \in Packet
      BY <1>0, <1>1, HandoverTypes
    <2>2. /\ xfer'[from] = [xfer[from] EXCEPT !.status = "taken", !.names = << >>]
          /\ \A t \in Servers \ {from} : xfer'[t] = xfer[t]
      BY <1>0, <1>1, HandoverTypes
    <2>3. xfer'[from] \in Packet
      BY <2>1, <2>2, EmptySeq DEF Packet
    <2>. QED
      BY <1>4, <2>1, <2>2, <2>3, DataAssumption DEF Packet
  <1>7. /\ rcvPc'[s] = "insert" /\ rcvEntry'[s] = e0 /\ rcvNames'[s] = names
        /\ \A t \in Servers \ {s} : /\ rcvPc'[t] = rcvPc[t] /\ rcvEntry'[t] = rcvEntry[t]
                                    /\ rcvNames'[t] = rcvNames[t]
    BY <1>0, <1>1, <1>4, <1>5, MetadataTypes, HandoverTypes
  <1>8. rcvNames[s] = << >>
    BY <1>0, <1>1 DEF ArriveOK, ArriveAt
  <1>9. NamesOf(e0, names)
    BY <1>0, <1>1, <1>4, <1>5 DEF NamesOK, NamesAt
  <1>10. in_charge_md[from][e0] = << >>
    BY <1>0, <1>3, <1>4 DEF DrainOK, DrainAt
  <1>11. Keeper(e0) = from
    <2>1. ~Handed(e0)
      BY <1>1, <1>4 DEF Handed, Given
    <2>. QED
      BY <1>4, <2>1 DEF Keeper
  <1>12. ASSUME NEW e \in Entries, e # e0 PROVE Keeper(e)' = Keeper(e)
    <2>. SUFFICES ASSUME Moves(e) PROVE Handed(e)' <=> Handed(e)
      BY <1>2, KeeperSame
    <2>1. PICK p \in Servers : p = Old(e) /\ p = Old(e)'
      BY <1>0, <1>2, ThreadFrame
    <2>2. At(p, e)' = At(p, e) /\ Last' = Last
      BY <1>0, <1>2, ThreadFrame
    <2>3. sndEntry' = sndEntry /\ to_send' = to_send
      BY <1>2
    <2>4. Given(e)' <=> Given(e)
      <3>1. xfer'[p] = None <=> xfer[p] = None
        BY <1>1, <1>6, <2>1
      <3>2. xfer'[p] # None /\ xfer'[p].status = "done" /\ sndEntry[p] = e
              <=> xfer[p] # None /\ xfer[p].status = "done" /\ sndEntry[p] = e
        BY <1>4, <1>6, <1>12, <2>1
      <3>. QED
        BY <2>1, <2>2, <2>3, <3>2 DEF Given
    <2>5. xfer'[p] # None /\ xfer'[p].status = "taken" /\ sndEntry[p] = e
            <=> xfer[p] # None /\ xfer[p].status = "taken" /\ sndEntry[p] = e
      BY <1>4, <1>6, <1>12, <2>1
    <2>. QED
      BY <2>1, <2>3, <2>4, <2>5 DEF Handed
  <1>13. ASSUME NEW k \in Keys, NEW t \in Servers
         PROVE  /\ Listed(t, k)' <=> Listed(t, k)
                /\ Popped(t, k)' <=> Popped(t, k)
                /\ Packed(t, k)' <=> Packed(t, k)
                /\ ~Arriving(s, k)
                /\ Arriving(s, k)' <=> Holds(names, k)
                /\ t # s => (Arriving(t, k)' <=> Arriving(t, k))
                /\ Sent(from, k) <=> Holds(names, k)
                /\ ~Sent(from, k)'
                /\ t # from => (Sent(t, k)' <=> Sent(t, k))
                /\ Holds(names, k) => Index[k] = e0
    <2>1. Holds(names, k) => Index[k] = e0
      BY <1>9 DEF Holds, NamesOf
    <2>2. ~Arriving(s, k) /\ (Sent(from, k) <=> Holds(names, k))
      BY <1>1, <1>5, <1>8, EmptyNames DEF Arriving, Sent
    <2>3. (Arriving(s, k)' <=> Holds(names, k)) /\ ~Sent(from, k)'
      BY <1>6, <1>7, EmptyNames DEF Arriving, Sent
    <2>. QED
      BY <1>1, <1>2, <1>6, <1>7, <2>1, <2>2, <2>3 DEF Listed, Popped, Packed, Arriving, Sent
  <1>14. ASSUME NEW k \in Keys PROVE Moving(k)'
    <2>1. Moving(k)
      BY <1>0, MetadataParts
    <2>2. PICK e \in Entries : e = Index[k]
      BY <1>0, MetadataTypes
    <2>3. CASE e # e0
      <3>1. Keeper(Index[k])' = Keeper(Index[k])
        BY <1>12, <2>2, <2>3
      <3>2. ASSUME NEW t \in Servers PROVE Same(t, k) /\ (Sent(t, k)' <=> Sent(t, k))
        <4>1. ~Holds(names, k)
          BY <1>13, <2>2, <2>3
        <4>. QED
          BY <1>1, <1>7, <1>13, <4>1 DEF Same
      <3>. QED
        BY <1>2, <2>1, <3>1, <3>2, MovingStill DEF requestVars
    <2>4. CASE e = e0
      <3>1. ASSUME NEW t \in Servers PROVE store[t][k] = None /\ ~Listed(t, k) /\ ~Popped(t, k)
        <4>1. Here(t, k)
          BY <2>1 DEF Moving
        <4>2. CASE t = from
          <5>1. ~Listed(t, k) /\ ~Popped(t, k)
            BY <1>3, <1>10, <2>2, <2>4, <4>2, EmptyNames DEF Listed, Popped
          <5>. QED
            BY <4>1, <5>1 DEF Here
        <4>3. CASE t # from
          BY <1>11, <2>2, <2>4, <4>1, <4>3 DEF Here
        <4>. QED
          BY <4>2, <4>3
      <3>2. ASSUME NEW t \in Servers PROVE Here(t, k)'
        BY <1>1, <1>13, <3>1 DEF Here
      <3>3. (\E t \in Servers : Some(t, k)') <=> \E t \in Servers : Some(t, k)
        <4>1. ASSUME NEW t \in Servers, t # s, t # from PROVE Some(t, k)' <=> Some(t, k)
          BY <1>1, <1>13, <4>1 DEF Some
        <4>2. Some(s, k)' \/ Some(from, k)' <=> Some(s, k) \/ Some(from, k)
          <5>1. s # from => (Sent(s, k)' <=> Sent(s, k)) /\ (Arriving(from, k)' <=> Arriving(from, k))
            BY <1>13
          <5>2. /\ ~Arriving(s, k) /\ (Arriving(s, k)' <=> Holds(names, k))
                /\ (Sent(from, k) <=> Holds(names, k)) /\ ~Sent(from, k)'
                /\ (Packed(s, k)' <=> Packed(s, k)) /\ (Packed(from, k)' <=> Packed(from, k))
            BY <1>13
          <5>3. store'[s][k] = store[s][k] /\ store'[from][k] = store[from][k]
            BY <1>1
          <5>. QED
            BY <5>1, <5>2, <5>3 DEF Some
        <4>. QED
          BY <4>1, <4>2
      <3>4. acked' = acked /\ (acked[k] # None <=> \E t \in Servers : Some(t, k))
        BY <1>2, <2>1 DEF Moving, requestVars
      <3>5. acked'[k] # None <=> \E t \in Servers : Some(t, k)'
        BY <3>3, <3>4
      <3>. QED
        BY <3>2, <3>5 DEF Moving
    <2>. QED
      BY <2>3, <2>4
  <1>15. NamesOK'
    <2>. SUFFICES ASSUME NEW t \in Servers PROVE NamesAt(t)'
      BY DEF NamesOK
    <2>1. NamesAt(t)
      BY <1>0 DEF NamesOK
    <2>2. xfer'[t] # None => NamesOf(xfer'[t].entry, xfer'[t].names)
      BY <1>6, <2>1, EmptyNames DEF NamesAt
    <2>3. NamesOf(rcvEntry'[t], rcvNames'[t])
      BY <1>7, <1>9, <2>1 DEF NamesAt
    <2>. QED
      BY <1>1, <1>2, <2>1, <2>2, <2>3 DEF NamesAt
  <1>16. DrainOK'
    <2>. SUFFICES ASSUME NEW t \in Servers PROVE DrainAt(t)'
      BY DEF DrainOK
    <2>1. DrainAt(t)
      BY <1>0 DEF DrainOK
    <2>. QED
      BY <1>1, <1>2, <1>6, <2>1 DEF DrainAt
  <1>17. ArriveOK'
    <2>. SUFFICES ASSUME NEW t \in Servers PROVE ArriveAt(t)'
      BY DEF ArriveOK
    <2>1. ArriveAt(t)
      BY <1>0 DEF ArriveOK
    <2>. QED
      BY <1>1, <1>7, <2>1 DEF ArriveAt
  <1>18. \A t \in Servers : sndPc'[t] # "failed" /\ rcvPc'[t] # "failed"
    BY <1>0, <1>2, <1>7 DEF Rest, NoThreadFails
  <1>. QED
    BY <1>0, <1>2, <1>14, <1>15, <1>16, <1>17, <1>18, TransferKept

(* ... and the receiver. *)
LEMMA ReceiverStepKept ==
  ASSUME IndInv, HandoverInv, MetadataInv, NEW s \in Servers, ReceiverStep(s)
  PROVE  MetadataInv'
  BY IdleKept, InsertKept, PutKept, ReplyKept, TakeKept DEF ReceiverStep, ReceiverNext

-----------------------------------------------------------------------------
(* Every step *)

(* In the clients phase the invariant is what the clients keep. *)
LEMMA KeptClients ==
  ASSUME Kept', phase = "clients", UNCHANGED phase
  PROVE  MetadataInv'
  <1>1. MovingOK'
    BY DEF MovingOK
  <1>. QED
    BY <1>1 DEF Kept, MetadataInv

(* No request reaches a server between the signals and the last ack file. *)
LEMMA MainStepKept ==
  ASSUME IndInv, HandoverInv, MetadataInv, NEW s \in Servers, MainStep(s)
  PROVE  MetadataInv'
  <1>0. TypeOK /\ MainOK /\ RequestsOK /\ Kept
    BY DEF IndInv, MetadataInv, Kept
  <1>1. phase = "clients"
    <2>. SUFFICES ASSUME phase # "clients" PROVE FALSE
      OBVIOUS
    <2>1. srvPc[s] = "recv" /\ \A c \in Clients : net[c] = "idle"
      BY <1>0, ClientsRest
    <2>. QED
      BY <2>1 DEF MainStep, MainNext, SrvWaitRetry, SrvUpdateRetry, SrvAccept, Receives, SrvPut,
                  SrvUpdate, SrvDelete, SrvGet, SrvInsert, SrvUnlink, Processes, Listing
  <1>2. UNCHANGED phase
    BY DEF MainStep, launchVars
  <1>3. Kept'
    BY <1>0, MainKept
  <1>. QED
    BY <1>1, <1>2, <1>3, KeptClients

(* So does every step of a client, ... *)
LEMMA CliStepKept ==
  ASSUME IndInv, HandoverInv, MetadataInv, NEW c \in Clients, CliStep(c)
  PROVE  MetadataInv'
  <1>0. TypeOK /\ MainOK /\ RequestsOK /\ Kept
    BY DEF IndInv, MetadataInv, Kept
  <1>1. phase = "clients"
    <2>. SUFFICES ASSUME phase # "clients" PROVE FALSE
      OBVIOUS
    <2>1. net[c] = "idle" /\ cPc[c] = "exited"
      BY <1>0, ClientsRest
    <2>. QED
      BY <2>1 DEF CliStep, CliNext, CliIssue, CliReply, CliExit
  <1>2. UNCHANGED phase
    BY DEF CliStep, launchVars
  <1>3. Kept'
    BY <1>0, CliIssueKept, CliReplyKept, CliExitKept DEF CliStep, CliNext
  <1>. QED
    BY <1>1, <1>2, <1>3, KeptClients

(* ... of the manager ... *)
LEMMA ManagerKept ==
  ASSUME IndInv, HandoverInv, MetadataInv, MgrStep
  PROVE  MetadataInv'
  <1>1. CASE MgrSend
    BY <1>1, PublishKept
  <1>2. CASE MgrWake \/ MgrGather \/ MgrGathered \/ MgrRelab \/ MgrReset
    <2>1. UNCHANGED mlts
      BY <1>2 DEF MgrWake, MgrGather, MgrGathered, MgrRelab, MgrReset, mgrChannel
    <2>2. UNCHANGED <<metaVars, phase, cPc>> /\ UNCHANGED keeperVars
      BY <2>1 DEF MgrStep, metaVars, keeperVars, clientChannel, srvVars, thrVars, cliVars, launchVars,
                  sharedVars, mainVars, updVars, sndVars, rcvVars
    <2>. QED
      BY <2>2, QuietKept
  <1>. QED
    BY <1>1, <1>2 DEF MgrStep, MgrNext

(* ... and of the handler of SIGUSR2. *)
LEMMA HandlerKept ==
  ASSUME MetadataInv, NEW s \in Servers, HandlerStep(s)
  PROVE  MetadataInv'
  <1>1. UNCHANGED <<metaVars, phase, cPc>> /\ UNCHANGED keeperVars
    BY DEF HandlerStep, HandlerNext, usr1_handler, usr2_handler, metaVars, keeperVars, clientChannel,
           mgrChannel, srvVars, thrVars, cliVars, launchVars, sharedVars, mainVars, updVars, sndVars,
           rcvVars
  <1>. QED
    BY <1>1, QuietKept

(* Every step keeps the invariant, under launch_all.sh. *)
LEMMA NextMetadata ==
  Barrier /\ IndInv /\ HandoverInv /\ MetadataInv /\ [Next]_vars => MetadataInv'
  <1>. SUFFICES ASSUME Barrier, IndInv, HandoverInv, MetadataInv, [Next]_vars PROVE MetadataInv'
    OBVIOUS
  <1>1. CASE LaunchNext
    BY <1>1, SignalKept, ManagerSignalKept, StepKept DEF LaunchNext
  <1>2. CASE MgrStep
    BY <1>2, ManagerKept
  <1>3. ASSUME NEW s \in Servers, MainStep(s) \/ HandlerStep(s) PROVE MetadataInv'
    BY <1>3, MainStepKept, HandlerKept
  <1>4. ASSUME NEW s \in Servers, UpdaterStep(s) \/ SenderStep(s) \/ ReceiverStep(s)
        PROVE  MetadataInv'
    BY <1>4, UpdaterKept, SenderStepKept, ReceiverStepKept
  <1>5. ASSUME NEW c \in Clients, CliStep(c) PROVE MetadataInv'
    BY <1>5, CliStepKept
  <1>6. CASE Finished \/ UNCHANGED vars
    <2>1. UNCHANGED <<metaVars, phase, cPc>> /\ UNCHANGED keeperVars
      BY <1>6 DEF Finished, vars, metaVars, keeperVars, clientChannel, mgrChannel, srvVars, thrVars,
                  cliVars, launchVars, sharedVars, mainVars, updVars, sndVars, rcvVars
    <2>. QED
      BY <2>1, QuietKept
  <1>. QED
    BY <1>1, <1>2, <1>3, <1>4, <1>5, <1>6 DEF Next

(* The invariant holds at the start. *)
LEMMA InitMetadata == Init => MetadataInv
  <1>. SUFFICES ASSUME Init PROVE MetadataInv
    OBVIOUS
  <1>0. TypeOK
    BY InitIndInv DEF IndInv
  <1>1. /\ up = Servers /\ phase = "clients" /\ made = {} /\ acked = [k \in Keys |-> None]
        /\ net = [c \in Clients |-> "idle"] /\ cPc = [c \in Clients |-> "running"]
        /\ store = [s \in Servers |-> [k \in Keys |-> None]]
        /\ in_charge_md = [s \in Servers |-> [e \in Entries |-> << >>]]
        /\ xfer = [s \in Servers |-> None]
        /\ sndPc = [s \in Servers |-> "off"] /\ rcvPc = [s \in Servers |-> "off"]
        /\ sndNames = [s \in Servers |-> << >>] /\ rcvNames = [s \in Servers |-> << >>]
    BY DEF Init, ChannelsInit, SrvInit, ThrInit, CliInit
  <1>2. \A k \in Keys : TraceOf[k] \in Clients /\ Index[k] \in Entries
    BY <1>0, MetadataTypes
  <1>3. \A k \in Keys : ~Busy(k)
    BY <1>1, <1>2 DEF Busy
  <1>4. NoThreadFails /\ AnswerIsNewer /\ MovingOK
    BY <1>1 DEF NoThreadFails, AnswerIsNewer, MovingOK
  <1>5. RequestsOK
    BY <1>1 DEF RequestsOK, RequestOK
  <1>6. TracesOK
    BY <1>1, <1>3 DEF TracesOK, TraceOK
  <1>7. NamesOK /\ DrainOK /\ ArriveOK
    BY <1>1, EmptyNames DEF NamesOK, NamesAt, DrainOK, DrainAt, ArriveOK, ArriveAt
  <1>8. RestingOK
    <2>. SUFFICES ASSUME NEW k \in Keys, NEW s \in Servers
                  PROVE store[s][k] = None /\ ~Listed(s, k) /\ ~HasFile(k) /\ ~HasName(k)
      BY DEF RestingOK
    <2>1. ~Listed(s, k)
      BY <1>1, <1>2, EmptyNames DEF Listed
    <2>. QED
      BY <1>1, <1>3, <2>1 DEF HasFile, HasName
  <1>. QED
    BY <1>4, <1>5, <1>6, <1>7, <1>8 DEF MetadataInv

(* With the launcher's barrier every acknowledged file is, at every step   *)
(* of a request and of a redistribution, where MetadataInv says.           *)
THEOREM MetadataInvariance ==
  ASSUME Barrier PROVE Spec => [](IndInv /\ HandoverInv /\ MetadataInv)
  <1>1. Init => IndInv /\ HandoverInv /\ MetadataInv
    BY InitIndInv, InitHandover, InitMetadata
  <1>2. (IndInv /\ HandoverInv /\ MetadataInv) /\ [Next]_vars
          => (IndInv /\ HandoverInv /\ MetadataInv)'
    BY NextIndInv, NextHandoverInv, NextMetadata
  <1>. QED
    BY <1>1, <1>2, PTL DEF Spec

-----------------------------------------------------------------------------
(* What follows *)

(* No sender misses a file it deletes, no receiver finds one it creates,   *)
(* and no read makes a server process end.                                 *)
THEOREM ThreadsSucceed ==
  ASSUME Barrier PROVE Spec => []NoThreadFails
  <1>1. IndInv /\ HandoverInv /\ MetadataInv => NoThreadFails
    BY DEF MetadataInv
  <1>. QED
    BY <1>1, MetadataInvariance, PTL

(* The line distribution_post_receive sends back is newer than the one the *)
(* client used, so a client that asks again does not go back and forth.    *)
THEOREM RedirectsForward ==
  ASSUME Barrier PROVE Spec => []AnswerIsNewer
  <1>1. IndInv /\ HandoverInv /\ MetadataInv => AnswerIsNewer
    BY DEF MetadataInv
  <1>. QED
    BY <1>1, MetadataInvariance, PTL

(* A key is not busy when no request about it is on its way. *)
LEMMA SettledKey ==
  ASSUME TypeOK, NEW k \in Keys, Settled(k)
  PROVE  ~Busy(k)
  BY MetadataTypes DEF Settled, Busy

(* The servers of one key while clients run *)
LEMMA PlacedKey ==
  ASSUME IndInv, HandoverInv, MetadataInv, phase = "clients",
         NEW k \in Keys, NEW s \in Servers, Settled(k)
  PROVE  /\ mgrTable[Index[k]].id_srv = New(Index[k])
         /\ store[s][k] # None <=> acked[k] # None /\ s = New(Index[k])
         /\ Listed(s, k) <=> acked[k] # None /\ s = New(Index[k])
         /\ NamesOf(Index[k], in_charge_md[s][Index[k]])
  <1>0. TypeOK /\ RestingOK /\ NamesOK
    BY DEF IndInv, MetadataInv
  <1>1. mgrTable = mlts[Last]
    BY ThreadsStop
  <1>2. ~Busy(k)
    BY <1>0, SettledKey
  <1>3. NamesOf(Index[k], in_charge_md[s][Index[k]])
    BY <1>0, MetadataTypes DEF NamesOK, NamesAt
  <1>4. /\ store[s][k] # None <=> acked[k] # None /\ s = New(Index[k])
        /\ Listed(s, k) <=> acked[k] # None /\ s = New(Index[k])
    BY <1>0, <1>2 DEF RestingOK, HasFile, HasName
  <1>. QED
    BY <1>1, <1>3, <1>4 DEF New

(* Between redistributions the files, and the lists of names the next one  *)
(* is made from, are those of the keys the manager gives the server.       *)
THEOREM FilesFollowTable ==
  ASSUME Barrier PROVE Spec => []Placed
  <1>1. ASSUME IndInv, HandoverInv, MetadataInv PROVE Placed
    <2>. SUFFICES ASSUME phase = "clients", NEW k \in Keys, NEW s \in Servers, Settled(k)
                  PROVE  LET here  == acked[k] # None /\ mgrTable[Index[k]].id_srv = s
                             names == in_charge_md[s][Index[k]]
                         IN  /\ (store[s][k] # None) <=> here
                             /\ Cardinality({i \in DOMAIN names : names[i] = k})
                                  = IF here THEN 1 ELSE 0
      BY DEF Placed
    <2>. DEFINE names == in_charge_md[s][Index[k]]
    <2>1. /\ mgrTable[Index[k]].id_srv = New(Index[k])
          /\ store[s][k] # None <=> acked[k] # None /\ s = New(Index[k])
          /\ Holds(names, k) <=> acked[k] # None /\ s = New(Index[k])
          /\ NamesOf(Index[k], names)
      BY <1>1, PlacedKey DEF Listed
    <2>2. Cardinality({i \in DOMAIN names : names[i] = k}) = IF Holds(names, k) THEN 1 ELSE 0
      BY <2>1, CountName
    <2>. HIDE DEF names
    <2>3. /\ (store[s][k] # None) <=> (acked[k] # None /\ mgrTable[Index[k]].id_srv = s)
          /\ Cardinality({i \in DOMAIN names : names[i] = k})
               = IF acked[k] # None /\ mgrTable[Index[k]].id_srv = s THEN 1 ELSE 0
      BY <2>1, <2>2
    <2>. QED
      BY <2>3 DEF names
  <1>. QED
    BY <1>1, MetadataInvariance, PTL

(* The places of a key during a redistribution: all at the keeper of its   *)
(* entry, and a packet's before the receiver's.                            *)
LEMMA MovingPlaces ==
  ASSUME IndInv, HandoverInv, MetadataInv, phase # "clients", NEW k \in Keys, NEW s \in Servers
  PROVE  /\ store[s][k] # None => s = Keeper(Index[k])
         /\ Packed(s, k) => /\ s = Keeper(Index[k]) /\ ~Handed(Index[k])
                            /\ store[s][k] = None /\ ~Sent(s, k)
         /\ Sent(s, k) => s = Keeper(Index[k]) /\ ~Handed(Index[k]) /\ store[s][k] = None
         /\ Arriving(s, k) => s = Keeper(Index[k]) /\ Handed(Index[k]) /\ store[s][k] = None
  <1>0. /\ TypeOK /\ ThreadsOK /\ LockstepOK /\ SendersOK /\ ReceiversOK
        /\ NamesOK /\ DrainOK /\ ArriveOK
    BY DEF IndInv, HandoverInv, MetadataInv
  <1>1. Here(s, k)
    BY MetadataParts DEF Moving
  <1>2. PICK e \in Entries : e = Index[k]
    BY <1>0, MetadataTypes
  <1>3. /\ NamesAt(s) /\ DrainAt(s) /\ ArriveAt(s)
    BY <1>0 DEF NamesOK, DrainOK, ArriveOK
  <1>4. sndPc[s] \in {"mark", "ack"} <=> xfer[s] # None
    BY <1>0 DEF ThreadsOK
  <1>5. ASSUME Packed(s, k) PROVE s = Keeper(e) /\ ~Handed(e) /\ store[s][k] = None /\ ~Sent(s, k)
    <2>1. sndNames[s] # << >> /\ sndEntry[s] = e
      BY <1>2, <1>3, <1>5, EmptyNames DEF Packed, NamesAt, NamesOf, Holds
    <2>2. sndPc[s] \in {"check", "pop", "del", "send"} /\ xfer[s] = None
      BY <1>3, <1>4, <2>1 DEF DrainAt
    <2>3. Moves(e) /\ Old(e) = s /\ e \in to_send[s]
      BY <1>0, <2>1, <2>2, SenderEntry DEF Sending
    <2>4. ~Handed(e)
      BY <2>2, <2>3 DEF Handed, Given
    <2>5. store[s][k] = None
      BY <1>1, <1>5 DEF Here
    <2>. QED
      BY <2>2, <2>3, <2>4, <2>5 DEF Keeper, Sent
  <1>6. ASSUME Sent(s, k) PROVE s = Keeper(e) /\ ~Handed(e) /\ store[s][k] = None
    <2>1. xfer[s] # None /\ xfer[s].names # << >> /\ xfer[s].entry = e /\ sndEntry[s] = e
      BY <1>0, <1>2, <1>3, <1>6, EmptyNames DEF Sent, NamesAt, NamesOf, Holds, SendersOK
    <2>2. xfer[s].status = "sent" /\ sndPc[s] \in {"mark", "ack"}
      BY <1>3, <1>4, <2>1 DEF DrainAt
    <2>3. Moves(e) /\ Old(e) = s /\ e \in to_send[s]
      BY <1>0, <2>1, <2>2, SenderEntry DEF Sending
    <2>4. ~Handed(e)
      BY <2>2, <2>3 DEF Handed, Given
    <2>5. in_charge_md[s][e] = << >>
      BY <1>3, <2>1, <2>2 DEF DrainAt
    <2>6. ~Listed(s, k) /\ ~Popped(s, k)
      BY <1>2, <2>2, <2>5, EmptyNames DEF Listed, Popped
    <2>. QED
      BY <1>1, <2>3, <2>4, <2>6 DEF Keeper, Here
  <1>7. ASSUME Arriving(s, k) PROVE s = Keeper(e) /\ Handed(e) /\ store[s][k] = None
    <2>1. rcvNames[s] # << >> /\ rcvEntry[s] = e
      BY <1>2, <1>3, <1>7, EmptyNames DEF Arriving, NamesAt, NamesOf, Holds
    <2>2. rcvPc[s] \in {"insert", "put"}
      BY <1>3, <2>1 DEF ArriveAt
    <2>3. /\ xfer[Old(e)] # None /\ xfer[Old(e)].status = "taken" /\ sndEntry[Old(e)] = e
          /\ Moves(e) /\ New(e) = s /\ Old(e) \in Servers
      BY <1>0, <2>1, <2>2, ReceiverEntry
    <2>4. Handed(e)
      BY <2>3 DEF Handed
    <2>5. ~Popped(s, k)
      <3>. SUFFICES ASSUME Popped(s, k) PROVE FALSE
        OBVIOUS
      <3>1. sndPc[s] = "del" /\ sndEntry[s] = e
        BY <1>2, <1>3 DEF Popped, DrainAt
      <3>2. Old(e) = s
        BY <1>0, <3>1, SenderEntry DEF Sending
      <3>. QED
        BY <1>4, <2>3, <3>1, <3>2
    <2>. QED
      BY <1>1, <1>7, <2>3, <2>4, <2>5 DEF Keeper, Here
  <1>8. store[s][k] # None => s = Keeper(Index[k])
    BY <1>1 DEF Here
  <1>. QED
    BY <1>2, <1>5, <1>6, <1>7, <1>8

(* A place is a kind and a server; here is what the kinds stand for. *)
LEMMA PlaceKinds ==
  ASSUME NEW k, NEW p \in Places(k)
  PROVE  \E s \in Servers : \/ p = <<"file", s>> /\ store[s][k] # None
                            \/ p = <<"sender", s>> /\ Packed(s, k)
                            \/ p = <<"packet", s>> /\ Sent(s, k)
                            \/ p = <<"receiver", s>> /\ Arriving(s, k)
  BY DEF Places, Packed, Sent, Arriving

(* The four kinds of places where a file may be. *)
LEMMA KindPlaces ==
  ASSUME NEW k, NEW s \in Servers
  PROVE  /\ store[s][k] # None => <<"file", s>> \in Places(k)
         /\ Packed(s, k) => <<"sender", s>> \in Places(k)
         /\ Sent(s, k) => <<"packet", s>> \in Places(k)
         /\ Arriving(s, k) => <<"receiver", s>> \in Places(k)
  BY DEF Places, Packed, Sent, Arriving

(* One place when something is acknowledged, none otherwise *)
LEMMA PlaceCount ==
  ASSUME NEW k, \A p, q \in Places(k) : p = q, acked[k] # None <=> Places(k) # {}
  PROVE  Cardinality(Places(k)) = IF acked[k] = None THEN 0 ELSE 1
  <1>1. CASE acked[k] = None
    BY <1>1, FS_EmptySet
  <1>2. CASE acked[k] # None
    <2>1. PICK p : p \in Places(k)
      BY <1>2
    <2>2. Places(k) = {p}
      BY <2>1
    <2>. QED
      BY <1>2, <2>2, FS_Singleton
  <1>. QED
    BY <1>1, <1>2

(* Whatever a redistribution has done so far, every acknowledged key is at *)
(* one place: no file is lost with a packet, and none is there twice.      *)
THEOREM NothingLost ==
  ASSUME Barrier PROVE Spec => []Conserved
  <1>1. ASSUME IndInv, HandoverInv, MetadataInv PROVE Conserved
    <2>. SUFFICES ASSUME NEW k \in Keys, Settled(k)
                  PROVE Cardinality(Places(k)) = IF acked[k] = None THEN 0 ELSE 1
      BY DEF Conserved
    <2>0. TypeOK /\ DrainOK /\ ArriveOK
      BY <1>1 DEF IndInv, MetadataInv
    <2>1. CASE phase = "clients"
      <3>1. PICK n \in Servers : n = New(Index[k])
        BY <2>0, MetadataTypes, NewType
      <3>2. \A s \in Servers : store[s][k] # None <=> acked[k] # None /\ s = n
        BY <1>1, <2>1, <3>1, PlacedKey
      <3>3. \A s \in Servers : ~Packed(s, k) /\ ~Sent(s, k) /\ ~Arriving(s, k)
        BY <1>1, <2>0, <2>1, NoneMoving
      <3>4. \A p \in Places(k) : acked[k] # None /\ p = <<"file", n>>
        BY <3>2, <3>3, PlaceKinds
      <3>5. acked[k] # None => <<"file", n>> \in Places(k)
        BY <3>1, <3>2, KindPlaces
      <3>. QED
        BY <3>4, <3>5, PlaceCount
    <2>2. CASE phase # "clients"
      <3>1. Moving(k)
        BY <1>1, <2>2, MetadataParts
      <3>2. acked[k] # None <=> Places(k) # {}
        <4>1. (\E s \in Servers : Some(s, k)) <=> Places(k) # {}
          BY PlaceKinds, KindPlaces DEF Some
        <4>. QED
          BY <3>1, <4>1 DEF Moving
      <3>3. ASSUME NEW p \in Places(k), NEW q \in Places(k) PROVE p = q
        <4>. DEFINE n == Keeper(Index[k])
        <4>1. ASSUME NEW s \in Servers
              PROVE /\ store[s][k] # None => s = n
                    /\ Packed(s, k) => s = n /\ ~Handed(Index[k]) /\ store[s][k] = None /\ ~Sent(s, k)
                    /\ Sent(s, k) => s = n /\ ~Handed(Index[k]) /\ store[s][k] = None
                    /\ Arriving(s, k) => s = n /\ Handed(Index[k]) /\ store[s][k] = None
          BY <1>1, <2>2, MovingPlaces
        <4>. HIDE DEF n
        <4>. QED
          BY <4>1, PlaceKinds
      <3>. QED
        BY <3>2, <3>3, PlaceCount
    <2>. QED
      BY <2>1, <2>2
  <1>. QED
    BY <1>1, MetadataInvariance, PTL
=============================================================================
