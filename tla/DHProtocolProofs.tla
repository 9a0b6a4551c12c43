------------------------- MODULE DHProtocolProofs -------------------------
(***************************************************************************)
(* The DH build, for every number of servers, entries, clients, keys,      *)
(* requests and rounds, and for both launchers (Barrier).  First the types:*)
(* one lemma per process and group of variables, after the lemmas on       *)
(* tables and lists of names (Mlt) they cite.  Then IndInv, each conjunct  *)
(* for the processes whose steps touch its variables; agreement on         *)
(* versions, acceptance by the owner only and the growth of the versions   *)
(* follow from it.  Last HandoverInv, its conjuncts one after the other on *)
(* top of IndInv; that an entry has one server, that acknowledged means    *)
(* over, that the manager gathers undisturbed, and that the DH build       *)
(* implements EntryOwnership follow.                                       *)
(***************************************************************************)
EXTENDS DHOwnership, SequenceTheorems, FiniteSetTheorems, WellFoundedInduction, TLAPS

-----------------------------------------------------------------------------
(* What the operators of Mlt return *)

(* The table all processes start with is a table of the servers' type.     *)
(* mlt_init fills it with a modulo, which needs at least one server.       *)
LEMMA MltInitType == mlt_init \in [Entries -> MltLine]
  BY SizesAssumption DEF mlt_init, MltLine, Entries, Servers

(* mlt_update_entry writes one line and no other. *)
LEMMA UpdateEntryType ==
  ASSUME NEW t \in [Entries -> MltLine], NEW e \in Entries, NEW srv \in Servers,
         NEW ver \in Nat, NEW state \in {0, 1}
  PROVE  /\ mlt_update_entry(t, e, srv, ver, state) \in [Entries -> MltLine]
         /\ AssignmentOf(mlt_update_entry(t, e, srv, ver, state)[e])
              = [id_srv |-> srv, n_ver |-> ver]
         /\ \A f \in Entries \ {e} : mlt_update_entry(t, e, srv, ver, state)[f] = t[f]
  BY DEF mlt_update_entry, MltLine, AssignmentOf

(* mlt_update_state changes no assignment. *)
LEMMA UpdateStateType ==
  ASSUME NEW t \in [Entries -> MltLine], NEW e \in Entries, NEW state \in {0, 1}
  PROVE  /\ mlt_update_state(t, e, state) \in [Entries -> MltLine]
         /\ \A f \in Entries :
              AssignmentOf(mlt_update_state(t, e, state)[f]) = AssignmentOf(t[f])
  BY DEF mlt_update_state, MltLine, AssignmentOf

(* The assignment of a line is what the manager publishes. *)
LEMMA AssignmentType ==
  ASSUME NEW line \in MltLine
  PROVE  AssignmentOf(line) \in Assignment
  BY DEF AssignmentOf, MltLine, Assignment

-----------------------------------------------------------------------------
(* md_entry_insert gives a list of names. *)
LEMMA InsertType ==
  ASSUME NEW S, NEW list \in Seq(S), NEW name \in S
  PROVE  md_entry_insert(list, name) \in Seq(S) /\ md_entry_insert(list, name) # << >>
  <1>1. <<name>> \in Seq(S)
    OBVIOUS
  <1>2. <<name>> \o list \in Seq(S) /\ Len(<<name>> \o list) = 1 + Len(list)
    BY <1>1, ConcatProperties
  <1>3. Len(list) \in Nat
    BY LenProperties
  <1>. QED
    BY <1>2, <1>3, EmptySeq DEF md_entry_insert

(* A name that is in a list has a first position, the one                  *)
(* md_entry_search_md_name stops at.                                       *)
LEMMA FirstPosition ==
  ASSUME NEW S, NEW list \in Seq(S), NEW name, InList(list, name)
  PROVE  \E i \in DOMAIN list :
           list[i] = name /\ \A j \in 1 .. i - 1 : list[j] # name
  <1>. DEFINE Hits == {i \in DOMAIN list : list[i] = name}
  <1>1. DOMAIN list = 1 .. Len(list) /\ Len(list) \in Nat
    BY LenProperties
  <1>2. Hits \subseteq Nat /\ Hits # {}
    BY <1>1 DEF InList
  <1>3. PICK i \in Hits : \A j \in Hits : ~ (<<j, i>> \in OpToRel(<, Nat))
    <2>. HIDE DEF Hits
    <2>. QED BY <1>2, NatLessThanWellFounded, WFMin
  <1>4. \A j \in Hits : ~ (j < i)
    BY <1>2, <1>3 DEF OpToRel
  <1>5. \A j \in 1 .. i - 1 : list[j] # name
    BY <1>1, <1>4
  <1>. QED
    BY <1>5

(* Unlinking a name leaves a list of names. *)
LEMMA SearchType ==
  ASSUME NEW S, NEW list \in Seq(S), NEW name, InList(list, name)
  PROVE  md_entry_search_md_name(list, name) \in Seq(S)
  <1>. DEFINE First(i) == list[i] = name /\ \A j \in 1 .. i - 1 : list[j] # name
              i == CHOOSE i \in DOMAIN list : First(i)
  <1>1. DOMAIN list = 1 .. Len(list) /\ Len(list) \in Nat
    BY LenProperties
  <1>2. i \in 1 .. Len(list)
    BY <1>1, FirstPosition
  <1>. HIDE DEF i
  <1>3. SubSeq(list, 1, i - 1) \in Seq(S)
    <2>1. \A j \in 1 .. i - 1 : list[j] \in S
      BY <1>1, <1>2, ElementOfSeq
    <2>. QED BY <1>2, <2>1, SubSeqProperties
  <1>4. SubSeq(list, i + 1, Len(list)) \in Seq(S)
    <2>1. \A j \in i + 1 .. Len(list) : list[j] \in S
      BY <1>1, <1>2, ElementOfSeq
    <2>. QED BY <1>1, <1>2, <2>1, SubSeqProperties
  <1>5. SubSeq(list, 1, i - 1) \o SubSeq(list, i + 1, Len(list)) \in Seq(S)
    BY <1>3, <1>4, ConcatProperties
  <1>. QED
    BY <1>5 DEF md_entry_search_md_name, i

-----------------------------------------------------------------------------
(* Types *)

(* The initial state is type correct: every process starts from the modulo table *)
(* of mlt_init.                                                             *)
LEMMA InitType == Init => TypeOK
  <1>. SUFFICES ASSUME Init PROVE TypeOK
    OBVIOUS
  <1>. USE SizesAssumption, DataAssumption, TraceAssumption, LauncherAssumption
  <1>1. mlt_init \in [Entries -> MltLine]
    BY MltInitType
  <1>2. FreshTable \in [Entries -> Assignment]
    BY <1>1, AssignmentType DEF FreshTable
  <1>3. ChannelsTypeOK
    BY <1>2 DEF Init, ChannelsInit, ChannelsTypeOK, FreshTable
  <1>4. MgrTypeOK
    <2>1. update_needed \in BOOLEAN
      BY Zenon DEF Init, MgrInit
    <2>2. nb_rcv \in 0 .. NbSrv
      BY DEF Init, MgrInit
    <2>3. mgrTable \in [Entries -> Assignment]
      BY <1>2 DEF Init, MgrInit, FreshTable
    <2>4. mgrPc = "sleep"
      BY DEF Init, MgrInit
    <2>. QED
      BY <2>1, <2>2, <2>3, <2>4, Zenon DEF MgrTypeOK
  <1>5. SrvTypeOK
    BY <1>1 DEF Init, SrvInit, SrvTypeOK, File
  <1>6. ThrTypeOK
    BY DEF Init, ThrInit, ThrTypeOK, SndPcs, RcvPcs, Entries, Servers
  <1>7. CliTypeOK
    BY <1>2 DEF Init, CliInit, CliTypeOK, File
  <1>8. LaunchTypeOK
    BY DEF Init, LaunchTypeOK
  <1>. QED
    BY <1>3, <1>4, <1>5, <1>6, <1>7, <1>8 DEF TypeOK

(* An answer to client c changes its exchange only. *)
LEMMA AnswerType ==
  ASSUME ChannelsTypeOK, NEW c \in Clients, NEW flag \in Flags,
         NEW new \in Assignment \cup {None}, NEW val \in File,
         Answer(c, flag, new, val), UNCHANGED <<mgrChannel, xfer, hostChannel>>
  PROVE  ChannelsTypeOK'
  <1>1. net' \in [Clients -> {"idle", "sent", "taken", "replied"}]
    BY DEF ChannelsTypeOK, Answer
  <1>2. [flag |-> flag, new |-> new, val |-> val] \in Reply
    BY DEF Reply
  <1>3. rep' \in [Clients -> Reply \cup {None}]
    BY <1>2 DEF ChannelsTypeOK, Answer
  <1>. QED
    BY <1>1, <1>3 DEF ChannelsTypeOK, Answer, mgrChannel, hostChannel

(* The file and list writes keep the server's types. *)
LEMMA FileType ==
  ASSUME SrvTypeOK, NEW s \in Servers, NEW k \in Keys, NEW v \in File, SetFile(s, k, v)
  PROVE  store' \in [Servers -> [Keys -> File]]
  BY DEF SrvTypeOK, SetFile

(* A list operation of the main thread or of a transfer thread (md_entry.c) *)
(* leaves every in_charge_md list a sequence of names.                      *)
LEMMA ListType ==
  ASSUME SrvTypeOK, NEW s \in Servers, NEW e \in Entries, NEW list \in Seq(Keys),
         in_charge_md' = [in_charge_md EXCEPT ![s][e] = list]
  PROVE  in_charge_md' \in [Servers -> [Entries -> Seq(Keys)]]
  BY DEF SrvTypeOK

(* The main thread, when it is past its check, holds a typed request.      *)
LEMMA CurrentType ==
  ASSUME TypeOK, ExchangesOK, MainOK, NEW s \in Servers, srvPc[s] # "recv"
  PROVE  /\ serving[s] \in Clients
         /\ Current(s) \in Request
         /\ Current(s).key \in Keys
         /\ Current(s).val \in File
         /\ Index[Current(s).key] \in Entries
  <1>1. serving[s] \in Clients /\ net[serving[s]] # "idle"
    BY DEF MainOK
  <1>2. Current(s) \in Request
    BY <1>1 DEF ExchangesOK, Current
  <1>. QED
    BY <1>1, <1>2, DataAssumption DEF Request

(* Whatever the request loop of server.c does with a request, the exchanges *)
(* with the clients keep their types.                                       *)
LEMMA MainChannels ==
  ASSUME TypeOK, ExchangesOK, MainOK, NEW s \in Servers, MainNext(s)
  PROVE  ChannelsTypeOK'
  <1>. USE DataAssumption
  <1>0. ChannelsTypeOK /\ None \in File /\ File = Values \cup {None}
    BY DEF TypeOK, File
  <1>a. ASSUME srvPc[s] # "recv", NEW flag \in Flags, NEW val \in File,
               Finish(s, flag, val), UNCHANGED <<mgrChannel, xfer, hostChannel>>
        PROVE  ChannelsTypeOK'
    BY <1>0, <1>a, CurrentType, AnswerType DEF Finish
  <1>b. ASSUME ToList(s), UNCHANGED <<mgrChannel, xfer, hostChannel>>
        PROVE  ChannelsTypeOK'
    BY <1>0, <1>b DEF ToList, ChannelsTypeOK, clientChannel, mgrChannel, hostChannel
  <1>1. ASSUME NEW c \in Clients, SrvWaitRetry(s, c) PROVE ChannelsTypeOK'
    BY <1>0, <1>1, AnswerType DEF SrvWaitRetry, Flags
  <1>2. ASSUME NEW c \in Clients, SrvUpdateRetry(s, c) PROVE ChannelsTypeOK'
    <2>1. LineFor(s, c) \in MltLine
      <3>1. req[c] \in Request
        BY <1>2 DEF SrvUpdateRetry, Receives, ExchangesOK
      <3>. QED
        BY <3>1 DEF LineFor, Request, TypeOK, SrvTypeOK
    <2>2. AssignmentOf(LineFor(s, c)) \in Assignment
      BY <2>1, AssignmentType
    <2>. QED
      BY <1>0, <1>2, <2>2, AnswerType DEF SrvUpdateRetry, Flags
  <1>3. ASSUME NEW c \in Clients, SrvAccept(s, c) PROVE ChannelsTypeOK'
    BY <1>0, <1>3 DEF SrvAccept, ChannelsTypeOK, mgrChannel, hostChannel
  <1>4. CASE SrvPut(s)
    BY <1>0, <1>4, <1>a, <1>b DEF SrvPut, Processes, Flags
  <1>5. CASE SrvUpdate(s)
    BY <1>0, <1>5, <1>a DEF SrvUpdate, Processes, Flags
  <1>6. CASE SrvDelete(s)
    BY <1>0, <1>6, <1>a, <1>b DEF SrvDelete, Processes, Flags
  <1>7. CASE SrvGet(s)
    <2>1. store[s][Current(s).key] \in File
      BY <1>7, CurrentType DEF SrvGet, Processes, TypeOK, SrvTypeOK
    <2>2. CASE Exists(s, Current(s).key)
      BY <1>0, <1>7, <1>a, <2>1, <2>2 DEF SrvGet, Processes, Flags
    <2>3. CASE ~Exists(s, Current(s).key)
      BY <1>0, <1>7, <2>3 DEF SrvGet, ChannelsTypeOK, clientChannel, mgrChannel, hostChannel
    <2>. QED
      BY <2>2, <2>3
  <1>8. CASE SrvInsert(s)
    BY <1>0, <1>8, <1>a DEF SrvInsert, Listing, Flags
  <1>9. CASE SrvUnlink(s)
    BY <1>0, <1>9, <1>a DEF SrvUnlink, Listing, Flags
  <1>. QED
    BY <1>1, <1>2, <1>3, <1>4, <1>5, <1>6, <1>7, <1>8, <1>9 DEF MainNext

(* A step of the request loop keeps the types of the table, the files, the  *)
(* lists and the main thread's own state.                                   *)
LEMMA MainSrv ==
  ASSUME TypeOK, ExchangesOK, MainOK, NEW s \in Servers, MainNext(s)
  PROVE  SrvTypeOK'
  <1>. USE DataAssumption
  <1>0. SrvTypeOK /\ None \in File
    BY DEF TypeOK, File
  <1>a. ASSUME NEW flag, NEW val, Finish(s, flag, val)
        PROVE  /\ srvPc' \in [Servers -> {"recv", "store", "list"}]
               /\ serving' \in [Servers -> Clients \cup {None}]
    BY <1>0, <1>a DEF Finish, SrvTypeOK
  <1>b. ASSUME ToList(s)
        PROVE  /\ srvPc' \in [Servers -> {"recv", "store", "list"}]
               /\ serving' \in [Servers -> Clients \cup {None}]
    BY <1>0, <1>b DEF ToList, SrvTypeOK
  <1>1. ASSUME NEW c \in Clients, SrvWaitRetry(s, c) \/ SrvUpdateRetry(s, c)
        PROVE  SrvTypeOK'
    BY <1>0, <1>1 DEF SrvWaitRetry, SrvUpdateRetry, srvVars, SrvTypeOK
  <1>2. ASSUME NEW c \in Clients, SrvAccept(s, c) PROVE SrvTypeOK'
    BY <1>0, <1>2 DEF SrvAccept, sharedVars, SrvTypeOK
  <1>3. CASE SrvPut(s)
    <2>1. srvPc[s] # "recv"
      BY <1>3 DEF SrvPut, Processes
    <2>2. store' \in [Servers -> [Keys -> File]]
      BY <1>0, <1>3, <2>1, CurrentType, FileType DEF SrvPut, SrvTypeOK
    <2>3. UNCHANGED <<table, in_charge_md, up>>
      BY <1>3 DEF SrvPut
    <2>4. (\E flag, val : Finish(s, flag, val)) \/ ToList(s)
      BY <1>3 DEF SrvPut
    <2>. QED
      BY <1>0, <1>a, <1>b, <2>2, <2>3, <2>4 DEF SrvTypeOK
  <1>4. CASE SrvUpdate(s)
    <2>1. srvPc[s] # "recv"
      BY <1>4 DEF SrvUpdate, Processes
    <2>2. store' \in [Servers -> [Keys -> File]]
      BY <1>0, <1>4, <2>1, CurrentType, FileType DEF SrvUpdate, SrvTypeOK
    <2>3. UNCHANGED <<table, in_charge_md, up>>
      BY <1>4 DEF SrvUpdate
    <2>4. \E flag, val : Finish(s, flag, val)
      BY <1>4 DEF SrvUpdate
    <2>. QED
      BY <1>0, <1>a, <2>2, <2>3, <2>4 DEF SrvTypeOK
  <1>5. CASE SrvDelete(s)
    <2>1. srvPc[s] # "recv"
      BY <1>5 DEF SrvDelete, Processes
    <2>2. store' \in [Servers -> [Keys -> File]]
      BY <1>0, <1>5, <2>1, CurrentType, FileType DEF SrvDelete, SrvTypeOK
    <2>3. UNCHANGED <<table, in_charge_md, up>>
      BY <1>5 DEF SrvDelete
    <2>4. (\E flag, val : Finish(s, flag, val)) \/ ToList(s)
      BY <1>5 DEF SrvDelete
    <2>. QED
      BY <1>0, <1>a, <1>b, <2>2, <2>3, <2>4 DEF SrvTypeOK
  <1>6. CASE SrvGet(s)
    <2>1. UNCHANGED <<table, store, in_charge_md>> /\ up' \in SUBSET Servers
      BY <1>0, <1>6 DEF SrvGet, sharedVars, SrvTypeOK
    <2>2. (\E flag, val : Finish(s, flag, val)) \/ UNCHANGED <<srvPc, serving>>
      BY <1>6 DEF SrvGet, mainVars
    <2>. QED
      BY <1>0, <1>a, <2>1, <2>2 DEF SrvTypeOK
  <1>7. CASE SrvInsert(s)
    <2>1. srvPc[s] # "recv"
      BY <1>7 DEF SrvInsert, Listing
    <2>. DEFINE k == Current(s).key
    <2>2. k \in Keys /\ Index[k] \in Entries
      BY <2>1, CurrentType
    <2>3. md_entry_insert(in_charge_md[s][Index[k]], k) \in Seq(Keys)
      BY <1>0, <2>2, InsertType DEF SrvTypeOK
    <2>4. in_charge_md' = [in_charge_md EXCEPT
             ![s][Index[k]] = md_entry_insert(in_charge_md[s][Index[k]], k)]
      BY <1>7, <1>0, <2>2 DEF SrvInsert, SrvTypeOK
    <2>5. in_charge_md' \in [Servers -> [Entries -> Seq(Keys)]]
      BY <1>0, <2>2, <2>3, <2>4, ListType
    <2>6. UNCHANGED <<table, store, up>> /\ Finish(s, "done", None)
      BY <1>7 DEF SrvInsert
    <2>. QED
      BY <1>0, <1>a, <2>5, <2>6 DEF SrvTypeOK
  <1>8. CASE SrvUnlink(s)
    <2>1. srvPc[s] # "recv"
      BY <1>8 DEF SrvUnlink, Listing
    <2>. DEFINE k == Current(s).key
                list == in_charge_md[s][Index[k]]
    <2>2. k \in Keys /\ Index[k] \in Entries
      BY <2>1, CurrentType
    <2>3. in_charge_md' \in [Servers -> [Entries -> Seq(Keys)]]
      <3>1. CASE InList(list, k)
        <4>1. md_entry_search_md_name(list, k) \in Seq(Keys)
          BY <1>0, <2>2, <3>1, SearchType DEF SrvTypeOK
        <4>2. in_charge_md' = [in_charge_md EXCEPT
                 ![s][Index[k]] = md_entry_search_md_name(list, k)]
          BY <1>8, <1>0, <2>2, <3>1 DEF SrvUnlink, SrvTypeOK
        <4>. QED
          BY <1>0, <2>2, <4>1, <4>2, ListType
      <3>2. CASE ~InList(list, k)
        BY <1>0, <1>8, <3>2 DEF SrvUnlink, SrvTypeOK
      <3>. QED
        BY <3>1, <3>2
    <2>4. UNCHANGED <<table, store, up>> /\ (\E flag, val : Finish(s, flag, val))
      BY <1>8 DEF SrvUnlink
    <2>. QED
      BY <1>0, <1>a, <2>3, <2>4 DEF SrvTypeOK
  <1>. QED
    BY <1>1, <1>2, <1>3, <1>4, <1>5, <1>6, <1>7, <1>8 DEF MainNext

-----------------------------------------------------------------------------
(* The updater reads a table that was published. *)
LEMMA UpdaterTypes ==
  ASSUME TypeOK, TablesOK, NEW s \in Servers, UpdaterNext(s)
  PROVE  ChannelsTypeOK' /\ SrvTypeOK' /\ ThrTypeOK'
  <1>. USE SizesAssumption
  <1>0. ChannelsTypeOK /\ SrvTypeOK /\ ThrTypeOK
    BY DEF TypeOK
  <1>1. CASE UpdReceive(s)
    <2>1. UNCHANGED <<clientChannel, mgrChannel, xfer, hostChannel, srvVars, sndVars, rcvVars>>
      BY <1>1 DEF UpdReceive, Elsewhere, hostChannel
    <2>2. /\ seen' \in [Servers -> Nat] /\ scan' \in [Servers -> 0 .. NEntry]
          /\ to_send' \in [Servers -> SUBSET Entries]
          /\ to_receive' \in [Servers -> Nat]
          /\ updPc' \in [Servers -> {"wait", "scan", "join"}]
      BY <1>0, <1>1 DEF UpdReceive, ThrTypeOK
    <2>3. ChannelsTypeOK'
      BY <1>0, <2>1 DEF ChannelsTypeOK, clientChannel, mgrChannel, hostChannel
    <2>4. SrvTypeOK'
      BY <1>0, <2>1 DEF SrvTypeOK, srvVars
    <2>5. ThrTypeOK'
      BY <1>0, <2>1, <2>2 DEF ThrTypeOK, sndVars, rcvVars
    <2>. QED
      BY <2>3, <2>4, <2>5
  <1>2. CASE UpdCompare(s)
    <2>. DEFINE i == scan[s]
                old == table[s][i]
                new == mlts[seen[s]][i]
    <2>1. i \in Entries
      BY <1>0, <1>2 DEF UpdCompare, ThrTypeOK, Entries
    <2>2. old \in MltLine
      BY <1>0, <2>1 DEF SrvTypeOK
    <2>3. new \in Assignment
      BY <1>0, <2>1 DEF TablesOK, ChannelsTypeOK
    <2>4. table' \in [Servers -> [Entries -> MltLine]]
      <3>1. CASE old.n_ver # new.n_ver
        <4>. DEFINE line == mlt_update_entry(table[s], i, new.id_srv, new.n_ver,
                                             StateAfter(s, old.id_srv, new.id_srv))
        <4>1. StateAfter(s, old.id_srv, new.id_srv) \in {0, 1}
          BY DEF StateAfter
        <4>2. new.id_srv \in Servers /\ new.n_ver \in Nat
          BY <2>3 DEF Assignment
        <4>3. table[s] \in [Entries -> MltLine]
          BY <1>0 DEF SrvTypeOK
        <4>4. line \in [Entries -> MltLine]
          BY <2>1, <4>1, <4>2, <4>3, UpdateEntryType
        <4>5. table' = [table EXCEPT ![s] = line]
          BY <1>0, <1>2, <3>1 DEF UpdCompare, SrvTypeOK
        <4>. QED
          BY <1>0, <4>4, <4>5 DEF SrvTypeOK
      <3>2. CASE old.n_ver = new.n_ver
        BY <1>0, <1>2, <3>2 DEF UpdCompare, SrvTypeOK
      <3>. QED
        BY <3>1, <3>2
    <2>5. scan' \in [Servers -> 0 .. NEntry]
      BY <1>0, <1>2 DEF UpdCompare, ThrTypeOK
    <2>6. to_send' \in [Servers -> SUBSET Entries] /\ to_receive' \in [Servers -> Nat]
      <3>1. to_send' = to_send \/ to_send' = [to_send EXCEPT ![s] = @ \cup {i}]
        BY <1>2, Zenon DEF UpdCompare
      <3>2. to_receive' = to_receive \/ to_receive' = [to_receive EXCEPT ![s] = @ + 1]
        BY <1>2, Zenon DEF UpdCompare
      <3>3. to_send \in [Servers -> SUBSET Entries] /\ to_receive \in [Servers -> Nat]
        BY <1>0 DEF ThrTypeOK
      <3>. HIDE DEF i
      <3>4. to_send' \in [Servers -> SUBSET Entries]
        BY <2>1, <3>1, <3>3
      <3>5. to_receive' \in [Servers -> Nat]
        BY <3>2, <3>3
      <3>. QED
        BY <3>4, <3>5
    <2>7. UNCHANGED <<clientChannel, mgrChannel, xfer, hostChannel, sndVars, rcvVars,
                      store, in_charge_md, up, srvPc, serving, seen, updPc>>
      BY <1>2 DEF UpdCompare, Elsewhere, hostChannel, mainVars
    <2>8. ChannelsTypeOK'
      BY <1>0, <2>7 DEF ChannelsTypeOK, clientChannel, mgrChannel, hostChannel
    <2>9. SrvTypeOK'
      BY <1>0, <2>4, <2>7 DEF SrvTypeOK
    <2>10. ThrTypeOK'
      BY <1>0, <2>5, <2>6, <2>7 DEF ThrTypeOK, sndVars, rcvVars
    <2>. QED
      BY <2>8, <2>9, <2>10
  <1>3. CASE UpdSpawn(s)
    <2>1. /\ sndPc' \in [Servers -> SndPcs] /\ rcvPc' \in [Servers -> RcvPcs]
          /\ updPc' \in [Servers -> {"wait", "scan", "join"}]
      BY <1>0, <1>3 DEF UpdSpawn, ThrTypeOK, SndPcs, RcvPcs
    <2>2. UNCHANGED <<clientChannel, mgrChannel, xfer, hostChannel, srvVars, seen, scan,
                      to_send, to_receive, sndEntry, sndPtr, sndNames, rcvFrom, rcvEntry,
                      rcvNames>>
      BY <1>3 DEF UpdSpawn, Elsewhere, hostChannel
    <2>3. ChannelsTypeOK'
      BY <1>0, <2>2 DEF ChannelsTypeOK, clientChannel, mgrChannel, hostChannel
    <2>4. SrvTypeOK'
      BY <1>0, <2>2 DEF SrvTypeOK, srvVars
    <2>5. ThrTypeOK'
      BY <1>0, <2>1, <2>2 DEF ThrTypeOK
    <2>. QED
      BY <2>3, <2>4, <2>5
  <1>4. CASE UpdJoin(s)
    <2>1. /\ acks' \in [Servers -> SUBSET {"USR-0", "USR-1"}]
          /\ updPc' \in [Servers -> {"wait", "scan", "join"}]
      BY <1>0, <1>4 DEF UpdJoin, ThrTypeOK, ChannelsTypeOK
    <2>2. UNCHANGED <<clientChannel, mgrChannel, xfer, pending, srvVars, seen, scan,
                      to_send, to_receive, sndVars, rcvVars>>
      BY <1>4 DEF UpdJoin, Elsewhere
    <2>3. ChannelsTypeOK'
      BY <1>0, <2>1, <2>2 DEF ChannelsTypeOK, clientChannel, mgrChannel
    <2>4. SrvTypeOK'
      BY <1>0, <2>2 DEF SrvTypeOK, srvVars
    <2>5. ThrTypeOK'
      BY <1>0, <2>1, <2>2 DEF ThrTypeOK, sndVars, rcvVars
    <2>. QED
      BY <2>3, <2>4, <2>5
  <1>. QED
    BY <1>1, <1>2, <1>3, <1>4 DEF UpdaterNext

-----------------------------------------------------------------------------
(* A sender changes the list, the file and the packet of one entry. *)
LEMMA SenderTypes ==
  ASSUME TypeOK, ThreadsOK, NEW s \in Servers, SenderNext(s)
  PROVE  ChannelsTypeOK' /\ SrvTypeOK' /\ ThrTypeOK'
  <1>0. ChannelsTypeOK /\ SrvTypeOK /\ ThrTypeOK
    BY DEF TypeOK
  <1>. DEFINE SndType == /\ sndPc \in [Servers -> SndPcs]
                         /\ sndEntry \in [Servers -> Entries]
                         /\ sndPtr \in [Servers -> Keys \cup {None}]
                         /\ sndNames \in [Servers -> Seq(Keys)]
                         /\ to_send \in [Servers -> SUBSET Entries]
  <1>a. ASSUME NEW pc \in SndPcs, SndGoto(s, pc)
        PROVE  sndPc' \in [Servers -> SndPcs]
    BY <1>0, <1>a DEF SndGoto, ThrTypeOK
  <1>b. ASSUME UNCHANGED <<updVars, to_receive, rcvVars>>, SndType' PROVE ThrTypeOK'
    BY <1>0, <1>b DEF ThrTypeOK, updVars, rcvVars
  <1>c. ASSUME UNCHANGED <<clientChannel, mgrChannel, pending, acks>>,
               xfer' \in [Servers -> Packet \cup {None}]
        PROVE  ChannelsTypeOK'
    BY <1>0, <1>c DEF ChannelsTypeOK, clientChannel, mgrChannel
  <1>d. xfer \in [Servers -> Packet \cup {None}] /\ SndType
    BY <1>0 DEF ChannelsTypeOK, ThrTypeOK
  <1>1. CASE SndNext(s)
    <2>1. UNCHANGED <<srvVars, xfer, updVars, to_receive, rcvVars, acks, clientChannel,
                      mgrChannel, pending, to_send, sndPtr, sndNames>>
      BY <1>1 DEF SndNext, Elsewhere
    <2>2. sndEntry' \in [Servers -> Entries] /\ sndPc' \in [Servers -> SndPcs]
      <3>1. sndPc' \in [Servers -> SndPcs]
        BY <1>a, <1>1 DEF SndNext, SndPcs
      <3>2. sndEntry' = sndEntry \/ \E e \in to_send[s] : sndEntry' = [sndEntry EXCEPT ![s] = e]
        BY <1>1 DEF SndNext, NextToSend
      <3>3. sndEntry' \in [Servers -> Entries]
        BY <1>d, <3>2
      <3>. QED
        BY <3>1, <3>3
    <2>3. SrvTypeOK'
      BY <1>0, <2>1 DEF SrvTypeOK, srvVars
    <2>. QED
      BY <1>b, <1>c, <1>d, <2>1, <2>2, <2>3
  <1>2. CASE SndCheck(s)
    <2>1. UNCHANGED <<srvVars, xfer, updVars, to_receive, rcvVars, acks, clientChannel,
                      mgrChannel, pending, to_send, sndEntry, sndPtr, sndNames>>
      BY <1>2 DEF SndCheck, Elsewhere
    <2>2. sndPc' \in [Servers -> SndPcs]
      BY <1>a, <1>2 DEF SndCheck, SndPcs
    <2>3. SrvTypeOK'
      BY <1>0, <2>1 DEF SrvTypeOK, srvVars
    <2>. QED
      BY <1>b, <1>c, <1>d, <2>1, <2>2, <2>3
  <1>3. CASE SndPop(s)
    <2>. DEFINE e == sndEntry[s]
                list == in_charge_md[s][e]
    <2>1. e \in Entries /\ list \in Seq(Keys)
      BY <1>0 DEF ThrTypeOK, SrvTypeOK
    <2>2. CASE list # << >>
      <3>1. Head(list) \in Keys /\ Tail(list) \in Seq(Keys)
        BY <2>1, <2>2, HeadTailProperties
      <3>2. in_charge_md' = [in_charge_md EXCEPT ![s][e] = Tail(list)]
        BY <1>0, <1>3, <2>1, <2>2 DEF SndPop, SrvTypeOK
      <3>3. in_charge_md' \in [Servers -> [Entries -> Seq(Keys)]]
        BY <1>0, <2>1, <3>1, <3>2, ListType
      <3>4. sndPtr' \in [Servers -> Keys \cup {None}]
        BY <1>0, <1>3, <2>2, <3>1 DEF SndPop, ThrTypeOK
      <3>5. sndPc' \in [Servers -> SndPcs]
        BY <1>a, <1>3, <2>2 DEF SndPop, SndPcs
      <3>6. up' = up
        BY <1>3, <2>2 DEF SndPop
      <3>7. UNCHANGED <<table, store, mainVars, updVars, to_receive, rcvVars, acks,
                        clientChannel, mgrChannel, pending, xfer, to_send, sndEntry,
                        sndNames>>
        BY <1>3 DEF SndPop, SndElsewhere, Elsewhere
      <3>8. SrvTypeOK'
        BY <1>0, <3>3, <3>6, <3>7 DEF SrvTypeOK, mainVars
      <3>. QED
        BY <1>b, <1>c, <1>d, <3>4, <3>5, <3>7, <3>8
    <2>3. CASE list = << >>
      <3>1. up' \in SUBSET Servers /\ UNCHANGED <<in_charge_md, sndPtr, sndPc>>
        BY <1>0, <1>3, <2>3 DEF SndPop, SrvTypeOK
      <3>. QED
        BY <1>0, <1>b, <1>c, <1>d, <1>3, <3>1
           DEF SndPop, SndElsewhere, Elsewhere, SrvTypeOK, mainVars
    <2>. QED
      BY <2>2, <2>3
  <1>4. CASE SndDel(s)
    <2>1. sndPtr[s] \in Keys
      BY <1>4 DEF ThreadsOK, SndDel, SndAt
    <2>2. store' \in [Servers -> [Keys -> File]]
      BY <1>0, <1>4, <2>1, FileType DEF SndDel, SrvTypeOK, File
    <2>3. sndNames' \in [Servers -> Seq(Keys)]
      <3>1. Append(sndNames[s], sndPtr[s]) \in Seq(Keys)
        BY <1>d, <2>1, AppendProperties
      <3>2. sndNames' = sndNames
              \/ sndNames' = [sndNames EXCEPT ![s] = Append(sndNames[s], sndPtr[s])]
        BY <1>4, Zenon DEF SndDel
      <3>. QED
        BY <1>d, <3>1, <3>2
    <2>4. sndPtr' \in [Servers -> Keys \cup {None}] /\ sndPc' \in [Servers -> SndPcs]
      <3>1. sndPc' \in [Servers -> SndPcs]
        BY <1>a, <1>4 DEF SndDel, SndPcs
      <3>2. sndPtr' = [sndPtr EXCEPT ![s] = None]
        BY <1>4 DEF SndDel
      <3>. QED
        BY <1>d, <3>1, <3>2
    <2>5. UNCHANGED <<table, in_charge_md, up, mainVars, updVars, to_receive, rcvVars,
                      acks, clientChannel, mgrChannel, pending, xfer, to_send, sndEntry>>
      BY <1>4 DEF SndDel, SndElsewhere, Elsewhere
    <2>6. SrvTypeOK'
      BY <1>0, <2>2, <2>5 DEF SrvTypeOK, mainVars
    <2>. QED
      BY <1>b, <1>c, <1>d, <2>3, <2>4, <2>5, <2>6
  <1>5. CASE SndSend(s)
    <2>. DEFINE p == [status |-> "sent", to |-> table[s][sndEntry[s]].id_srv,
                      entry |-> sndEntry[s], names |-> sndNames[s]]
    <2>1. table[s][sndEntry[s]].id_srv \in Servers /\ sndEntry[s] \in Entries
            /\ sndNames[s] \in Seq(Keys)
      BY <1>0 DEF SrvTypeOK, ThrTypeOK, MltLine
    <2>2. p \in Packet
      BY <2>1 DEF Packet
    <2>3. xfer' = [xfer EXCEPT ![s] = p]
      BY <1>5 DEF SndSend
    <2>4. xfer' \in [Servers -> Packet \cup {None}]
      BY <1>d, <2>2, <2>3
    <2>5. sndNames' \in [Servers -> Seq(Keys)] /\ sndPc' \in [Servers -> SndPcs]
      BY <1>d, <1>a, <1>5, EmptySeq DEF SndSend, SndPcs
    <2>6. UNCHANGED <<srvVars, updVars, to_receive, rcvVars, acks, clientChannel,
                      mgrChannel, pending, to_send, sndEntry, sndPtr>>
      BY <1>5 DEF SndSend, SndElsewhere, Elsewhere, sharedVars, mainVars, srvVars
    <2>7. SrvTypeOK'
      BY <1>0, <2>6 DEF SrvTypeOK, srvVars
    <2>. QED
      BY <1>b, <1>c, <1>d, <2>4, <2>5, <2>6, <2>7
  <1>6. CASE SndMark(s)
    <2>1. sndEntry[s] \in Entries /\ table[s] \in [Entries -> MltLine]
      BY <1>0 DEF SrvTypeOK, ThrTypeOK
    <2>2. mlt_update_state(table[s], sndEntry[s], 0) \in [Entries -> MltLine]
      BY <2>1, UpdateStateType
    <2>3. table' \in [Servers -> [Entries -> MltLine]]
      BY <1>0, <1>6, <2>2 DEF SndMark, SrvTypeOK
    <2>4. sndPc' \in [Servers -> SndPcs]
      BY <1>a, <1>6 DEF SndMark, SndPcs
    <2>5. UNCHANGED <<store, in_charge_md, up, mainVars, updVars, to_receive, rcvVars,
                      acks, clientChannel, mgrChannel, pending, xfer, to_send, sndEntry,
                      sndPtr, sndNames>>
      BY <1>6 DEF SndMark, SndElsewhere, Elsewhere
    <2>6. SrvTypeOK'
      BY <1>0, <2>3, <2>5 DEF SrvTypeOK, mainVars
    <2>. QED
      BY <1>b, <1>c, <1>d, <2>4, <2>5, <2>6
  <1>7. CASE SndAck(s)
    <2>1. xfer' \in [Servers -> Packet \cup {None}]
            /\ to_send' \in [Servers -> SUBSET Entries]
      BY <1>d, <1>7 DEF SndAck
    <2>2. sndPc' \in [Servers -> SndPcs]
      BY <1>a, <1>7 DEF SndAck, SndPcs
    <2>3. UNCHANGED <<srvVars, updVars, to_receive, rcvVars, acks, clientChannel,
                      mgrChannel, pending, sndEntry, sndPtr, sndNames>>
      BY <1>7 DEF SndAck, SndElsewhere, Elsewhere, sharedVars, mainVars, srvVars
    <2>4. SrvTypeOK'
      BY <1>0, <2>3 DEF SrvTypeOK, srvVars
    <2>. QED
      BY <1>b, <1>c, <1>d, <2>1, <2>2, <2>3, <2>4
  <1>. QED
    BY <1>1, <1>2, <1>3, <1>4, <1>5, <1>6, <1>7 DEF SenderNext

-----------------------------------------------------------------------------
(* A receiver takes the names of a packet one by one. *)
LEMMA ReceiverTypes ==
  ASSUME TypeOK, ThreadsOK, NEW s \in Servers, ReceiverNext(s)
  PROVE  ChannelsTypeOK' /\ SrvTypeOK' /\ ThrTypeOK'
  <1>0. ChannelsTypeOK /\ SrvTypeOK /\ ThrTypeOK
    BY DEF TypeOK
  <1>. DEFINE RcvType == /\ rcvFrom \in [Servers -> Servers]
                         /\ rcvEntry \in [Servers -> Entries]
                         /\ rcvNames \in [Servers -> Seq(Keys)]
                         /\ to_receive \in [Servers -> Nat]
  <1>a. ASSUME NEW pc \in RcvPcs, RcvGoto(s, pc)
        PROVE  rcvPc' \in [Servers -> RcvPcs]
    BY <1>0, <1>a DEF RcvGoto, ThrTypeOK
  <1>b. ASSUME UNCHANGED <<updVars, to_send, sndVars>>, RcvType',
               rcvPc' \in [Servers -> RcvPcs]
        PROVE  ThrTypeOK'
    BY <1>0, <1>b DEF ThrTypeOK, updVars, sndVars
  <1>c. ASSUME UNCHANGED <<clientChannel, mgrChannel, pending, acks>>,
               xfer' \in [Servers -> Packet \cup {None}]
        PROVE  ChannelsTypeOK'
    BY <1>0, <1>c DEF ChannelsTypeOK, clientChannel, mgrChannel
  <1>d. xfer \in [Servers -> Packet \cup {None}] /\ RcvType
    BY <1>0 DEF ChannelsTypeOK, ThrTypeOK
  <1>e. ASSUME RcvElsewhere' = RcvElsewhere
        PROVE  UNCHANGED <<updVars, to_send, sndVars, mainVars, up, acks, clientChannel,
                           mgrChannel, pending>>
    BY <1>e DEF RcvElsewhere, Elsewhere
  <1>1. CASE RcvFinished(s)
    <2>1. rcvPc' \in [Servers -> RcvPcs]
      BY <1>a, <1>1 DEF RcvFinished, RcvPcs
    <2>2. UNCHANGED <<sharedVars, to_receive, rcvFrom, rcvEntry, rcvNames, xfer, RcvElsewhere>>
      BY <1>1 DEF RcvFinished
    <2>3. SrvTypeOK'
      BY <1>0, <1>e, <2>2 DEF SrvTypeOK, sharedVars, mainVars
    <2>. QED
      BY <1>b, <1>c, <1>d, <1>e, <2>1, <2>2, <2>3
  <1>2. ASSUME NEW from \in Servers, RcvReceive(s, from)
        PROVE  ChannelsTypeOK' /\ SrvTypeOK' /\ ThrTypeOK'
    <2>1. rcvPc' \in [Servers -> RcvPcs]
      BY <1>a, <1>2 DEF RcvReceive, RcvPcs
    <2>2. UNCHANGED <<sharedVars, to_receive, RcvElsewhere>>
      BY <1>2 DEF RcvReceive
    <2>3. SrvTypeOK'
      BY <1>0, <1>e, <2>2 DEF SrvTypeOK, sharedVars, mainVars
    <2>4. xfer[from] \in Packet
      BY <1>d, <1>2 DEF RcvReceive
    <2>5. /\ xfer[from].entry \in Entries /\ xfer[from].names \in Seq(Keys)
          /\ xfer[from].to \in Servers
      BY <2>4 DEF Packet
    <2>6. /\ rcvFrom' \in [Servers -> Servers]
          /\ rcvEntry' \in [Servers -> Entries]
          /\ rcvNames' \in [Servers -> Seq(Keys)]
      BY <1>d, <1>2, <2>5 DEF RcvReceive
    <2>7. xfer' \in [Servers -> Packet \cup {None}]
      <3>. DEFINE p == [xfer[from] EXCEPT !.status = "taken", !.names = << >>]
      <3>1. p \in Packet
        BY <2>4, EmptySeq DEF Packet
      <3>2. xfer' = [xfer EXCEPT ![from] = p]
        BY <1>d, <1>2 DEF RcvReceive
      <3>. QED
        BY <1>d, <3>1, <3>2
    <2>. QED
      BY <1>b, <1>c, <1>d, <1>e, <2>1, <2>2, <2>3, <2>6, <2>7
  <1>3. CASE RcvInsert(s)
    <2>. DEFINE e == rcvEntry[s]
                names == rcvNames[s]
                list == in_charge_md[s][e]
    <2>1. e \in Entries /\ names \in Seq(Keys) /\ list \in Seq(Keys)
      BY <1>0 DEF ThrTypeOK, SrvTypeOK
    <2>2. rcvPc' \in [Servers -> RcvPcs]
      BY <1>a, <1>3 DEF RcvInsert, RcvPcs
    <2>3. in_charge_md' \in [Servers -> [Entries -> Seq(Keys)]]
      <3>1. CASE names # << >>
        <4>1. Head(names) \in Keys
          BY <2>1, <3>1, HeadTailProperties
        <4>2. md_entry_insert(list, Head(names)) \in Seq(Keys)
          BY <2>1, <4>1, InsertType
        <4>3. in_charge_md' = [in_charge_md EXCEPT
                 ![s][e] = md_entry_insert(list, Head(names))]
          BY <1>0, <1>3, <2>1, <3>1 DEF RcvInsert, SrvTypeOK
        <4>. QED
          BY <1>0, <2>1, <4>2, <4>3, ListType
      <3>2. CASE names = << >>
        BY <1>0, <1>3, <3>2 DEF RcvInsert, SrvTypeOK
      <3>. QED
        BY <3>1, <3>2
    <2>4. UNCHANGED <<table, store, to_receive, rcvFrom, rcvEntry, rcvNames, xfer,
                      RcvElsewhere>>
      BY <1>3 DEF RcvInsert
    <2>5. SrvTypeOK'
      BY <1>0, <1>e, <2>3, <2>4 DEF SrvTypeOK, mainVars
    <2>. QED
      BY <1>b, <1>c, <1>d, <1>e, <2>2, <2>4, <2>5
  <1>4. CASE RcvPut(s)
    <2>. DEFINE e == rcvEntry[s]
                list == in_charge_md[s][e]
    <2>1. e \in Entries /\ list \in Seq(Keys) /\ rcvNames[s] \in Seq(Keys)
      BY <1>0 DEF ThrTypeOK, SrvTypeOK
    <2>2. rcvPc' \in [Servers -> RcvPcs]
      BY <1>a, <1>4 DEF RcvPut, RcvPcs
    <2>3. Head(list) \in Keys
      BY <1>4, <2>1, HeadTailProperties DEF RcvPut
    <2>4. store' \in [Servers -> [Keys -> File]]
      BY <1>0, <1>4, <2>3, FileType, DataAssumption DEF RcvPut, SrvTypeOK, File
    <2>5. Tail(rcvNames[s]) \in Seq(Keys)
      <3>1. rcvNames[s] # << >>
        BY <1>4 DEF ThreadsOK, RcvPut, RcvAt
      <3>. QED
        BY <2>1, <3>1, HeadTailProperties
    <2>6. rcvNames' \in [Servers -> Seq(Keys)]
      BY <1>d, <1>4, <2>5 DEF RcvPut
    <2>7. UNCHANGED <<table, in_charge_md, to_receive, rcvFrom, rcvEntry, xfer, RcvElsewhere>>
      BY <1>4 DEF RcvPut
    <2>8. SrvTypeOK'
      BY <1>0, <1>e, <2>4, <2>7 DEF SrvTypeOK, mainVars
    <2>. QED
      BY <1>b, <1>c, <1>d, <1>e, <2>2, <2>6, <2>7, <2>8
  <1>5. CASE RcvState(s)
    <2>1. rcvEntry[s] \in Entries /\ table[s] \in [Entries -> MltLine]
      BY <1>0 DEF SrvTypeOK, ThrTypeOK
    <2>2. mlt_update_state(table[s], rcvEntry[s], 0) \in [Entries -> MltLine]
      BY <2>1, UpdateStateType
    <2>3. table' \in [Servers -> [Entries -> MltLine]]
      BY <1>0, <1>5, <2>2 DEF RcvState, SrvTypeOK
    <2>4. rcvPc' \in [Servers -> RcvPcs]
      BY <1>a, <1>5 DEF RcvState, RcvPcs
    <2>5. UNCHANGED <<store, in_charge_md, to_receive, rcvFrom, rcvEntry, rcvNames, xfer,
                      RcvElsewhere>>
      BY <1>5 DEF RcvState
    <2>6. SrvTypeOK'
      BY <1>0, <1>e, <2>3, <2>5 DEF SrvTypeOK, mainVars
    <2>. QED
      BY <1>b, <1>c, <1>d, <1>e, <2>4, <2>5, <2>6
  <1>6. CASE RcvReply(s)
    <2>1. rcvPc' \in [Servers -> RcvPcs]
      BY <1>a, <1>6 DEF RcvReply, RcvPcs
    <2>2. UNCHANGED <<sharedVars, rcvFrom, rcvEntry, rcvNames, RcvElsewhere>>
      BY <1>6 DEF RcvReply
    <2>3. SrvTypeOK'
      BY <1>0, <1>e, <2>2 DEF SrvTypeOK, sharedVars, mainVars
    <2>4. /\ rcvFrom[s] \in Servers /\ xfer[rcvFrom[s]] # None /\ to_receive[s] > 0
          /\ to_receive' = [to_receive EXCEPT ![s] = @ - 1]
      BY <1>d, <1>6 DEF ThreadsOK, RcvReply, RcvAt
    <2>5. to_receive' \in [Servers -> Nat]
      BY <1>d, <2>4
    <2>6. xfer' \in [Servers -> Packet \cup {None}]
      <3>. DEFINE p == [xfer[rcvFrom[s]] EXCEPT !.status = "done"]
      <3>1. p \in Packet
        BY <1>d, <2>4 DEF Packet
      <3>2. xfer' = [xfer EXCEPT ![rcvFrom[s]] = p]
        BY <1>d, <1>6, <2>4 DEF RcvReply
      <3>. QED
        BY <1>d, <3>1, <3>2
    <2>. QED
      BY <1>b, <1>c, <1>d, <1>e, <2>1, <2>2, <2>3, <2>5, <2>6
  <1>. QED
    BY <1>1, <1>2, <1>3, <1>4, <1>5, <1>6 DEF ReceiverNext

-----------------------------------------------------------------------------
(* The manager, the signal handlers, the clients and the launcher *)

(* Giving an entry to a server (manager_calculate_relab) gives an assignment. *)
LEMMA ReassignType ==
  ASSUME NEW line \in Assignment, NEW srv \in Servers
  PROVE  Reassign(line, srv) \in Assignment
  BY DEF Reassign, Assignment

(* A step of the manager's loop keeps the types of its state and its sockets. *)
LEMMA ManagerTypes ==
  ASSUME TypeOK, MgrStep
  PROVE  ChannelsTypeOK' /\ MgrTypeOK'
  <1>. USE SizesAssumption
  <1>0. ChannelsTypeOK /\ MgrTypeOK
    BY DEF TypeOK
  <1>1. UNCHANGED <<clientChannel, xfer, hostChannel>>
    BY DEF MgrStep
  <1>a. ASSUME pull' \in Nat, mlts' = mlts
        PROVE  ChannelsTypeOK'
    BY <1>0, <1>1, <1>a DEF ChannelsTypeOK, clientChannel, hostChannel
  <1>b. ASSUME update_needed' \in BOOLEAN, nb_rcv' \in 0 .. NbSrv,
               mgrTable' \in [Entries -> Assignment],
               mgrPc' \in {"sleep", "gather", "relab", "send", "reset"}
        PROVE  MgrTypeOK'
    BY <1>b, Zenon DEF MgrTypeOK
  <1>c. /\ update_needed \in BOOLEAN /\ nb_rcv \in 0 .. NbSrv
        /\ mgrTable \in [Entries -> Assignment]
        /\ mgrPc \in {"sleep", "gather", "relab", "send", "reset"}
    BY <1>0, Zenon DEF MgrTypeOK
  <1>d. pull \in Nat
    BY <1>0 DEF ChannelsTypeOK
  <1>2. CASE MgrWake
    <2>1. mgrPc' \in {"sleep", "gather", "relab", "send", "reset"}
      BY <1>2 DEF MgrWake
    <2>2. UNCHANGED <<update_needed, nb_rcv, mgrTable, pull, mlts>>
      BY <1>2 DEF MgrWake, mgrChannel
    <2>. QED
      BY <1>a, <1>b, <1>c, <1>d, <2>1, <2>2, Zenon
  <1>3. CASE MgrGather
    <2>1. pull' \in Nat /\ nb_rcv' \in 0 .. NbSrv
      BY <1>c, <1>d, <1>3 DEF MgrGather
    <2>2. UNCHANGED <<update_needed, mgrPc, mgrTable, mlts>>
      BY <1>3 DEF MgrGather
    <2>. QED
      BY <1>a, <1>b, <1>c, <2>1, <2>2, Zenon
  <1>4. CASE MgrGathered
    <2>1. nb_rcv' \in 0 .. NbSrv /\ mgrPc' \in {"sleep", "gather", "relab", "send", "reset"}
      BY <1>4 DEF MgrGathered
    <2>2. UNCHANGED <<update_needed, mgrTable, pull, mlts>>
      BY <1>4 DEF MgrGathered, mgrChannel
    <2>. QED
      BY <1>a, <1>b, <1>c, <1>d, <2>1, <2>2, Zenon
  <1>5. CASE MgrRelab
    <2>1. PICK new \in [Entries -> Servers] :
             mgrTable' = [e \in Entries |-> Reassign(mgrTable[e], new[e])]
      BY <1>5 DEF MgrRelab, Relab, RelabMany
    <2>2. mgrTable' \in [Entries -> Assignment]
      BY <1>c, <2>1, ReassignType
    <2>3. mgrPc' \in {"sleep", "gather", "relab", "send", "reset"}
      BY <1>5 DEF MgrRelab
    <2>4. UNCHANGED <<update_needed, nb_rcv, pull, mlts>>
      BY <1>5 DEF MgrRelab, mgrChannel
    <2>. QED
      BY <1>a, <1>b, <1>c, <1>d, <2>2, <2>3, <2>4, Zenon
  <1>6. CASE MgrSend
    <2>1. mlts' \in Seq([Entries -> Assignment]) /\ Len(mlts') >= 1
      BY <1>0, <1>c, <1>6, AppendProperties DEF MgrSend, ChannelsTypeOK
    <2>2. mgrPc' \in {"sleep", "gather", "relab", "send", "reset"}
      BY <1>6 DEF MgrSend
    <2>3. UNCHANGED <<update_needed, nb_rcv, mgrTable, pull>>
      BY <1>6 DEF MgrSend
    <2>4. ChannelsTypeOK'
      BY <1>0, <1>1, <2>1, <2>3 DEF ChannelsTypeOK, clientChannel, hostChannel
    <2>. QED
      BY <1>b, <1>c, <2>2, <2>3, <2>4, Zenon
  <1>7. CASE MgrReset
    <2>1. mgrPc' \in {"sleep", "gather", "relab", "send", "reset"}
      BY <1>7 DEF MgrReset
    <2>2. update_needed' \in BOOLEAN
      BY <1>7, Zenon DEF MgrReset
    <2>3. UNCHANGED <<nb_rcv, mgrTable, pull, mlts>>
      BY <1>7 DEF MgrReset, mgrChannel
    <2>. QED
      BY <1>a, <1>b, <1>c, <1>d, <2>1, <2>2, <2>3, Zenon
  <1>. QED
    BY <1>2, <1>3, <1>4, <1>5, <1>6, <1>7 DEF MgrStep, MgrNext

(* The signal handlers touch the signals, the acks and the SAI messages only, *)
(* within their types.                                                      *)
LEMMA HandlerTypes ==
  ASSUME TypeOK, NEW s \in Servers, HandlerNext(s)
  PROVE  ChannelsTypeOK' /\ UNCHANGED srvVars
  <1>0. ChannelsTypeOK
    BY DEF TypeOK
  <1>1. CASE usr1_handler(s)
    <2>1. /\ pending' \in [Servers -> {"none", "USR1", "USR2"}]
          /\ acks' \in [Servers -> SUBSET {"USR-0", "USR-1"}]
      BY <1>0, <1>1 DEF usr1_handler, ChannelsTypeOK
    <2>2. UNCHANGED <<srvVars, clientChannel, mgrChannel, xfer>>
      BY <1>1 DEF usr1_handler
    <2>. QED
      BY <1>0, <2>1, <2>2 DEF ChannelsTypeOK, clientChannel, mgrChannel
  <1>2. CASE usr2_handler(s)
    <2>1. pending' \in [Servers -> {"none", "USR1", "USR2"}] /\ pull' \in Nat
      BY <1>0, <1>2 DEF usr2_handler, ChannelsTypeOK
    <2>2. UNCHANGED <<srvVars, clientChannel, mlts, xfer, acks>>
      BY <1>2 DEF usr2_handler
    <2>. QED
      BY <1>0, <2>1, <2>2 DEF ChannelsTypeOK, clientChannel
  <1>. QED
    BY <1>1, <1>2 DEF HandlerNext

(* A client addresses its requests from a table of the servers' type. *)
LEMMA AddressedType ==
  ASSUME NEW t \in [Entries -> Assignment], NEW op \in AllOps, NEW k \in Keys,
         NEW v \in File
  PROVE  Addressed(t, op, k, v) \in Request
  BY DataAssumption DEF Addressed, Request, Assignment

(* A step of client.c keeps the types of the client's table and of its      *)
(* request.                                                                 *)
LEMMA ClientTypes ==
  ASSUME TypeOK, ExchangesOK, NEW c \in Clients, CliStep(c)
  PROVE  ChannelsTypeOK' /\ CliTypeOK'
  <1>. USE DataAssumption
  <1>0. ChannelsTypeOK /\ CliTypeOK
    BY DEF TypeOK
  <1>1. UNCHANGED <<mgrChannel, xfer, hostChannel>>
    BY DEF CliStep
  <1>a. ASSUME net' \in [Clients -> {"idle", "sent", "taken", "replied"}],
               req' \in [Clients -> Request \cup {None}],
               rep' \in [Clients -> Reply \cup {None}]
        PROVE  ChannelsTypeOK'
    BY <1>0, <1>1, <1>a DEF ChannelsTypeOK, mgrChannel, hostChannel
  <1>b. /\ net \in [Clients -> {"idle", "sent", "taken", "replied"}]
        /\ req \in [Clients -> Request \cup {None}]
        /\ rep \in [Clients -> Reply \cup {None}]
    BY <1>0 DEF ChannelsTypeOK
  <1>2. ASSUME NEW op \in Ops, NEW k \in Keys, CliIssue(c, op, k)
        PROVE  ChannelsTypeOK' /\ CliTypeOK'
    <2>1. PICK v \in Contents(op) :
             req' = [req EXCEPT ![c] = Addressed(cTable[c], op, k, v)]
      BY <1>2 DEF CliIssue
    <2>2. v \in File
      BY DEF Contents, File
    <2>3. Addressed(cTable[c], op, k, v) \in Request
      BY <1>0, <2>2, AddressedType DEF CliTypeOK
    <2>4. req' \in [Clients -> Request \cup {None}]
      BY <1>b, <2>1, <2>3
    <2>5. net' \in [Clients -> {"idle", "sent", "taken", "replied"}] /\ rep' = rep
      BY <1>b, <1>2 DEF CliIssue
    <2>6. issued' \in [Clients -> 0 .. MaxReq]
      BY <1>0, <1>2, TraceAssumption DEF CliIssue, CliTypeOK
    <2>7. made' \in SUBSET Keys
      BY <1>0, <1>2 DEF CliIssue, CliTypeOK
    <2>8. UNCHANGED <<cTable, cPc, acked>>
      BY <1>2 DEF CliIssue
    <2>9. CliTypeOK'
      BY <1>0, <2>6, <2>7, <2>8 DEF CliTypeOK
    <2>. QED
      BY <1>a, <1>b, <2>4, <2>5, <2>9
  <1>3. CASE CliReply(c)
    <2>. DEFINE r == req[c]
                e == Index[r.key]
                t == Learn(cTable[c], e, rep[c])
    <2>1. r \in Request /\ rep[c] \in Reply
            /\ (rep[c].flag = "update&retry" => rep[c].new \in Assignment)
      BY <1>3 DEF ExchangesOK, CliReply
    <2>2. /\ r.op \in AllOps /\ r.key \in Keys /\ r.val \in File /\ e \in Entries
      BY <2>1 DEF Request
    <2>3. t \in [Entries -> Assignment]
      BY <1>0, <2>1, <2>2 DEF Learn, CliTypeOK
    <2>4. Addressed(t, r.op, r.key, r.val) \in Request
      BY <2>2, <2>3, AddressedType
    <2>5. /\ cTable' = [cTable EXCEPT ![c] = t]
          /\ \/ req' = [req EXCEPT ![c] = Addressed(t, r.op, r.key, r.val)]
             \/ req' = [req EXCEPT ![c] = None]
      BY <1>3 DEF CliReply
    <2>6. net' \in [Clients -> {"idle", "sent", "taken", "replied"}]
            /\ rep' \in [Clients -> Reply \cup {None}]
      BY <1>b, <1>3 DEF CliReply
    <2>7. req' \in [Clients -> Request \cup {None}]
      BY <1>b, <2>4, <2>5
    <2>8. acked' \in [Keys -> File]
      BY <1>0, <1>3, <2>2 DEF CliReply, Acknowledge, CliTypeOK, File
    <2>9. cTable' \in [Clients -> [Entries -> Assignment]]
      BY <1>0, <2>3, <2>5 DEF CliTypeOK
    <2>10. UNCHANGED <<cPc, issued, made>>
      BY <1>3 DEF CliReply
    <2>11. CliTypeOK'
      BY <1>0, <2>8, <2>9, <2>10 DEF CliTypeOK
    <2>. QED
      BY <1>a, <2>6, <2>7, <2>11
  <1>4. CASE CliExit(c)
    <2>1. UNCHANGED clientChannel
      BY <1>4 DEF CliExit
    <2>2. CliTypeOK'
      BY <1>0, <1>4 DEF CliExit, CliTypeOK
    <2>. QED
      BY <1>a, <1>b, <2>1, <2>2 DEF clientChannel
  <1>. QED
    BY <1>2, <1>3, <1>4 DEF CliStep, CliNext

(* A line of launch_all.sh keeps the types of all it touches.               *)
LEMMA LaunchTypes ==
  ASSUME TypeOK, LaunchNext
  PROVE  ChannelsTypeOK' /\ MgrTypeOK' /\ CliTypeOK' /\ LaunchTypeOK'
  <1>. USE LauncherAssumption
  <1>0. ChannelsTypeOK /\ MgrTypeOK /\ CliTypeOK /\ LaunchTypeOK
    BY DEF TypeOK
  <1>1. ASSUME NEW sig \in Signals, LaunchSignal(sig)
        PROVE  ChannelsTypeOK' /\ MgrTypeOK' /\ CliTypeOK' /\ LaunchTypeOK'
    <2>1. pending' \in [Servers -> {"none", "USR1", "USR2"}]
      BY <1>1 DEF LaunchSignal
    <2>2. UNCHANGED <<clientChannel, mgrChannel, xfer, acks, mgrVars, cliVars>>
      BY <1>1 DEF LaunchSignal
    <2>3. LaunchTypeOK'
      BY <1>0, <1>1 DEF LaunchSignal, LaunchTypeOK
    <2>4. ChannelsTypeOK'
      BY <1>0, <2>1, <2>2 DEF ChannelsTypeOK, clientChannel, mgrChannel
    <2>5. MgrTypeOK'
      BY <1>0, <2>2, Zenon DEF MgrTypeOK, mgrVars
    <2>6. CliTypeOK'
      BY <1>0, <2>2 DEF CliTypeOK, cliVars
    <2>. QED
      BY <2>3, <2>4, <2>5, <2>6
  <1>2. CASE LaunchManager
    <2>1. UNCHANGED <<clientChannel, mgrChannel, xfer, hostChannel, cliVars>>
      BY <1>2 DEF LaunchManager
    <2>2. LaunchTypeOK'
      BY <1>0, <1>2 DEF LaunchManager, LaunchTypeOK
    <2>3. ChannelsTypeOK'
      BY <1>0, <2>1 DEF ChannelsTypeOK, clientChannel, mgrChannel, hostChannel
    <2>4. MgrTypeOK'
      <3>1. update_needed' = TRUE /\ UNCHANGED <<mgrPc, nb_rcv, mgrTable>>
        BY <1>2, Zenon DEF LaunchManager, usrHandler2
      <3>. QED
        BY <1>0, <3>1, Zenon DEF MgrTypeOK
    <2>5. CliTypeOK'
      BY <1>0, <2>1 DEF CliTypeOK, cliVars
    <2>. QED
      BY <2>2, <2>3, <2>4, <2>5
  <1>3. CASE LaunchStep
    <2>1. UNCHANGED <<clientChannel, mgrChannel, xfer, pending, mgrVars>>
      BY <1>3 DEF LaunchStep
    <2>2. LaunchTypeOK'
      BY <1>0, <1>3 DEF LaunchStep, LaunchTypeOK
    <2>3. acks' \in [Servers -> SUBSET {"USR-0", "USR-1"}]
      BY <1>3 DEF LaunchStep
    <2>4. ChannelsTypeOK'
      BY <1>0, <2>1, <2>3 DEF ChannelsTypeOK, clientChannel, mgrChannel
    <2>5. MgrTypeOK'
      BY <1>0, <2>1, Zenon DEF MgrTypeOK, mgrVars
    <2>6. CliTypeOK'
      <3>1. FreshTable \in [Entries -> Assignment]
        BY MltInitType, AssignmentType DEF FreshTable
      <3>2. cTable' \in [Clients -> [Entries -> Assignment]]
              /\ cPc' \in [Clients -> {"running", "exited"}]
        BY <1>0, <1>3, <3>1 DEF LaunchStep, CliRestart, CliTypeOK
      <3>3. UNCHANGED <<issued, made, acked>>
        BY <1>3 DEF LaunchStep, CliRestart
      <3>. QED
        BY <1>0, <3>2, <3>3 DEF CliTypeOK
    <2>. QED
      BY <2>2, <2>4, <2>5, <2>6
  <1>. QED
    BY <1>1, <1>2, <1>3 DEF LaunchNext

-----------------------------------------------------------------------------

(* Type correctness reads nothing but the variables.                        *)
LEMMA StutterTypes ==
  ASSUME TypeOK, UNCHANGED vars
  PROVE  TypeOK'
  <1>0. UNCHANGED <<clientChannel, mgrChannel, xfer, hostChannel, mgrVars, srvVars,
                    thrVars, cliVars, launchVars>>
    BY DEF vars
  <1>1. ChannelsTypeOK'
    BY <1>0 DEF TypeOK, ChannelsTypeOK, clientChannel, mgrChannel, hostChannel
  <1>2. MgrTypeOK'
    BY <1>0, Zenon DEF TypeOK, MgrTypeOK, mgrVars
  <1>3. SrvTypeOK'
    BY <1>0 DEF TypeOK, SrvTypeOK, srvVars
  <1>4. ThrTypeOK'
    BY <1>0 DEF TypeOK, ThrTypeOK, thrVars
  <1>5. CliTypeOK' /\ LaunchTypeOK'
    BY <1>0 DEF TypeOK, CliTypeOK, cliVars, LaunchTypeOK, launchVars
  <1>. QED
    BY <1>1, <1>2, <1>3, <1>4, <1>5 DEF TypeOK

(* Every step of the system keeps the types, given what holds between the   *)
(* processes: no thread reads a request, a packet or a published table that is *)
(* not there.                                                               *)
LEMMA TypeStep ==
  ASSUME TypeOK, ExchangesOK, MainOK, ThreadsOK, TablesOK, Next
  PROVE  TypeOK'
  <1>0. /\ ChannelsTypeOK /\ MgrTypeOK /\ SrvTypeOK /\ ThrTypeOK /\ CliTypeOK
        /\ LaunchTypeOK
    BY DEF TypeOK
  <1>m. ASSUME UNCHANGED mgrVars PROVE MgrTypeOK'
    BY <1>0, <1>m, Zenon DEF MgrTypeOK, mgrVars
  <1>s. ASSUME UNCHANGED srvVars PROVE SrvTypeOK'
    BY <1>0, <1>s DEF SrvTypeOK, srvVars
  <1>t. ASSUME UNCHANGED thrVars PROVE ThrTypeOK'
    BY <1>0, <1>t DEF ThrTypeOK, thrVars
  <1>c. ASSUME UNCHANGED cliVars PROVE CliTypeOK'
    BY <1>0, <1>c DEF CliTypeOK, cliVars
  <1>l. ASSUME UNCHANGED launchVars PROVE LaunchTypeOK'
    BY <1>0, <1>l DEF LaunchTypeOK, launchVars
  <1>1. CASE LaunchNext
    <2>1. UNCHANGED <<srvVars, thrVars>>
      BY <1>1 DEF LaunchNext, LaunchSignal, LaunchManager, LaunchStep
    <2>. QED
      BY <1>1, <1>s, <1>t, <2>1, LaunchTypes DEF TypeOK
  <1>2. CASE MgrStep
    BY <1>2, <1>s, <1>t, <1>c, <1>l, ManagerTypes DEF MgrStep, TypeOK
  <1>3. ASSUME NEW s \in Servers, MainStep(s) PROVE TypeOK'
    BY <1>3, <1>m, <1>t, <1>c, <1>l, MainChannels, MainSrv DEF MainStep, TypeOK
  <1>4. ASSUME NEW s \in Servers, HandlerStep(s) PROVE TypeOK'
    BY <1>4, <1>m, <1>s, <1>t, <1>c, <1>l, HandlerTypes DEF HandlerStep, TypeOK
  <1>5. ASSUME NEW s \in Servers, UpdaterStep(s) PROVE TypeOK'
    BY <1>5, <1>m, <1>c, <1>l, UpdaterTypes DEF UpdaterStep, TypeOK
  <1>6. ASSUME NEW s \in Servers, SenderStep(s) PROVE TypeOK'
    BY <1>6, <1>m, <1>c, <1>l, SenderTypes DEF SenderStep, TypeOK
  <1>7. ASSUME NEW s \in Servers, ReceiverStep(s) PROVE TypeOK'
    BY <1>7, <1>m, <1>c, <1>l, ReceiverTypes DEF ReceiverStep, TypeOK
  <1>8. ASSUME NEW c \in Clients, CliStep(c) PROVE TypeOK'
    BY <1>8, <1>m, <1>s, <1>t, <1>l, ClientTypes DEF CliStep, TypeOK
  <1>9. CASE Finished
    BY <1>9, StutterTypes DEF Finished
  <1>. QED
    BY <1>1, <1>2, <1>3, <1>4, <1>5, <1>6, <1>7, <1>8, <1>9 DEF Next

-----------------------------------------------------------------------------
(* What a step of a main thread does to the exchanges with the clients: it *)
(* answers a request that waits for it, takes one, answers the one it      *)
(* holds, goes on with it, or leaves them alone.                           *)
Redirected(s, c) ==
  /\ Receives(s, c)
  /\ Answer(c, "update&retry", AssignmentOf(LineFor(s, c)), None)
  /\ UNCHANGED mainVars

Waits(s, c) ==
  /\ Receives(s, c)
  /\ Answer(c, "wait&retry", None, None)
  /\ UNCHANGED mainVars

Taken(s, c) ==
  /\ Receives(s, c)
  /\ net' = [net EXCEPT ![c] = "taken"]
  /\ srvPc' = [srvPc EXCEPT ![s] = "store"]
  /\ serving' = [serving EXCEPT ![s] = c]
  /\ UNCHANGED <<req, rep>>

(* Each of the main thread's actions is one of the five cases, and none     *)
(* touches the table, the published tables, the packets or the signals.     *)
LEMMA MainEffect ==
  ASSUME TypeOK, ExchangesOK, MainOK, NEW s \in Servers, MainNext(s)
  PROVE  /\ \/ \E c \in Clients : Redirected(s, c) \/ Waits(s, c) \/ Taken(s, c)
            \/ srvPc[s] # "recv"
                 /\ \E flag \in {"done", "aborted"}, val \in File : Finish(s, flag, val)
            \/ srvPc[s] # "recv" /\ ToList(s)
            \/ UNCHANGED <<clientChannel, mainVars>>
         /\ UNCHANGED <<table, mgrChannel, xfer, hostChannel>>
  <1>0. None \in File
    BY DEF File
  <1>1. ASSUME NEW c \in Clients, SrvWaitRetry(s, c) \/ SrvUpdateRetry(s, c) \/ SrvAccept(s, c)
        PROVE  /\ Redirected(s, c) \/ Waits(s, c) \/ Taken(s, c)
               /\ UNCHANGED <<table, mgrChannel, xfer, hostChannel>>
    BY <1>1 DEF SrvWaitRetry, SrvUpdateRetry, SrvAccept, Redirected, Waits, Taken, srvVars,
                sharedVars, mainVars
  <1>2. CASE SrvPut(s) \/ SrvDelete(s)
    BY <1>0, <1>2 DEF SrvPut, SrvDelete, Processes
  <1>3. CASE SrvUpdate(s)
    BY <1>0, <1>3 DEF SrvUpdate, Processes
  <1>4. CASE SrvGet(s)
    <2>1. srvPc[s] # "recv" /\ UNCHANGED <<table, mgrChannel, xfer, hostChannel>>
      BY <1>4 DEF SrvGet, Processes, sharedVars
    <2>2. store[s][Current(s).key] \in File
      BY <2>1, CurrentType DEF TypeOK, SrvTypeOK
    <2>. QED
      BY <1>4, <2>1, <2>2 DEF SrvGet
  <1>5. CASE SrvInsert(s) \/ SrvUnlink(s)
    BY <1>0, <1>5 DEF SrvInsert, SrvUnlink, Listing
  <1>. QED
    BY <1>1, <1>2, <1>3, <1>4, <1>5 DEF MainNext

-----------------------------------------------------------------------------
(* ExchangesOK *)

(* Answering an open exchange (the zstr_send at the end of the loop of      *)
(* server.c) leaves a request and a well-formed reply in it.                *)
LEMMA AnswerExchanges ==
  ASSUME TypeOK, ExchangesOK, NEW c \in Clients, net[c] # "idle", NEW flag \in Flags,
         NEW new \in Assignment \cup {None}, NEW val \in File, Answer(c, flag, new, val),
         flag = "update&retry" => new \in Assignment
  PROVE  ExchangesOK'
  <1>. SUFFICES ASSUME NEW d \in Clients
                PROVE  /\ net'[d] # "idle" => req'[d] \in Request
                       /\ net'[d] = "replied" =>
                            /\ rep'[d] \in Reply
                            /\ rep'[d].flag = "update&retry" => rep'[d].new \in Assignment
    BY DEF ExchangesOK
  <1>. DEFINE r == [flag |-> flag, new |-> new, val |-> val]
  <1>1. r \in Reply
    BY DEF Reply
  <1>2. req' = req /\ (d # c => net'[d] = net[d] /\ rep'[d] = rep[d])
    BY DEF Answer, TypeOK, ChannelsTypeOK
  <1>3. rep'[c] = r
    BY DEF Answer, TypeOK, ChannelsTypeOK
  <1>4. CASE d = c
    BY <1>1, <1>2, <1>3, <1>4 DEF ExchangesOK
  <1>5. CASE d # c
    BY <1>2, <1>5 DEF ExchangesOK
  <1>. QED
    BY <1>4, <1>5

(* The request loop of server.c keeps every exchange well formed.           *)
LEMMA MainExchanges ==
  ASSUME TypeOK, ExchangesOK, MainOK, NEW s \in Servers, MainNext(s)
  PROVE  ExchangesOK'
  <1>0. None \in File
    BY DEF File
  <1>1. ASSUME NEW c \in Clients, Redirected(s, c) PROVE ExchangesOK'
    <2>1. net[c] # "idle" /\ req[c] \in Request
      BY <1>1 DEF Redirected, Receives, ExchangesOK
    <2>2. LineFor(s, c) \in MltLine
      BY <2>1, DataAssumption DEF LineFor, Request, TypeOK, SrvTypeOK
    <2>3. AssignmentOf(LineFor(s, c)) \in Assignment
      BY <2>2, AssignmentType
    <2>. QED
      BY <1>0, <1>1, <2>1, <2>3, AnswerExchanges DEF Redirected, Flags
  <1>2. ASSUME NEW c \in Clients, Waits(s, c) PROVE ExchangesOK'
    BY <1>0, <1>2, AnswerExchanges DEF Waits, Receives, Flags
  <1>3. ASSUME NEW c \in Clients, Taken(s, c) PROVE ExchangesOK'
    BY <1>3 DEF Taken, Receives, ExchangesOK, TypeOK, ChannelsTypeOK
  <1>4. ASSUME srvPc[s] # "recv", NEW flag \in {"done", "aborted"}, NEW val \in File,
               Finish(s, flag, val)
        PROVE  ExchangesOK'
    <2>1. serving[s] \in Clients /\ net[serving[s]] # "idle"
      BY <1>4 DEF MainOK
    <2>. QED
      BY <1>4, <2>1, AnswerExchanges DEF Finish, Flags
  <1>5. CASE UNCHANGED clientChannel
    BY <1>5 DEF ExchangesOK, clientChannel
  <1>. QED
    BY <1>1, <1>2, <1>3, <1>4, <1>5, MainEffect DEF ToList

(* A client (client_request) keeps every exchange well formed.              *)
LEMMA ClientExchanges ==
  ASSUME TypeOK, ExchangesOK, NEW c \in Clients, CliStep(c)
  PROVE  ExchangesOK'
  <1>0. /\ net \in [Clients -> {"idle", "sent", "taken", "replied"}]
        /\ req \in [Clients -> Request \cup {None}]
        /\ rep \in [Clients -> Reply \cup {None}]
    BY DEF TypeOK, ChannelsTypeOK
  <1>1. ASSUME NEW op \in Ops, NEW k \in Keys, CliIssue(c, op, k) PROVE ExchangesOK'
    <2>1. PICK v \in Contents(op) :
             req' = [req EXCEPT ![c] = Addressed(cTable[c], op, k, v)]
      BY <1>1 DEF CliIssue
    <2>2. Addressed(cTable[c], op, k, v) \in Request
      BY AddressedType, DataAssumption DEF Contents, File, TypeOK, CliTypeOK
    <2>3. net' = [net EXCEPT ![c] = "sent"] /\ rep' = rep
      BY <1>1 DEF CliIssue
    <2>. QED
      BY <1>0, <2>1, <2>2, <2>3 DEF ExchangesOK
  <1>2. CASE CliReply(c)
    <2>. DEFINE r == req[c]
                t == Learn(cTable[c], Index[r.key], rep[c])
    <2>1. r \in Request /\ (rep[c].flag = "update&retry" => rep[c].new \in Assignment)
      BY <1>2 DEF ExchangesOK, CliReply
    <2>2. t \in [Entries -> Assignment]
      BY <2>1, DataAssumption DEF Learn, Request, TypeOK, CliTypeOK
    <2>3. Addressed(t, r.op, r.key, r.val) \in Request
      BY <2>1, <2>2, AddressedType DEF Request
    <2>4. \/ /\ req' = [req EXCEPT ![c] = Addressed(t, r.op, r.key, r.val)]
             /\ net' = [net EXCEPT ![c] = "sent"]
          \/ /\ req' = [req EXCEPT ![c] = None]
             /\ net' = [net EXCEPT ![c] = "idle"]
      BY <1>2 DEF CliReply
    <2>5. rep' = [rep EXCEPT ![c] = None]
      BY <1>2 DEF CliReply
    <2>. HIDE DEF t
    <2>. QED
      BY <1>0, <2>3, <2>4, <2>5 DEF ExchangesOK
  <1>3. CASE CliExit(c)
    BY <1>3 DEF CliExit, ExchangesOK, clientChannel
  <1>. QED
    BY <1>1, <1>2, <1>3 DEF CliStep, CliNext

-----------------------------------------------------------------------------
(* MainOK *)

(* The request loop keeps a taken request to one server: the one it was     *)
(* addressed to.                                                            *)
LEMMA MainMain ==
  ASSUME TypeOK, ExchangesOK, MainOK, NEW s \in Servers, MainNext(s)
  PROVE  MainOK'
  <1>. SUFFICES ASSUME NEW t \in Servers, srvPc'[t] # "recv"
                PROVE  /\ serving'[t] \in Clients
                       /\ net'[serving'[t]] = "taken"
                       /\ req'[serving'[t]].id_srv = t
    BY DEF MainOK
  <1>0. /\ net \in [Clients -> {"idle", "sent", "taken", "replied"}]
        /\ srvPc \in [Servers -> {"recv", "store", "list"}]
        /\ serving \in [Servers -> Clients \cup {None}]
    BY DEF TypeOK, ChannelsTypeOK, SrvTypeOK
  <1>1. ASSUME NEW c \in Clients, Redirected(s, c) \/ Waits(s, c)
        PROVE  /\ serving'[t] \in Clients
               /\ net'[serving'[t]] = "taken"
               /\ req'[serving'[t]].id_srv = t
    BY <1>0, <1>1 DEF Redirected, Waits, Receives, Answer, mainVars, MainOK
  <1>2. ASSUME NEW c \in Clients, Taken(s, c)
        PROVE  /\ serving'[t] \in Clients
               /\ net'[serving'[t]] = "taken"
               /\ req'[serving'[t]].id_srv = t
    BY <1>0, <1>2 DEF Taken, Receives, MainOK
  <1>3. ASSUME srvPc[s] # "recv", NEW flag \in {"done", "aborted"}, NEW val \in File,
               Finish(s, flag, val)
        PROVE  /\ serving'[t] \in Clients
               /\ net'[serving'[t]] = "taken"
               /\ req'[serving'[t]].id_srv = t
    BY <1>0, <1>3 DEF Finish, Answer, MainOK
  <1>4. CASE srvPc[s] # "recv" /\ ToList(s)
    BY <1>0, <1>4 DEF ToList, clientChannel, MainOK
  <1>5. CASE UNCHANGED <<clientChannel, mainVars>>
    BY <1>5 DEF clientChannel, mainVars, MainOK
  <1>. QED
    BY <1>1, <1>2, <1>3, <1>4, <1>5, MainEffect

(* A client cannot disturb the request a server holds: it waits for the reply. *)
LEMMA ClientMain ==
  ASSUME TypeOK, MainOK, NEW c \in Clients, CliStep(c)
  PROVE  MainOK'
  <1>. SUFFICES ASSUME NEW t \in Servers, srvPc'[t] # "recv"
                PROVE  /\ serving'[t] \in Clients
                       /\ net'[serving'[t]] = "taken"
                       /\ req'[serving'[t]].id_srv = t
    BY DEF MainOK
  <1>0. /\ net \in [Clients -> {"idle", "sent", "taken", "replied"}]
        /\ req \in [Clients -> Request \cup {None}]
    BY DEF TypeOK, ChannelsTypeOK
  <1>1. UNCHANGED <<srvPc, serving>>
    BY DEF CliStep, srvVars
  <1>2. serving[t] \in Clients /\ net[serving[t]] = "taken" /\ req[serving[t]].id_srv = t
    BY <1>1 DEF MainOK
  <1>3. \A d \in Clients \ {c} : net'[d] = net[d] /\ req'[d] = req[d]
    BY <1>0 DEF CliStep, CliNext, CliIssue, CliReply, CliExit, clientChannel
  <1>4. net[c] = "taken" => UNCHANGED clientChannel
    BY DEF CliStep, CliNext, CliIssue, CliReply, CliExit
  <1>. QED
    BY <1>1, <1>2, <1>3, <1>4 DEF clientChannel

-----------------------------------------------------------------------------
(* ThreadsOK: the threads of one server are only related to each other and *)
(* to the packets.                                                         *)

(* ThreadsOK reads the transfer threads and the packets only.               *)
LEMMA ThreadsFrame ==
  ASSUME ThreadsOK, UNCHANGED <<thrVars, xfer>>
  PROVE  ThreadsOK'
  BY DEF ThreadsOK, thrVars

(* thread_mlt_updater starts its two threads together and goes on when both *)
(* have ended, so none of them runs outside the join.                       *)
LEMMA UpdaterThreads ==
  ASSUME TypeOK, ThreadsOK, NEW s \in Servers, UpdaterNext(s)
  PROVE  ThreadsOK'
  <1>0. /\ updPc \in [Servers -> {"wait", "scan", "join"}]
        /\ sndPc \in [Servers -> SndPcs] /\ rcvPc \in [Servers -> RcvPcs]
        /\ to_receive \in [Servers -> Nat]
    BY DEF TypeOK, ThrTypeOK
  <1>1. UNCHANGED <<xfer, sndPtr, rcvFrom, rcvNames>>
    BY DEF UpdaterNext, UpdReceive, UpdCompare, UpdSpawn, UpdJoin, sndVars, rcvVars
  <1>2. CASE UpdReceive(s)
    <2>1. updPc[s] = "wait" /\ updPc' = [updPc EXCEPT ![s] = "scan"]
            /\ to_receive' = [to_receive EXCEPT ![s] = 0] /\ UNCHANGED <<sndPc, rcvPc>>
      BY <1>2 DEF UpdReceive, sndVars, rcvVars
    <2>2. sndPc[s] \in Ended \cup {"off"} /\ rcvPc[s] \in Ended \cup {"off"}
      BY <2>1 DEF ThreadsOK
    <2>. QED
      BY <1>0, <1>1, <2>1, <2>2 DEF ThreadsOK, Ended
  <1>3. CASE UpdCompare(s)
    <2>1. UNCHANGED <<updPc, sndPc, rcvPc>>
      BY <1>3 DEF UpdCompare, sndVars, rcvVars
    <2>2. to_receive' = to_receive \/ to_receive' = [to_receive EXCEPT ![s] = @ + 1]
      BY <1>3, Zenon DEF UpdCompare
    <2>. QED
      BY <1>0, <1>1, <2>1, <2>2 DEF ThreadsOK
  <1>4. CASE UpdSpawn(s)
    <2>1. /\ updPc[s] = "scan" /\ updPc' = [updPc EXCEPT ![s] = "join"]
          /\ sndPc' = [sndPc EXCEPT ![s] = "next"]
          /\ rcvPc' = [rcvPc EXCEPT ![s] = "recv"]
          /\ to_receive' = to_receive
      BY <1>4 DEF UpdSpawn
    <2>2. sndPc[s] \in Ended \cup {"off"}
      BY <2>1 DEF ThreadsOK
    <2>3. xfer[s] = None
      BY <2>2 DEF ThreadsOK, Ended
    <2>. QED
      BY <1>0, <1>1, <2>1, <2>3 DEF ThreadsOK, Ended
  <1>5. CASE UpdJoin(s)
    <2>1. /\ updPc' = [updPc EXCEPT ![s] = "wait"]
          /\ sndPc[s] \in Ended /\ rcvPc[s] \in Ended
          /\ UNCHANGED <<sndPc, rcvPc, to_receive>>
      BY <1>5 DEF UpdJoin, sndVars, rcvVars
    <2>. QED
      BY <1>0, <1>1, <2>1 DEF ThreadsOK
  <1>. QED
    BY <1>2, <1>3, <1>4, <1>5 DEF UpdaterNext

(* A sender has a packet out exactly while it marks and waits. *)
LEMMA SenderThreads ==
  ASSUME TypeOK, ThreadsOK, NEW s \in Servers, SenderNext(s)
  PROVE  ThreadsOK'
  <1>0. /\ sndPc \in [Servers -> SndPcs]
        /\ sndPtr \in [Servers -> Keys \cup {None}]
        /\ xfer \in [Servers -> Packet \cup {None}]
        /\ updPc \in [Servers -> {"wait", "scan", "join"}]
    BY DEF TypeOK, ThrTypeOK, ChannelsTypeOK
  <1>1. UNCHANGED <<updPc, rcvPc, rcvFrom, rcvNames, to_receive>>
    BY DEF SenderNext, SndNext, SndCheck, SndPop, SndDel, SndSend, SndMark, SndAck,
           SndElsewhere, updVars, rcvVars
  <1>2. sndPc[s] \notin Ended \cup {"off"}
    BY DEF SenderNext, SndNext, SndCheck, SndPop, SndDel, SndSend, SndMark, SndAck, SndAt,
           Ended
  <1>3. updPc[s] = "join"
    BY <1>2 DEF ThreadsOK
  <1>4. ASSUME NEW pc \in SndPcs \ {"mark", "ack", "del"}, SndGoto(s, pc),
               UNCHANGED <<xfer, sndPtr>>, xfer[s] = None
        PROVE  ThreadsOK'
    BY <1>0, <1>1, <1>3, <1>4 DEF ThreadsOK, SndGoto
  <1>5. CASE SndNext(s)
    BY <1>4, <1>5 DEF SndNext, SndAt, SndPcs, ThreadsOK
  <1>6. CASE SndCheck(s)
    BY <1>4, <1>6 DEF SndCheck, SndAt, SndPcs, ThreadsOK
  <1>7. CASE SndPop(s)
    <2>. DEFINE list == in_charge_md[s][sndEntry[s]]
    <2>1. CASE list # << >>
      <3>1. list \in Seq(Keys)
        BY DEF TypeOK, SrvTypeOK, ThrTypeOK
      <3>2. Head(list) \in Keys
        BY <2>1, <3>1, HeadTailProperties
      <3>3. /\ sndPtr' = [sndPtr EXCEPT ![s] = Head(list)]
            /\ sndPc' = [sndPc EXCEPT ![s] = "del"]
            /\ sndPc[s] = "pop" /\ xfer' = xfer
        BY <1>7, <2>1 DEF SndPop, SndAt, SndGoto
      <3>. QED
        BY <1>0, <1>1, <1>3, <3>2, <3>3 DEF ThreadsOK
    <2>2. CASE list = << >>
      <3>1. UNCHANGED <<sndPc, sndPtr, xfer>>
        BY <1>7, <2>2 DEF SndPop
      <3>. QED
        BY <1>1, <3>1 DEF ThreadsOK
    <2>. QED
      BY <2>1, <2>2
  <1>8. CASE SndDel(s)
    <2>1. /\ sndPc[s] = "del" /\ xfer' = xfer
          /\ sndPtr' = [sndPtr EXCEPT ![s] = None]
          /\ \E pc \in {"check", "failed"} : sndPc' = [sndPc EXCEPT ![s] = pc]
      BY <1>8 DEF SndDel, SndAt, SndGoto
    <2>. QED
      BY <1>0, <1>1, <1>3, <2>1 DEF ThreadsOK
  <1>9. CASE SndSend(s)
    <2>. DEFINE p == [status |-> "sent", to |-> table[s][sndEntry[s]].id_srv,
                      entry |-> sndEntry[s], names |-> sndNames[s]]
    <2>1. /\ sndPc[s] = "send" /\ sndPc' = [sndPc EXCEPT ![s] = "mark"]
          /\ xfer' = [xfer EXCEPT ![s] = p] /\ sndPtr' = sndPtr
      BY <1>9 DEF SndSend, SndAt, SndGoto
    <2>2. xfer[s] = None
      BY <2>1 DEF ThreadsOK
    <2>3. xfer'[s] = p /\ p # None
      <3>1. xfer'[s] = p
        BY <1>0, <2>1
      <3>2. p \in Packet
        BY DEF Packet, TypeOK, SrvTypeOK, ThrTypeOK, MltLine
      <3>. QED
        BY <3>1, <3>2, DataAssumption
    <2>. HIDE DEF p
    <2>. QED
      BY <1>0, <1>1, <1>3, <2>1, <2>2, <2>3 DEF ThreadsOK
  <1>10. CASE SndMark(s)
    <2>1. /\ sndPc[s] = "mark" /\ sndPc' = [sndPc EXCEPT ![s] = "ack"]
          /\ UNCHANGED <<xfer, sndPtr>>
      BY <1>10 DEF SndMark, SndAt, SndGoto
    <2>. QED
      BY <1>0, <1>1, <1>3, <2>1 DEF ThreadsOK
  <1>11. CASE SndAck(s)
    <2>1. /\ sndPc[s] = "ack" /\ sndPc' = [sndPc EXCEPT ![s] = "next"]
          /\ xfer[s].status = "done" /\ xfer' = [xfer EXCEPT ![s] = None]
          /\ sndPtr' = sndPtr
      BY <1>11 DEF SndAck, SndAt, SndGoto
    <2>2. xfer'[s] = None /\ \A t \in Servers \ {s} : xfer'[t] = xfer[t]
      BY <1>0, <2>1
    <2>. QED
      BY <1>0, <1>1, <1>3, <2>1, <2>2 DEF ThreadsOK, TypeOK, ThrTypeOK
  <1>. QED
    BY <1>5, <1>6, <1>7, <1>8, <1>9, <1>10, <1>11 DEF SenderNext

(* A packet a receiver works on is taken by it alone: the packet names its *)
(* destination, and its sender waits until the receiver has answered.      *)
LEMMA ReceiverThreads ==
  ASSUME TypeOK, ThreadsOK, NEW s \in Servers, ReceiverNext(s)
  PROVE  ThreadsOK'
  <1>0. /\ rcvPc \in [Servers -> RcvPcs]
        /\ rcvFrom \in [Servers -> Servers]
        /\ rcvNames \in [Servers -> Seq(Keys)]
        /\ to_receive \in [Servers -> Nat]
        /\ xfer \in [Servers -> Packet \cup {None}]
        /\ updPc \in [Servers -> {"wait", "scan", "join"}]
    BY DEF TypeOK, ThrTypeOK, ChannelsTypeOK
  <1>1. UNCHANGED <<updPc, sndPc, sndPtr>>
    BY DEF ReceiverNext, RcvFinished, RcvReceive, RcvInsert, RcvPut, RcvState, RcvReply,
           RcvElsewhere, updVars, sndVars
  <1>2. rcvPc[s] \notin Ended \cup {"off"}
    BY DEF ReceiverNext, RcvFinished, RcvReceive, RcvInsert, RcvPut, RcvState, RcvReply,
           RcvAt, Ended
  <1>3. updPc[s] = "join"
    BY <1>2 DEF ThreadsOK
  <1>4. CASE RcvFinished(s)
    <2>1. /\ rcvPc' = [rcvPc EXCEPT ![s] = "done"]
          /\ UNCHANGED <<to_receive, rcvFrom, rcvNames, xfer>>
      BY <1>4 DEF RcvFinished, RcvGoto
    <2>. QED
      BY <1>0, <1>1, <1>3, <2>1 DEF ThreadsOK
  <1>5. ASSUME NEW from \in Servers, RcvReceive(s, from) PROVE ThreadsOK'
    <2>1. /\ rcvPc[s] = "recv" /\ rcvPc' = [rcvPc EXCEPT ![s] = "insert"]
          /\ rcvFrom' = [rcvFrom EXCEPT ![s] = from]
          /\ xfer[from] # None /\ xfer[from].status = "sent" /\ xfer[from].to = s
          /\ xfer' = [xfer EXCEPT ![from].status = "taken", ![from].names = << >>]
          /\ to_receive[s] > 0
          /\ to_receive' = to_receive
          /\ \A t \in Servers \ {s} : rcvNames'[t] = rcvNames[t]
      BY <1>0, <1>5 DEF RcvReceive, RcvAt, RcvGoto
    <2>. DEFINE p == [xfer[from] EXCEPT !.status = "taken", !.names = << >>]
    <2>2. p \in Packet /\ p.status = "taken" /\ p.to = s
      BY <1>0, <2>1, EmptySeq DEF Packet
    <2>3. xfer' = [xfer EXCEPT ![from] = p]
      BY <1>0, <2>1
    <2>4. p # None
      BY <2>2, DataAssumption
    <2>. HIDE DEF p
    <2>5. xfer'[from] = p /\ \A t \in Servers \ {from} : xfer'[t] = xfer[t]
      BY <1>0, <2>3
    <2>6. \A t \in Servers \ {s} :
             rcvPc'[t] = rcvPc[t] /\ rcvFrom'[t] = rcvFrom[t] /\ rcvNames'[t] = rcvNames[t]
      BY <1>0, <2>1
    <2>7. rcvPc'[s] = "insert" /\ rcvFrom'[s] = from
      BY <1>0, <2>1
    <2>. SUFFICES ASSUME NEW t \in Servers
                  PROVE  ThreadsOK!(t)'
      BY DEF ThreadsOK
    <2>8. (xfer'[t] # None) <=> (xfer[t] # None)
      BY <2>1, <2>4, <2>5
    <2>9. CASE t = s
      <3>1. xfer'[rcvFrom'[s]].status = "taken" /\ xfer'[rcvFrom'[s]].to = s
              /\ xfer'[rcvFrom'[s]] # None
        BY <2>2, <2>4, <2>5, <2>7
      <3>. QED
        BY <1>1, <1>3, <2>1, <2>7, <2>8, <2>9, <3>1 DEF ThreadsOK
    <2>10. CASE t # s
      <3>1. rcvPc[t] \in {"insert", "put", "state", "reply"} => rcvFrom[t] # from
        BY <2>1 DEF ThreadsOK
      <3>2. rcvPc[t] \in {"insert", "put", "state", "reply"} =>
               xfer'[rcvFrom'[t]] = xfer[rcvFrom[t]]
        BY <1>0, <2>5, <2>6, <2>10, <3>1
      <3>. QED
        BY <1>1, <2>1, <2>6, <2>8, <2>10, <3>2 DEF ThreadsOK
    <2>. QED
      BY <2>9, <2>10
  <1>6. CASE RcvInsert(s)
    <2>1. /\ rcvPc[s] = "insert"
          /\ \/ rcvNames[s] # << >> /\ rcvPc' = [rcvPc EXCEPT ![s] = "put"]
             \/ rcvPc' = [rcvPc EXCEPT ![s] = "state"]
          /\ UNCHANGED <<to_receive, rcvFrom, rcvNames, xfer>>
      BY <1>6 DEF RcvInsert, RcvAt, RcvGoto
    <2>. QED
      BY <1>0, <1>1, <1>3, <2>1 DEF ThreadsOK
  <1>7. CASE RcvPut(s)
    <2>1. /\ rcvPc[s] = "put"
          /\ \E pc \in {"insert", "failed"} : rcvPc' = [rcvPc EXCEPT ![s] = pc]
          /\ \A t \in Servers \ {s} : rcvNames'[t] = rcvNames[t]
          /\ UNCHANGED <<to_receive, rcvFrom, xfer>>
      BY <1>0, <1>7 DEF RcvPut, RcvAt, RcvGoto
    <2>. QED
      BY <1>0, <1>1, <1>3, <2>1 DEF ThreadsOK
  <1>8. CASE RcvState(s)
    <2>1. /\ rcvPc[s] = "state" /\ rcvPc' = [rcvPc EXCEPT ![s] = "reply"]
          /\ UNCHANGED <<to_receive, rcvFrom, rcvNames, xfer>>
      BY <1>8 DEF RcvState, RcvAt, RcvGoto
    <2>. QED
      BY <1>0, <1>1, <1>3, <2>1 DEF ThreadsOK
  <1>9. CASE RcvReply(s)
    <2>. DEFINE from == rcvFrom[s]
                p == [xfer[from] EXCEPT !.status = "done"]
    <2>1. /\ rcvPc[s] = "reply" /\ rcvPc' = [rcvPc EXCEPT ![s] = "recv"]
          /\ xfer' = [xfer EXCEPT ![from] = p]
          /\ to_receive' = [to_receive EXCEPT ![s] = @ - 1]
          /\ UNCHANGED <<rcvFrom, rcvNames>>
      BY <1>0, <1>9 DEF RcvReply, RcvAt, RcvGoto
    <2>2. from \in Servers /\ xfer[from] # None /\ xfer[from].to = s
      BY <1>0, <2>1 DEF ThreadsOK
    <2>3. p \in Packet
      BY <1>0, <2>2 DEF Packet
    <2>4. p # None
      BY <2>3, DataAssumption
    <2>. HIDE DEF p
    <2>5. xfer'[from] = p /\ \A t \in Servers \ {from} : xfer'[t] = xfer[t]
      BY <1>0, <2>1, <2>2
    <2>6. \A t \in Servers \ {s} : rcvPc'[t] = rcvPc[t] /\ to_receive'[t] = to_receive[t]
      BY <1>0, <2>1
    <2>7. rcvPc'[s] = "recv"
      BY <1>0, <2>1
    <2>. HIDE DEF from
    <2>. SUFFICES ASSUME NEW t \in Servers
                  PROVE  ThreadsOK!(t)'
      BY DEF ThreadsOK
    <2>8. CASE t = s
      BY <1>1, <1>3, <2>2, <2>4, <2>5, <2>7, <2>8 DEF ThreadsOK
    <2>9. CASE t # s
      <3>1. rcvPc[t] \in {"insert", "put", "state", "reply"} => rcvFrom[t] # from
        BY <2>2, <2>9 DEF ThreadsOK
      <3>. QED
        BY <1>0, <1>1, <2>1, <2>2, <2>4, <2>5, <2>6, <2>9, <3>1 DEF ThreadsOK
    <2>. QED
      BY <2>8, <2>9
  <1>. QED
    BY <1>4, <1>5, <1>6, <1>7, <1>8, <1>9 DEF ReceiverNext

-----------------------------------------------------------------------------
(* HistoryOK: only the manager writes the published tables and its own. *)

(* An assignment follows itself.                                            *)
LEMMA FollowsReflexive ==
  ASSUME NEW a \in Assignment
  PROVE  Follows(a, a)
  BY DEF Follows, Assignment

(* Following is transitive: later versions of an entry are later, and the same *)
(* version is the same assignment.                                          *)
LEMMA FollowsTransitive ==
  ASSUME NEW a \in Assignment, NEW b \in Assignment, NEW c \in Assignment,
         Follows(a, b), Follows(b, c)
  PROVE  Follows(a, c)
  BY DEF Follows, Assignment

(* A reassigned entry follows its line: a new server comes with a new version. *)
LEMMA ReassignFollows ==
  ASSUME NEW line \in Assignment, NEW srv \in Servers
  PROVE  Follows(line, Reassign(line, srv))
  BY DEF Follows, Reassign, Assignment

(* The log of published tables is a non-empty sequence of tables.           *)
LEMMA MltsType ==
  ASSUME TypeOK
  PROVE  /\ Len(mlts) \in Nat \ {0}
         /\ mlts \in Seq([Entries -> Assignment])
         /\ mgrTable \in [Entries -> Assignment]
         /\ \A i \in 1 .. Len(mlts) : mlts[i] \in [Entries -> Assignment]
  <1>1. mlts \in Seq([Entries -> Assignment]) /\ Len(mlts) >= 1
          /\ mgrTable \in [Entries -> Assignment]
    BY DEF TypeOK, ChannelsTypeOK, MgrTypeOK
  <1>2. Len(mlts) \in Nat
    BY <1>1, LenProperties
  <1>. QED
    BY <1>1, <1>2, ElementOfSeq

(* The manager only publishes a table that follows the last one it published: *)
(* manager_calculate_relab raises the version of each entry it moves.       *)
LEMMA ManagerHistory ==
  ASSUME TypeOK, HistoryOK, MgrStep
  PROVE  HistoryOK'
  <1>0. /\ Len(mlts) \in Nat \ {0}
        /\ mlts \in Seq([Entries -> Assignment])
        /\ mgrTable \in [Entries -> Assignment]
        /\ \A i \in 1 .. Len(mlts) : mlts[i] \in [Entries -> Assignment]
    BY MltsType
  <1>1. CASE MgrWake \/ MgrGather \/ MgrGathered \/ MgrReset
    <2>1. UNCHANGED <<mlts, mgrTable>> /\ mgrPc # "send"
      BY <1>1 DEF MgrWake, MgrGather, MgrGathered, MgrReset, mgrChannel
    <2>. QED
      BY <2>1 DEF HistoryOK, FreshTable
  <1>2. CASE MgrRelab
    <2>1. PICK new \in [Entries -> Servers] :
             mgrTable' = [e \in Entries |-> Reassign(mgrTable[e], new[e])]
      BY <1>2 DEF MgrRelab, Relab, RelabMany
    <2>2. /\ mgrTable = mlts[Len(mlts)] /\ mgrPc' = "send" /\ mlts' = mlts
      BY <1>2 DEF MgrRelab, HistoryOK, mgrChannel
    <2>3. \A e \in Entries : Follows(mlts[Len(mlts)][e], mgrTable'[e])
      BY <1>0, <2>1, <2>2, ReassignFollows
    <2>. QED
      BY <2>2, <2>3 DEF HistoryOK, FreshTable
  <1>3. CASE MgrSend
    <2>1. mlts' = Append(mlts, mgrTable) /\ mgrTable' = mgrTable
      BY <1>3 DEF MgrSend
    <2>2. /\ Len(mlts') = Len(mlts) + 1
          /\ mlts'[Len(mlts')] = mgrTable
          /\ \A i \in 1 .. Len(mlts) : mlts'[i] = mlts[i]
      BY <1>0, <2>1, AppendProperties
    <2>3. ASSUME NEW i \in 1 .. Len(mlts), NEW e \in Entries
          PROVE  Follows(mlts[i][e], mgrTable[e])
      <3>1. Follows(mlts[i][e], mlts[Len(mlts)][e])
        BY <1>0 DEF HistoryOK
      <3>2. Follows(mlts[Len(mlts)][e], mgrTable[e])
        BY DEF HistoryOK
      <3>. QED
        BY <1>0, <3>1, <3>2, FollowsTransitive
    <2>4. ASSUME NEW i \in 1 .. Len(mlts'), NEW j \in 1 .. Len(mlts'), i <= j,
                 NEW e \in Entries
          PROVE  Follows(mlts'[i][e], mlts'[j][e])
      <3>1. CASE j \in 1 .. Len(mlts)
        BY <1>0, <2>2, <2>4, <3>1 DEF HistoryOK
      <3>2. CASE j = Len(mlts') /\ i \in 1 .. Len(mlts)
        BY <2>2, <2>3, <3>2
      <3>3. CASE j = Len(mlts') /\ i = Len(mlts')
        BY <1>0, <2>2, <3>3, FollowsReflexive
      <3>. QED
        BY <1>0, <2>2, <2>4, <3>1, <3>2, <3>3
    <2>5. \A e \in Entries : Follows(mlts'[Len(mlts')][e], mgrTable'[e])
      BY <1>0, <2>1, <2>2, FollowsReflexive
    <2>6. mlts'[1] = FreshTable' /\ mgrPc' # "send"
      BY <1>0, <1>3, <2>2 DEF HistoryOK, FreshTable, MgrSend
    <2>. QED
      BY <2>1, <2>2, <2>4, <2>5, <2>6 DEF HistoryOK
  <1>. QED
    BY <1>1, <1>2, <1>3 DEF MgrStep, MgrNext

-----------------------------------------------------------------------------
(* TablesOK *)

(* What was published stays published. *)
LEMMA PublishedStays ==
  ASSUME TypeOK, MgrStep \/ UNCHANGED mlts
  PROVE  \A e, a : Published(mlts, e, a) => Published(mlts', e, a)
  <1>1. CASE UNCHANGED mlts
    BY <1>1
  <1>2. CASE MgrSend
    <2>1. /\ Len(mlts) \in Nat /\ Len(mlts') = Len(mlts) + 1
          /\ \A i \in 1 .. Len(mlts) : mlts'[i] = mlts[i]
      BY <1>2, MltsType, AppendProperties DEF MgrSend
    <2>. QED
      BY <2>1 DEF Published
  <1>. QED
    BY <1>1, <1>2 DEF MgrStep, MgrNext, MgrWake, MgrGather, MgrGathered, MgrRelab,
                      MgrReset, mgrChannel

(* Publishing a table does not change what a server's table is a prefix of. *)
LEMMA ManagerTables ==
  ASSUME TypeOK, TablesOK, MgrStep
  PROVE  TablesOK'
  <1>1. UNCHANGED <<table, seen, updPc, scan>>
    BY DEF MgrStep, srvVars, thrVars
  <1>2. CASE UNCHANGED mlts
    BY <1>1, <1>2 DEF TablesOK, At
  <1>3. CASE MgrSend
    <2>1. /\ Len(mlts) \in Nat /\ Len(mlts') = Len(mlts) + 1
          /\ \A i \in 1 .. Len(mlts) : mlts'[i] = mlts[i]
      BY <1>3, MltsType, AppendProperties DEF MgrSend
    <2>2. \A s \in Servers, e \in Entries : At(s, e)' = At(s, e) /\ At(s, e) \in 1 .. Len(mlts)
      BY <1>1, <2>1 DEF TablesOK, At
    <2>3. \A s \in Servers : seen'[s] \in 1 .. Len(mlts')
      BY <1>1, <2>1 DEF TablesOK
    <2>4. \A s \in Servers, e \in Entries :
             AssignmentOf(table'[s][e]) = mlts'[At(s, e)'][e]
      BY <1>1, <2>1, <2>2 DEF TablesOK
    <2>. QED
      BY <1>1, <2>3, <2>4 DEF TablesOK
  <1>. QED
    BY <1>2, <1>3 DEF MgrStep, MgrNext, MgrWake, MgrGather, MgrGathered, MgrRelab,
                      MgrReset, mgrChannel

(* Clearing the transfer state of a line keeps its assignment. *)
LEMMA StateTables ==
  ASSUME TypeOK, TablesOK, NEW s \in Servers, NEW e \in Entries,
         table' = [table EXCEPT ![s] = mlt_update_state(@, e, 0)],
         UNCHANGED <<mlts, seen, updPc, scan>>
  PROVE  TablesOK'
  <1>1. table \in [Servers -> [Entries -> MltLine]]
    BY DEF TypeOK, SrvTypeOK
  <1>2. \A t \in Servers, f \in Entries :
           AssignmentOf(table'[t][f]) = AssignmentOf(table[t][f])
    BY <1>1, UpdateStateType
  <1>. QED
    BY <1>2 DEF TablesOK, At

(* thread_mlt_updater brings each line to the published table it processes: *)
(* skipping lines of the same version loses nothing, since they are the same. *)
LEMMA UpdaterTables ==
  ASSUME TypeOK, HistoryOK, TablesOK, NEW s \in Servers, UpdaterNext(s)
  PROVE  TablesOK'
  <1>. USE SizesAssumption
  <1>0. /\ seen \in [Servers -> Nat] /\ scan \in [Servers -> 0 .. NEntry]
        /\ updPc \in [Servers -> {"wait", "scan", "join"}]
        /\ table \in [Servers -> [Entries -> MltLine]]
        /\ Len(mlts) \in Nat
    BY MltsType DEF TypeOK, ThrTypeOK, SrvTypeOK
  <1>1. mlts' = mlts
    BY DEF UpdaterNext, UpdReceive, UpdCompare, UpdSpawn, UpdJoin, Elsewhere, mgrChannel
  <1>2. CASE UpdReceive(s)
    <2>1. /\ updPc[s] = "wait" /\ seen[s] < Len(mlts)
          /\ seen' = [seen EXCEPT ![s] = @ + 1] /\ scan' = [scan EXCEPT ![s] = 0]
          /\ updPc' = [updPc EXCEPT ![s] = "scan"] /\ table' = table
      BY <1>2 DEF UpdReceive, srvVars
    <2>2. \A t \in Servers, e \in Entries : At(t, e)' = At(t, e)
      BY <1>0, <2>1 DEF At, Entries
    <2>3. \A t \in Servers : seen'[t] \in 1 .. Len(mlts)
                               /\ (updPc'[t] = "scan" => seen'[t] > 1)
      BY <1>0, <2>1 DEF TablesOK
    <2>. QED
      BY <1>1, <2>1, <2>2, <2>3 DEF TablesOK
  <1>3. CASE UpdCompare(s)
    <2>. DEFINE i == scan[s]
                old == table[s][i]
                new == mlts[seen[s]][i]
                line == mlt_update_entry(table[s], i, new.id_srv, new.n_ver,
                                         StateAfter(s, old.id_srv, new.id_srv))
    <2>1. /\ updPc[s] = "scan" /\ i \in Entries
          /\ scan' = [scan EXCEPT ![s] = @ + 1]
          /\ UNCHANGED <<seen, updPc>>
      BY <1>0, <1>3 DEF UpdCompare, Entries
    <2>2. /\ seen[s] \in 1 .. Len(mlts) /\ seen[s] > 1
          /\ AssignmentOf(old) = mlts[seen[s] - 1][i]
      <3>1. i <= i
        BY <1>0
      <3>2. At(s, i) = seen[s] - 1
        BY <2>1, <3>1 DEF At
      <3>. QED
        BY <2>1, <3>2 DEF TablesOK
    <2>3. \A t \in Servers, e \in Entries :
             At(t, e)' = IF t = s /\ e = i THEN seen[s] ELSE At(t, e)
      <3>1. \A t \in Servers \ {s} : scan'[t] = scan[t]
        BY <1>0, <2>1
      <3>2. scan'[s] = i + 1 /\ i \in Nat
        BY <1>0, <2>1 DEF Entries
      <3>. HIDE DEF i
      <3>3. ASSUME NEW e \in Entries
            PROVE  At(s, e)' = IF e = i THEN seen[s] ELSE At(s, e)
        <4>1. scan[s] = i
          BY DEF i
        <4>2. (i + 1 <= e) <=> (i <= e /\ e # i)
          BY <3>2, SizesAssumption DEF Entries
        <4>. QED
          BY <2>1, <3>2, <4>1, <4>2 DEF At
      <3>4. \A t \in Servers \ {s}, e \in Entries : At(t, e)' = At(t, e)
        BY <2>1, <3>1 DEF At
      <3>. QED
        BY <3>3, <3>4
    <2>4. old \in MltLine /\ new \in Assignment
      BY <1>0, <2>1, <2>2, MltsType
    <2>l. /\ AssignmentOf(line[i]) = [id_srv |-> new.id_srv, n_ver |-> new.n_ver]
          /\ \A e \in Entries \ {i} : line[e] = table[s][e]
      <3>1. StateAfter(s, old.id_srv, new.id_srv) \in {0, 1}
        BY DEF StateAfter
      <3>2. new.id_srv \in Servers /\ new.n_ver \in Nat
        BY <2>4 DEF Assignment
      <3>3. table[s] \in [Entries -> MltLine]
        BY <1>0
      <3>. QED
        BY SMTT(20), <2>1, <3>1, <3>2, <3>3, UpdateEntryType
    <2>5. AssignmentOf(table'[s][i]) = new
      <3>1. CASE old.n_ver # new.n_ver
        <4>1. table' = [table EXCEPT ![s] = line]
          BY <1>0, <1>3, <3>1 DEF UpdCompare
        <4>2. [id_srv |-> new.id_srv, n_ver |-> new.n_ver] = new
          BY <2>4 DEF Assignment
        <4>3. table'[s] = line
          <5>. HIDE DEF line
          <5>. QED
            BY <1>0, <4>1
        <4>. QED
          BY <2>l, <4>2, <4>3
      <3>2. CASE old.n_ver = new.n_ver
        <4>1. table' = table
          BY <1>3, <3>2 DEF UpdCompare
        <4>2. Follows(mlts[seen[s] - 1][i], new)
          <5>1. seen[s] - 1 \in 1 .. Len(mlts) /\ seen[s] - 1 <= seen[s]
            BY <1>0, <2>2
          <5>. QED
            BY <2>1, <2>2, <5>1 DEF HistoryOK
        <4>. QED
          BY <2>2, <3>2, <4>1, <4>2 DEF Follows, AssignmentOf
      <3>. QED
        BY <3>1, <3>2
    <2>6. \A t \in Servers, e \in Entries :
             t # s \/ e # i => AssignmentOf(table'[t][e]) = AssignmentOf(table[t][e])
      <3>1. table' = table \/ table' = [table EXCEPT ![s] = line]
        BY <1>3, Zenon DEF UpdCompare
      <3>. HIDE DEF line, i
      <3>. QED
        BY <1>0, <2>l, <3>1
    <2>7. \A t \in Servers, e \in Entries :
             AssignmentOf(table'[t][e]) = mlts[At(t, e)'][e]
      <3>. HIDE DEF i, old
      <3>. QED
        BY <2>3, <2>5, <2>6 DEF TablesOK
    <2>. QED
      BY <1>1, <2>1, <2>7 DEF TablesOK
  <1>4. CASE UpdSpawn(s) \/ UpdJoin(s)
    <2>1. /\ UNCHANGED <<seen, scan, table>>
          /\ \/ updPc[s] = "scan" /\ scan[s] = NEntry /\ updPc' = [updPc EXCEPT ![s] = "join"]
             \/ updPc[s] = "join" /\ updPc' = [updPc EXCEPT ![s] = "wait"]
      BY <1>4 DEF UpdSpawn, UpdJoin, srvVars
    <2>2. \A t \in Servers, e \in Entries : At(t, e)' = At(t, e)
      BY <1>0, <2>1 DEF At, Entries
    <2>. QED
      BY <1>0, <1>1, <2>1, <2>2 DEF TablesOK
  <1>. QED
    BY <1>2, <1>3, <1>4 DEF UpdaterNext

-----------------------------------------------------------------------------
(* ClientsOK *)

(* Steps of the other processes leave the clients' side alone. *)
LEMMA ClientsFrame ==
  ASSUME TypeOK, ClientsOK, UNCHANGED <<clientChannel, cTable>>,
         MgrStep \/ UNCHANGED mlts
  PROVE  ClientsOK'
  <1>1. UNCHANGED <<net, req, rep, cTable>>
    BY DEF clientChannel
  <1>2. \A e, a : Published(mlts, e, a) => Published(mlts', e, a)
    BY PublishedStays
  <1>. QED
    BY <1>1, <1>2 DEF ClientsOK, Stamp

(* The server's own line is a published assignment. *)
LEMMA LinePublished ==
  ASSUME TypeOK, TablesOK, NEW s \in Servers, NEW e \in Entries
  PROVE  Published(mlts, e, AssignmentOf(table[s][e]))
  <1>1. At(s, e) \in 1 .. Len(mlts)
    BY MltsType DEF TablesOK, At
  <1>. QED
    BY <1>1 DEF TablesOK, Published

(* The request loop only sends published assignments back (update&retry).   *)
LEMMA MainClients ==
  ASSUME TypeOK, ExchangesOK, MainOK, TablesOK, ClientsOK, NEW s \in Servers, MainStep(s)
  PROVE  ClientsOK'
  <1>0. /\ net \in [Clients -> {"idle", "sent", "taken", "replied"}]
        /\ rep \in [Clients -> Reply \cup {None}]
    BY DEF TypeOK, ChannelsTypeOK
  <1>1. MainNext(s) /\ UNCHANGED <<mlts, cTable>>
    BY MainEffect DEF MainStep, mgrChannel, cliVars
  <1>2. ASSUME NEW c \in Clients, NEW flag, NEW new, NEW val, net[c] # "idle",
               Answer(c, flag, new, val),
               flag = "update&retry" => Published(mlts, Index[req[c].key], new)
        PROVE  ClientsOK'
    <2>1. /\ req' = req
          /\ net'[c] = "replied" /\ rep'[c].flag = flag /\ rep'[c].new = new
          /\ \A d \in Clients \ {c} : net'[d] = net[d] /\ rep'[d] = rep[d]
      BY <1>0, <1>2 DEF Answer
    <2>. QED
      BY <1>1, <1>2, <2>1 DEF ClientsOK, Stamp
  <1>3. ASSUME NEW c \in Clients, Redirected(s, c) PROVE ClientsOK'
    <2>1. net[c] # "idle" /\ req[c] \in Request
      BY <1>3 DEF Redirected, Receives, ExchangesOK
    <2>2. Index[req[c].key] \in Entries
      BY <2>1, DataAssumption DEF Request
    <2>3. Published(mlts, Index[req[c].key], AssignmentOf(LineFor(s, c)))
      BY <2>2, LinePublished DEF LineFor
    <2>. QED
      BY <1>2, <1>3, <2>1, <2>3 DEF Redirected
  <1>4. ASSUME NEW c \in Clients, Waits(s, c) PROVE ClientsOK'
    BY <1>2, <1>4 DEF Waits, Receives
  <1>5. ASSUME NEW c \in Clients, Taken(s, c) PROVE ClientsOK'
    BY <1>0, <1>1, <1>5 DEF Taken, Receives, ClientsOK, Stamp
  <1>6. ASSUME srvPc[s] # "recv", NEW flag \in {"done", "aborted"}, NEW val \in File,
               Finish(s, flag, val)
        PROVE  ClientsOK'
    <2>1. serving[s] \in Clients /\ net[serving[s]] # "idle"
      BY <1>6 DEF MainOK
    <2>. QED
      BY <1>2, <1>6, <2>1 DEF Finish
  <1>7. CASE UNCHANGED clientChannel
    BY <1>1, <1>7, ClientsFrame
  <1>. QED
    BY <1>1, <1>3, <1>4, <1>5, <1>6, <1>7, MainEffect DEF ToList

(* A client takes published lines only, and addresses its requests by them. *)
LEMMA ClientClients ==
  ASSUME TypeOK, ExchangesOK, ClientsOK, NEW c \in Clients, CliStep(c)
  PROVE  ClientsOK'
  <1>0. /\ net \in [Clients -> {"idle", "sent", "taken", "replied"}]
        /\ req \in [Clients -> Request \cup {None}]
        /\ rep \in [Clients -> Reply \cup {None}]
        /\ cTable \in [Clients -> [Entries -> Assignment]]
    BY DEF TypeOK, ChannelsTypeOK, CliTypeOK
  <1>1. mlts' = mlts
    BY DEF CliStep, mgrChannel
  <1>2. ASSUME NEW t \in [Entries -> Assignment], NEW op, NEW k \in Keys, NEW v,
               \A e \in Entries : Published(mlts, e, t[e])
        PROVE  /\ Addressed(t, op, k, v).key = k
               /\ Published(mlts, Index[k], Stamp(Addressed(t, op, k, v)))
    <2>1. Index[k] \in Entries
      BY DataAssumption
    <2>2. Stamp(Addressed(t, op, k, v)) = t[Index[k]]
      BY <2>1 DEF Stamp, Addressed, Assignment
    <2>. QED
      BY <1>2, <2>1, <2>2 DEF Addressed
  <1>3. ASSUME NEW op \in Ops, NEW k \in Keys, CliIssue(c, op, k) PROVE ClientsOK'
    <2>1. PICK v \in Contents(op) :
             req' = [req EXCEPT ![c] = Addressed(cTable[c], op, k, v)]
      BY <1>3 DEF CliIssue
    <2>. DEFINE r == Addressed(cTable[c], op, k, v)
    <2>2. r.key = k /\ Published(mlts, Index[k], Stamp(r))
      BY <1>0, <1>2 DEF ClientsOK
    <2>3. UNCHANGED <<rep, cTable>> /\ net' = [net EXCEPT ![c] = "sent"]
      BY <1>3 DEF CliIssue
    <2>. HIDE DEF r
    <2>4. /\ req'[c] = r /\ net'[c] = "sent"
          /\ \A d \in Clients \ {c} : req'[d] = req[d] /\ net'[d] = net[d]
      BY <1>0, <2>1, <2>3 DEF r
    <2>. QED
      BY <1>1, <2>2, <2>3, <2>4 DEF ClientsOK, Stamp
  <1>4. CASE CliReply(c)
    <2>. DEFINE q == req[c]
                e == Index[q.key]
                t == Learn(cTable[c], e, rep[c])
                r == Addressed(t, q.op, q.key, q.val)
    <2>1. /\ net[c] = "replied" /\ q \in Request
          /\ (rep[c].flag = "update&retry" => rep[c].new \in Assignment)
      BY <1>4 DEF ExchangesOK, CliReply
    <2>2. q.key \in Keys /\ e \in Entries
      BY <2>1, DataAssumption DEF Request
    <2>3. t \in [Entries -> Assignment]
      BY <1>0, <2>1, <2>2 DEF Learn
    <2>4. \A f \in Entries : Published(mlts, f, t[f])
      <3>1. CASE rep[c].flag = "update&retry"
        <4>1. Published(mlts, e, rep[c].new)
          BY <2>1, <3>1 DEF ClientsOK
        <4>2. t = [cTable[c] EXCEPT ![e] = rep[c].new]
          BY <3>1 DEF Learn
        <4>3. t[e] = rep[c].new /\ \A f \in Entries \ {e} : t[f] = cTable[c][f]
          <5>. HIDE DEF e, t
          <5>. QED
            BY <1>0, <2>2, <4>2
        <4>. QED
          BY <4>1, <4>3 DEF ClientsOK
      <3>2. CASE rep[c].flag # "update&retry"
        BY <3>2 DEF Learn, ClientsOK
      <3>. QED
        BY <3>1, <3>2
    <2>5. r.key = q.key /\ Published(mlts, e, Stamp(r))
      BY <1>2, <2>2, <2>3, <2>4
    <2>6. /\ cTable' = [cTable EXCEPT ![c] = t]
          /\ \/ /\ req' = [req EXCEPT ![c] = r]
                /\ net' = [net EXCEPT ![c] = "sent"]
             \/ /\ req' = [req EXCEPT ![c] = None]
                /\ net' = [net EXCEPT ![c] = "idle"]
          /\ rep' = [rep EXCEPT ![c] = None]
      BY <1>4 DEF CliReply
    <2>. HIDE DEF r, t
    <2>7. /\ cTable'[c] = t
          /\ (req'[c] = r /\ net'[c] = "sent") \/ net'[c] = "idle"
          /\ \A d \in Clients \ {c} :
               req'[d] = req[d] /\ net'[d] = net[d] /\ rep'[d] = rep[d]
                 /\ cTable'[d] = cTable[d]
      BY <1>0, <2>6
    <2>. QED
      BY <1>1, <2>4, <2>5, <2>7 DEF ClientsOK, Stamp
  <1>5. CASE CliExit(c)
    BY <1>1, <1>5, ClientsFrame DEF CliExit
  <1>. QED
    BY <1>3, <1>4, <1>5 DEF CliStep, CliNext

(* A restarted client has the table published first. *)
LEMMA LaunchClients ==
  ASSUME TypeOK, HistoryOK, ClientsOK, LaunchNext
  PROVE  ClientsOK'
  <1>0. \A e \in Entries : Published(mlts, e, FreshTable[e])
    BY MltsType DEF HistoryOK, Published
  <1>1. CASE UNCHANGED cTable
    BY <1>1, ClientsFrame DEF LaunchNext, LaunchSignal, LaunchManager, LaunchStep, mgrChannel
  <1>2. CASE LaunchStep
    <2>1. UNCHANGED <<net, req, rep, mlts>>
      BY <1>2 DEF LaunchStep, clientChannel, mgrChannel
    <2>2. \A c \in Clients : cTable'[c] = FreshTable \/ cTable'[c] = cTable[c]
      BY <1>2 DEF LaunchStep, CliRestart
    <2>. QED
      BY <1>0, <2>1, <2>2 DEF ClientsOK, Stamp
  <1>. QED
    BY <1>1, <1>2 DEF LaunchNext, LaunchSignal, LaunchManager, cliVars

-----------------------------------------------------------------------------
(* IndInv is inductive *)

(* The inductive invariant holds initially.                                 *)
LEMMA InitIndInv == Init => IndInv
  <1>. SUFFICES ASSUME Init PROVE IndInv
    OBVIOUS
  <1>. USE SizesAssumption
  <1>1. TypeOK
    BY InitType
  <1>2. mlts = <<FreshTable>> /\ mlts[1] = FreshTable /\ Len(mlts) = 1
    BY DEF Init, ChannelsInit, FreshTable
  <1>3. \A e \in Entries : FreshTable[e] \in Assignment
    BY <1>1, <1>2 DEF TypeOK, CliTypeOK, Init, MgrTypeOK, MgrInit, FreshTable
  <1>4. ExchangesOK
    BY DEF Init, ChannelsInit, ExchangesOK
  <1>5. MainOK
    BY DEF Init, SrvInit, MainOK
  <1>6. ThreadsOK
    BY DEF Init, ThrInit, ChannelsInit, ThreadsOK, Ended
  <1>7. HistoryOK
    <2>1. \A e \in Entries : Follows(FreshTable[e], FreshTable[e])
      BY <1>3, FollowsReflexive
    <2>2. mgrTable = FreshTable
      BY DEF Init, MgrInit, FreshTable
    <2>. QED
      BY <1>2, <2>1, <2>2 DEF HistoryOK
  <1>8. TablesOK
    <2>1. \A s \in Servers, e \in Entries : AssignmentOf(table[s][e]) = FreshTable[e]
      BY DEF Init, SrvInit, FreshTable
    <2>2. \A s \in Servers : seen[s] = 1 /\ updPc[s] = "wait"
      BY DEF Init, ThrInit
    <2>. QED
      BY <1>2, <2>1, <2>2 DEF TablesOK, At
  <1>9. ClientsOK
    <2>1. \A c \in Clients : cTable[c] = FreshTable /\ net[c] = "idle"
      BY DEF Init, CliInit, ChannelsInit
    <2>. QED
      BY <1>2, <2>1 DEF ClientsOK, Published
  <1>. QED
    BY <1>1, <1>4, <1>5, <1>6, <1>7, <1>8, <1>9 DEF IndInv

(* Every step of every process keeps the inductive invariant.               *)
LEMMA NextIndInv == IndInv /\ [Next]_vars => IndInv'
  <1>. SUFFICES ASSUME IndInv, [Next]_vars PROVE IndInv'
    OBVIOUS
  <1>0. /\ TypeOK /\ ExchangesOK /\ MainOK /\ ThreadsOK /\ HistoryOK /\ TablesOK
        /\ ClientsOK
    BY DEF IndInv
  <1>e. ASSUME UNCHANGED clientChannel PROVE ExchangesOK'
    BY <1>0, <1>e DEF ExchangesOK, clientChannel
  <1>m. ASSUME UNCHANGED clientChannel, UNCHANGED <<srvPc, serving>> PROVE MainOK'
    BY <1>0, <1>m DEF MainOK, clientChannel
  <1>h. ASSUME UNCHANGED <<mlts, mgrVars>> PROVE HistoryOK'
    BY <1>0, <1>h DEF HistoryOK, mgrVars, FreshTable
  <1>t. ASSUME UNCHANGED <<mlts, table, seen, updPc, scan>> PROVE TablesOK'
    BY <1>0, <1>t DEF TablesOK, At
  <1>1. CASE LaunchNext
    <2>1. UNCHANGED <<clientChannel, mlts, xfer, srvVars, thrVars>>
      BY <1>1 DEF LaunchNext, LaunchSignal, LaunchManager, LaunchStep, mgrChannel
    <2>2. UNCHANGED <<srvPc, serving, table, seen, updPc, scan>>
      BY <2>1 DEF srvVars, thrVars
    <2>3. HistoryOK'
      BY <1>0, <1>1, <2>1 DEF HistoryOK, FreshTable, mgrVars, LaunchNext, LaunchSignal,
                              LaunchManager, LaunchStep, usrHandler2
    <2>4. TypeOK'
      BY <1>0, <1>1, TypeStep DEF Next
    <2>. QED
      BY <1>0, <1>1, <1>e, <1>m, <1>t, <2>1, <2>2, <2>3, <2>4, ThreadsFrame, LaunchClients
         DEF IndInv
  <1>2. CASE MgrStep
    <2>1. UNCHANGED <<clientChannel, xfer, srvVars, thrVars, cliVars>>
      BY <1>2 DEF MgrStep
    <2>2. UNCHANGED <<srvPc, serving, cTable>>
      BY <2>1 DEF srvVars, cliVars
    <2>3. TypeOK'
      BY <1>0, <1>2, TypeStep DEF Next
    <2>. QED
      BY <1>0, <1>2, <1>e, <1>m, <2>1, <2>2, <2>3, ThreadsFrame, ManagerHistory,
         ManagerTables, ClientsFrame DEF IndInv
  <1>3. ASSUME NEW s \in Servers, MainStep(s) PROVE IndInv'
    <2>1. MainNext(s) /\ UNCHANGED <<mgrVars, thrVars>>
      BY <1>3 DEF MainStep
    <2>2. UNCHANGED <<table, mlts, xfer>>
      BY <1>0, <2>1, MainEffect DEF mgrChannel
    <2>3. UNCHANGED <<seen, updPc, scan>>
      BY <2>1 DEF thrVars
    <2>4. TypeOK'
      BY <1>0, <1>3, TypeStep DEF Next
    <2>. QED
      BY <1>0, <1>3, <1>h, <1>t, <2>1, <2>2, <2>3, <2>4, ThreadsFrame, MainExchanges,
         MainMain, MainClients DEF IndInv
  <1>4. ASSUME NEW s \in Servers, HandlerStep(s) PROVE IndInv'
    <2>1. UNCHANGED <<clientChannel, mlts, xfer, srvVars, mgrVars, thrVars, cliVars>>
      BY <1>4 DEF HandlerStep, HandlerNext, usr1_handler, usr2_handler, mgrChannel
    <2>2. UNCHANGED <<srvPc, serving, table, seen, updPc, scan, cTable>>
      BY <2>1 DEF srvVars, thrVars, cliVars
    <2>3. TypeOK'
      BY <1>0, <1>4, TypeStep DEF Next
    <2>. QED
      BY <1>0, <1>e, <1>m, <1>h, <1>t, <2>1, <2>2, <2>3, ThreadsFrame, ClientsFrame
         DEF IndInv
  <1>5. ASSUME NEW s \in Servers, UpdaterStep(s) PROVE IndInv'
    <2>1. UpdaterNext(s) /\ UNCHANGED <<mgrVars, cliVars>>
      BY <1>5 DEF UpdaterStep
    <2>2. UNCHANGED <<clientChannel, mlts, srvPc, serving>>
      BY <2>1 DEF UpdaterNext, UpdReceive, UpdCompare, UpdSpawn, UpdJoin, Elsewhere,
                  mgrChannel, srvVars, mainVars
    <2>3. TypeOK'
      BY <1>0, <1>5, TypeStep DEF Next
    <2>. QED
      BY <1>0, <1>e, <1>m, <1>h, <2>1, <2>2, <2>3, UpdaterThreads, UpdaterTables,
         ClientsFrame DEF IndInv, cliVars
  <1>6. ASSUME NEW s \in Servers, SenderStep(s) PROVE IndInv'
    <2>1. SenderNext(s) /\ UNCHANGED <<mgrVars, cliVars>>
      BY <1>6 DEF SenderStep
    <2>2. UNCHANGED <<clientChannel, mlts, srvPc, serving, seen, updPc, scan>>
      BY <2>1 DEF SenderNext, SndNext, SndCheck, SndPop, SndDel, SndSend, SndMark, SndAck,
                  SndElsewhere, Elsewhere, mgrChannel, srvVars, mainVars, updVars
    <2>3. TablesOK'
      <3>1. CASE SndMark(s)
        <4>1. table' = [table EXCEPT ![s] = mlt_update_state(@, sndEntry[s], 0)]
          BY <3>1 DEF SndMark
        <4>2. sndEntry[s] \in Entries
          BY <1>0 DEF TypeOK, ThrTypeOK
        <4>. QED
          BY <1>0, <2>2, <4>1, <4>2, StateTables
      <3>2. CASE ~SndMark(s)
        BY <1>t, <2>1, <2>2, <3>2 DEF SenderNext, SndNext, SndCheck, SndPop, SndDel,
                                      SndSend, SndAck, srvVars, sharedVars
      <3>. QED
        BY <3>1, <3>2
    <2>4. TypeOK'
      BY <1>0, <1>6, TypeStep DEF Next
    <2>. QED
      BY <1>0, <1>e, <1>m, <1>h, <2>1, <2>2, <2>3, <2>4, SenderThreads, ClientsFrame
         DEF IndInv, cliVars
  <1>7. ASSUME NEW s \in Servers, ReceiverStep(s) PROVE IndInv'
    <2>1. ReceiverNext(s) /\ UNCHANGED <<mgrVars, cliVars>>
      BY <1>7 DEF ReceiverStep
    <2>2. UNCHANGED <<clientChannel, mlts, srvPc, serving, seen, updPc, scan>>
      BY <2>1 DEF ReceiverNext, RcvFinished, RcvReceive, RcvInsert, RcvPut, RcvState,
                  RcvReply, RcvElsewhere, Elsewhere, mgrChannel, mainVars, updVars
    <2>3. TablesOK'
      <3>1. CASE RcvState(s)
        <4>1. table' = [table EXCEPT ![s] = mlt_update_state(@, rcvEntry[s], 0)]
          BY <3>1 DEF RcvState
        <4>2. rcvEntry[s] \in Entries
          BY <1>0 DEF TypeOK, ThrTypeOK
        <4>. QED
          BY <1>0, <2>2, <4>1, <4>2, StateTables
      <3>2. CASE ~RcvState(s)
        BY <1>t, <2>1, <2>2, <3>2 DEF ReceiverNext, RcvFinished, RcvReceive, RcvInsert,
                                      RcvPut, RcvReply, sharedVars
      <3>. QED
        BY <3>1, <3>2
    <2>4. TypeOK'
      BY <1>0, <1>7, TypeStep DEF Next
    <2>. QED
      BY <1>0, <1>e, <1>m, <1>h, <2>1, <2>2, <2>3, <2>4, ReceiverThreads, ClientsFrame
         DEF IndInv, cliVars
  <1>8. ASSUME NEW c \in Clients, CliStep(c) PROVE IndInv'
    <2>1. UNCHANGED <<mlts, xfer, mgrVars, srvVars, thrVars>>
      BY <1>8 DEF CliStep, mgrChannel
    <2>2. UNCHANGED <<table, seen, updPc, scan>>
      BY <2>1 DEF srvVars, thrVars
    <2>3. TypeOK'
      BY <1>0, <1>8, TypeStep DEF Next
    <2>. QED
      BY <1>0, <1>8, <1>h, <1>t, <2>1, <2>2, <2>3, ThreadsFrame, ClientExchanges,
         ClientMain, ClientClients DEF IndInv
  <1>9. CASE UNCHANGED vars
    BY <1>9, <1>e, <1>m, <1>h, <1>t, <1>0, ThreadsFrame, ClientsFrame, StutterTypes
       DEF vars, srvVars, thrVars, cliVars, mgrChannel, IndInv
  <1>. QED
    BY <1>1, <1>2, <1>3, <1>4, <1>5, <1>6, <1>7, <1>8, <1>9 DEF Next, Finished

(* The relations between the processes that IndInv collects hold in every  *)
(* reachable state, whatever the sizes, the traces and the launcher do:    *)
(* the exchanges, the threads of src/distribution_dh_s.c and the tables of *)
(* src/mlt.c stay related as IndInv says.                                  *)
THEOREM Invariance == Spec => []IndInv
  BY InitIndInv, NextIndInv, PTL DEF Spec

(* Every variable keeps its type: in particular no table names a server or *)
(* an entry that does not exist, and the number of packets a receiver      *)
(* waits for (to_receive of src/distribution_dh_s.c) never goes below 0.   *)
THEOREM TypeCorrect == Spec => []TypeOK
  <1>1. IndInv => TypeOK
    BY DEF IndInv
  <1>. QED
    BY <1>1, Invariance, PTL

-----------------------------------------------------------------------------
(* What follows from it *)

(* Two published tables, or a published table and the manager's, that give *)
(* an entry the same version give it the same server.                      *)
LEMMA PublishedAgree ==
  ASSUME IndInv, NEW e \in Entries, NEW a, NEW b,
         Published(mlts, e, a) \/ a = mgrTable[e],
         Published(mlts, e, b) \/ b = mgrTable[e],
         a.n_ver = b.n_ver
  PROVE  a = b
  <1>0. /\ TypeOK /\ HistoryOK
        /\ Len(mlts) \in Nat \ {0}
        /\ mgrTable \in [Entries -> Assignment]
        /\ \A i \in 1 .. Len(mlts) : mlts[i] \in [Entries -> Assignment]
    BY MltsType DEF IndInv
  <1>1. ASSUME NEW i \in 1 .. Len(mlts), NEW j \in 1 .. Len(mlts),
               mlts[i][e].n_ver = mlts[j][e].n_ver
        PROVE  mlts[i][e] = mlts[j][e]
    <2>1. i <= j \/ j <= i
      BY <1>0
    <2>. QED
      BY <1>0, <1>1, <2>1 DEF HistoryOK, Follows
  <1>2. ASSUME NEW i \in 1 .. Len(mlts), mlts[i][e].n_ver = mgrTable[e].n_ver
        PROVE  mlts[i][e] = mgrTable[e]
    <2>1. Follows(mlts[i][e], mlts[Len(mlts)][e])
      BY <1>0 DEF HistoryOK
    <2>2. Follows(mlts[Len(mlts)][e], mgrTable[e])
      BY <1>0 DEF HistoryOK
    <2>3. Follows(mlts[i][e], mgrTable[e])
      BY <1>0, <2>1, <2>2, FollowsTransitive
    <2>. QED
      BY <1>2, <2>3 DEF Follows
  <1>. QED
    BY <1>1, <1>2 DEF Published

(* Every assignment some process holds or some message carries was published, *)
(* except for the table the manager is about to publish.                    *)
LEMMA KnownPublished ==
  ASSUME IndInv, NEW e \in Entries, NEW a \in Known(e)
  PROVE  Published(mlts, e, a) \/ a = mgrTable[e]
  <1>1. \A s \in Servers : Published(mlts, e, AssignmentOf(table[s][e]))
    BY LinePublished DEF IndInv
  <1>2. \A c \in Clients :
          /\ Published(mlts, e, cTable[c][e])
          /\ net[c] # "idle" => Published(mlts, Index[req[c].key], Stamp(req[c]))
          /\ net[c] = "replied" /\ rep[c].flag = "update&retry"
               => Published(mlts, Index[req[c].key], rep[c].new)
    BY DEF IndInv, ClientsOK
  <1>. QED
    BY <1>1, <1>2 DEF Known, Published

(* Agreement on versions follows from the inductive invariant.              *)
LEMMA Agreement == IndInv => VersionAgreement
  BY KnownPublished, PublishedAgree DEF VersionAgreement

(* Two assignments of an entry with the same version, held by any process  *)
(* or carried by any message, name the same server: comparing the versions *)
(* is enough, and distribution_post_receive compares nothing else.         *)
THEOREM VersionsAgree == Spec => []VersionAgreement
  BY Invariance, Agreement, PTL

(* A server takes a request only for an entry its own table gives to it,   *)
(* without ever comparing the server of the line with its own number.      *)
THEOREM OwnerAccepts == Spec => AcceptedByOwner
  <1>1. IndInv /\ [Next]_vars =>
          [\A s \in Servers : srvPc[s] = "recv" /\ srvPc'[s] = "store"
             => table[s][Index[req'[serving'[s]].key]].id_srv = s]_vars
    <2>. SUFFICES ASSUME IndInv, Next, NEW s \in Servers,
                         srvPc[s] = "recv", srvPc'[s] = "store"
                  PROVE  table[s][Index[req'[serving'[s]].key]].id_srv = s
      BY DEF vars, srvVars
    <2>0. /\ srvPc \in [Servers -> {"recv", "store", "list"}]
          /\ serving \in [Servers -> Clients \cup {None}]
      BY DEF IndInv, TypeOK, SrvTypeOK
    <2>1. PICK t \in Servers : MainStep(t)
      <3>1. LaunchNext => srvPc' = srvPc
        BY DEF LaunchNext, LaunchSignal, LaunchManager, LaunchStep, srvVars
      <3>6. MgrStep => srvPc' = srvPc
        BY DEF MgrStep, srvVars
      <3>7. Finished => srvPc' = srvPc
        BY DEF Finished, vars, srvVars
      <3>8. \A c \in Clients : CliStep(c) => srvPc' = srvPc
        BY DEF CliStep, srvVars
      <3>2. \A t \in Servers : HandlerStep(t) => srvPc' = srvPc
        BY DEF HandlerStep, HandlerNext, usr1_handler, usr2_handler, srvVars
      <3>3. \A t \in Servers : UpdaterStep(t) => srvPc' = srvPc
        BY DEF UpdaterStep, UpdaterNext, UpdReceive, UpdCompare, UpdSpawn, UpdJoin, srvVars,
               mainVars
      <3>4. \A t \in Servers : SenderStep(t) => srvPc' = srvPc
        BY DEF SenderStep, SenderNext, SndNext, SndCheck, SndPop, SndDel, SndSend, SndMark,
               SndAck, SndElsewhere, srvVars, mainVars
      <3>5. \A t \in Servers : ReceiverStep(t) => srvPc' = srvPc
        BY DEF ReceiverStep, ReceiverNext, RcvFinished, RcvReceive, RcvInsert, RcvPut,
               RcvState, RcvReply, RcvElsewhere, mainVars
      <3>. QED
        BY <3>1, <3>2, <3>3, <3>4, <3>5, <3>6, <3>7, <3>8 DEF Next
    <2>2. PICK c \in Clients : SrvAccept(t, c)
      BY <2>0, <2>1 DEF MainStep, MainNext, SrvWaitRetry, SrvUpdateRetry, SrvPut, SrvUpdate,
                        SrvDelete, SrvGet, SrvInsert, SrvUnlink, Finish, ToList, srvVars,
                        mainVars
    <2>3. t = s /\ serving'[s] = c /\ req' = req /\ Receives(s, c)
            /\ Accepts(LineFor(s, c), req[c].entryVersion)
      BY <2>0, <2>2 DEF SrvAccept
    <2>. DEFINE e == Index[req[c].key]
    <2>4. req[c] \in Request
      BY <2>3 DEF Receives, IndInv, ExchangesOK
    <2>5. e \in Entries
      BY <2>4, DataAssumption DEF Request
    <2>6. Published(mlts, e, Stamp(req[c]))
      BY <2>3 DEF Receives, IndInv, ClientsOK
    <2>7. Published(mlts, e, AssignmentOf(table[s][e]))
      BY <2>5, LinePublished DEF IndInv
    <2>8. AssignmentOf(table[s][e]).n_ver = Stamp(req[c]).n_ver
      BY <2>3 DEF Accepts, LineFor, Stamp, AssignmentOf
    <2>9. AssignmentOf(table[s][e]) = Stamp(req[c])
      BY <2>5, <2>6, <2>7, <2>8, PublishedAgree
    <2>10. Stamp(req[c]).id_srv = s
      BY <2>3 DEF Stamp, Receives
    <2>. QED
      BY <2>3, <2>9, <2>10 DEF AssignmentOf
  <1>. QED
    BY <1>1, Invariance, PTL DEF Spec, AcceptedByOwner

(* A server moves on through the published tables only. *)
LEMMA AtGrows ==
  ASSUME TypeOK, TablesOK, Next, NEW s \in Servers, NEW e \in Entries
  PROVE  At(s, e) <= At(s, e)'
  <1>0. /\ seen \in [Servers -> Nat] /\ scan \in [Servers -> 0 .. NEntry]
        /\ updPc \in [Servers -> {"wait", "scan", "join"}]
        /\ NEntry \in Nat /\ e \in Nat /\ e < NEntry
    BY SizesAssumption DEF TypeOK, ThrTypeOK, Entries
  <1>1. ASSUME NEW t \in Servers, UpdaterStep(t) PROVE At(s, e) <= At(s, e)'
    <2>1. CASE UpdReceive(t)
      <3>1. /\ updPc[t] = "wait"
            /\ seen' = [seen EXCEPT ![t] = @ + 1] /\ scan' = [scan EXCEPT ![t] = 0]
            /\ updPc' = [updPc EXCEPT ![t] = "scan"]
        BY <2>1 DEF UpdReceive
      <3>. QED
        BY <1>0, <3>1 DEF At
    <2>2. CASE UpdCompare(t)
      <3>1. scan' = [scan EXCEPT ![t] = @ + 1] /\ UNCHANGED <<seen, updPc>>
        BY <2>2 DEF UpdCompare
      <3>. QED
        BY <1>0, <3>1 DEF At
    <2>3. CASE UpdSpawn(t) \/ UpdJoin(t)
      <3>1. /\ UNCHANGED <<seen, scan>>
            /\ \/ updPc[t] = "scan" /\ scan[t] = NEntry /\ updPc' = [updPc EXCEPT ![t] = "join"]
               \/ updPc[t] = "join" /\ updPc' = [updPc EXCEPT ![t] = "wait"]
        BY <2>3 DEF UpdSpawn, UpdJoin
      <3>. QED
        BY <1>0, <3>1 DEF At
    <2>. QED
      BY <1>1, <2>1, <2>2, <2>3 DEF UpdaterStep, UpdaterNext
  <1>2. ASSUME UNCHANGED <<seen, updPc, scan>> PROVE At(s, e) <= At(s, e)'
    BY <1>0, <1>2 DEF At
  <1>3. ASSUME NEW t \in Servers, SenderStep(t) PROVE UNCHANGED <<seen, updPc, scan>>
    BY <1>3 DEF SenderStep, SenderNext, SndNext, SndCheck, SndPop, SndDel, SndSend, SndMark,
                SndAck, SndElsewhere, updVars
  <1>4. ASSUME NEW t \in Servers, ReceiverStep(t) PROVE UNCHANGED <<seen, updPc, scan>>
    BY <1>4 DEF ReceiverStep, ReceiverNext, RcvFinished, RcvReceive, RcvInsert, RcvPut,
                RcvState, RcvReply, RcvElsewhere, updVars
  <1>5. ASSUME NEW t \in Servers, MainStep(t) \/ HandlerStep(t)
        PROVE  UNCHANGED <<seen, updPc, scan>>
    BY <1>5 DEF MainStep, HandlerStep, thrVars
  <1>6. MgrStep => UNCHANGED <<seen, updPc, scan>>
    BY DEF MgrStep, thrVars
  <1>7. \A c \in Clients : CliStep(c) => UNCHANGED <<seen, updPc, scan>>
    BY DEF CliStep, thrVars
  <1>8. LaunchNext => UNCHANGED <<seen, updPc, scan>>
    BY DEF LaunchNext, LaunchSignal, LaunchManager, LaunchStep, thrVars
  <1>9. Finished => UNCHANGED <<seen, updPc, scan>>
    BY DEF Finished, vars, thrVars
  <1>. QED
    BY <1>1, <1>2, <1>3, <1>4, <1>5, <1>6, <1>7, <1>8, <1>9 DEF Next

(* Published tables are never changed. *)
LEMMA HistoryGrows ==
  ASSUME TypeOK, ExchangesOK, MainOK, Next
  PROVE  /\ Len(mlts) \in Nat /\ Len(mlts) <= Len(mlts')
         /\ \A i \in 1 .. Len(mlts) : mlts'[i] = mlts[i]
  <1>0. Len(mlts) \in Nat
    BY MltsType
  <1>1. CASE MgrSend
    BY <1>1, MltsType, AppendProperties DEF MgrSend
  <1>2. MgrStep /\ ~MgrSend => UNCHANGED mlts
    BY DEF MgrStep, MgrNext, MgrWake, MgrGather, MgrGathered, MgrRelab, MgrReset, mgrChannel
  <1>3. ASSUME NEW t \in Servers, MainStep(t) PROVE UNCHANGED mlts
    BY <1>3, MainEffect DEF MainStep, mgrChannel
  <1>4. ASSUME NEW t \in Servers, HandlerStep(t) PROVE UNCHANGED mlts
    BY <1>4 DEF HandlerStep, HandlerNext, usr1_handler, usr2_handler, mgrChannel
  <1>5. ASSUME NEW t \in Servers, UpdaterStep(t) PROVE UNCHANGED mlts
    BY <1>5 DEF UpdaterStep, UpdaterNext, UpdReceive, UpdCompare, UpdSpawn, UpdJoin,
                Elsewhere, mgrChannel
  <1>6. ASSUME NEW t \in Servers, SenderStep(t) PROVE UNCHANGED mlts
    BY <1>6 DEF SenderStep, SenderNext, SndNext, SndCheck, SndPop, SndDel, SndSend, SndMark,
                SndAck, SndElsewhere, Elsewhere, mgrChannel
  <1>7. ASSUME NEW t \in Servers, ReceiverStep(t) PROVE UNCHANGED mlts
    BY <1>7 DEF ReceiverStep, ReceiverNext, RcvFinished, RcvReceive, RcvInsert, RcvPut,
                RcvState, RcvReply, RcvElsewhere, Elsewhere, mgrChannel
  <1>8. \A c \in Clients : CliStep(c) => UNCHANGED mlts
    BY DEF CliStep, mgrChannel
  <1>9. LaunchNext => UNCHANGED mlts
    BY DEF LaunchNext, LaunchSignal, LaunchManager, LaunchStep, mgrChannel
  <1>10. Finished => UNCHANGED mlts
    BY DEF Finished, vars, mgrChannel
  <1>. QED
    BY <1>0, <1>1, <1>2, <1>3, <1>4, <1>5, <1>6, <1>7, <1>8, <1>9, <1>10 DEF Next

(* No server ever goes back to an older version of a line: its updater     *)
(* takes the tables in the order they were published, and the transfer     *)
(* threads only clear the state.                                           *)
THEOREM VersionsGrow == Spec => ServerVersionsGrow
  <1>1. IndInv /\ [Next]_vars =>
          [\A s \in Servers, e \in Entries : table'[s][e].n_ver >= table[s][e].n_ver]_vars
    <2>. SUFFICES ASSUME IndInv, Next, NEW s \in Servers, NEW e \in Entries
                  PROVE  table'[s][e].n_ver >= table[s][e].n_ver
      BY DEF vars
    <2>0. /\ IndInv' /\ table[s][e].n_ver \in Nat /\ table'[s][e].n_ver \in Nat
          /\ Len(mlts) \in Nat
      <3>1. IndInv'
        BY NextIndInv
      <3>2. table[s][e] \in MltLine
        BY DEF IndInv, TypeOK, SrvTypeOK
      <3>3. table'[s][e] \in MltLine
        BY <3>1 DEF IndInv, TypeOK, SrvTypeOK
      <3>. QED
        BY <3>1, <3>2, <3>3, MltsType DEF IndInv, MltLine
    <2>1. /\ AssignmentOf(table[s][e]) = mlts[At(s, e)][e]
          /\ AssignmentOf(table'[s][e]) = mlts'[At(s, e)'][e]
      BY <2>0 DEF IndInv, TablesOK
    <2>2. /\ At(s, e) \in 1 .. Len(mlts) /\ At(s, e)' \in 1 .. Len(mlts')
          /\ Len(mlts') \in Nat
      BY <2>0, MltsType DEF IndInv, TablesOK, At, TypeOK, ChannelsTypeOK
    <2>3. At(s, e) <= At(s, e)' /\ mlts'[At(s, e)] = mlts[At(s, e)]
            /\ At(s, e) \in 1 .. Len(mlts')
      <3>1. At(s, e) <= At(s, e)'
        BY AtGrows DEF IndInv
      <3>2. Len(mlts) <= Len(mlts') /\ \A i \in 1 .. Len(mlts) : mlts'[i] = mlts[i]
        BY HistoryGrows DEF IndInv
      <3>3. Len(mlts) \in Nat
        BY MltsType DEF IndInv
      <3>. QED
        BY <2>2, <3>1, <3>2, <3>3
    <2>4. Follows(mlts'[At(s, e)][e], mlts'[At(s, e)'][e])
      BY <2>0, <2>2, <2>3 DEF IndInv, HistoryOK
    <2>. QED
      BY <2>0, <2>1, <2>3, <2>4 DEF Follows, AssignmentOf
  <1>. QED
    BY <1>1, Invariance, PTL DEF Spec, ServerVersionsGrow

-----------------------------------------------------------------------------
(* Redistributions and transfers. *)

(* The types of the variables a redistribution is made of. *)
LEMMA HandoverTypes ==
  ASSUME TypeOK
  PROVE  /\ seen \in [Servers -> Nat] /\ Last \in Nat /\ Last >= 1
         /\ updPc \in [Servers -> {"wait", "scan", "join"}]
         /\ scan \in [Servers -> 0 .. NEntry]
         /\ to_send \in [Servers -> SUBSET Entries] /\ to_receive \in [Servers -> Nat]
         /\ sndPc \in [Servers -> SndPcs] /\ sndEntry \in [Servers -> Entries]
         /\ rcvPc \in [Servers -> RcvPcs] /\ rcvFrom \in [Servers -> Servers]
         /\ rcvEntry \in [Servers -> Entries]
         /\ xfer \in [Servers -> Packet \cup {None}]
         /\ table \in [Servers -> [Entries -> MltLine]]
         /\ acks \in [Servers -> SUBSET {"USR-0", "USR-1"}]
         /\ pending \in [Servers -> {"none", "USR1", "USR2"}]
  BY DEF TypeOK, ThrTypeOK, ChannelsTypeOK, SrvTypeOK, Last

(* There is a server. *)
LEMMA SomeServer == 0 \in Servers
  BY SizesAssumption DEF Servers

-----------------------------------------------------------------------------
(* LockstepOK *)

(* launch_all.sh signals only after synchro.bash has seen all ack files.   *)
LEMMA LaunchLockstep ==
  ASSUME TypeOK, LockstepOK, LaunchNext
  PROVE  LockstepOK'
  <1>0. UNCHANGED <<seen, updPc, mlts, mgrPc>>
    BY DEF LaunchNext, LaunchSignal, LaunchManager, LaunchStep, thrVars, mgrChannel, mgrVars,
           usrHandler2
  <1>1. ASSUME NEW sig \in Signals, LaunchSignal(sig) PROVE LockstepOK'
    <2>1. /\ phase = "clients"
          /\ pending' = [s \in Servers |-> sig]
          /\ phase' = IF sig = "USR2" THEN "manager" ELSE "synchro"
          /\ UNCHANGED <<acks, update_needed>>
      BY <1>1 DEF LaunchSignal, mgrVars
    <2>2. MgrQuiet /\ UpdatersIdle /\ NoneAcked
      BY <2>1 DEF LockstepOK
    <2>3. MgrQuiet' /\ UpdatersIdle' /\ NoneAcked'
      BY <1>0, <2>1, <2>2 DEF MgrQuiet, UpdatersIdle, NoneAcked, Last
    <2>4. sig = "USR1" => phase' = "synchro"
      BY <2>1
    <2>. QED
      BY <1>0, <2>1, <2>3, <2>4, HandoverTypes DEF LockstepOK, UpdatersIdle, NoneAcked, Last
  <1>2. CASE LaunchManager
    <2>1. /\ phase = "manager" /\ phase' = "synchro"
          /\ UNCHANGED <<acks, pending>>
      BY <1>2 DEF LaunchManager, hostChannel
    <2>2. UpdatersIdle /\ NoneAcked /\ \A s \in Servers : pending[s] # "USR1"
      BY <2>1 DEF LockstepOK
    <2>. QED
      BY <1>0, <2>1, <2>2 DEF LockstepOK, UpdatersIdle, NoneAcked, Last
  <1>3. CASE LaunchStep
    <2>1. /\ \A s \in Servers : acks[s] # {}
          /\ acks' = [s \in Servers |-> {}]
          /\ phase' = "clients"
          /\ UNCHANGED <<pending, update_needed>>
      BY <1>3 DEF LaunchStep, AllAcked, mgrVars
    <2>2. UpdatersIdle
      BY <2>1 DEF LockstepOK, UpdatersIdle
    <2>3. MgrQuiet
      BY <2>1, SomeServer DEF LockstepOK, NoneAcked
    <2>4. \A s \in Servers : pending[s] # "USR1"
      BY <2>1 DEF LockstepOK
    <2>5. MgrQuiet' /\ UpdatersIdle' /\ NoneAcked'
      BY <1>0, <2>1, <2>2, <2>3 DEF MgrQuiet, UpdatersIdle, NoneAcked, Last
    <2>. QED
      BY <1>0, <2>1, <2>4, <2>5, HandoverTypes DEF LockstepOK, UpdatersIdle, NoneAcked, Last
  <1>. QED
    BY <1>1, <1>2, <1>3 DEF LaunchNext

(* Only usr1_handler acknowledges in a handler, when nothing is published. *)
LEMMA HandlerLockstep ==
  ASSUME TypeOK, LockstepOK, NEW s \in Servers, HandlerStep(s)
  PROVE  LockstepOK'
  <1>0. UNCHANGED <<seen, updPc, mlts, mgrPc, update_needed, phase>>
    BY DEF HandlerStep, HandlerNext, usr1_handler, usr2_handler, mgrChannel, mgrVars, thrVars,
           launchVars
  <1>1. /\ pending' = [pending EXCEPT ![s] = "none"]
        /\ \/ UNCHANGED acks
           \/ pending[s] = "USR1" /\ acks' = [acks EXCEPT ![s] = @ \cup {"USR-0"}]
    BY DEF HandlerStep, HandlerNext, usr1_handler, usr2_handler
  <1>2. UNCHANGED <<Last, MgrQuiet, UpdatersIdle>>
    BY <1>0 DEF Last, MgrQuiet, UpdatersIdle
  <1>3. CASE UNCHANGED acks
    BY <1>0, <1>1, <1>2, <1>3, HandoverTypes DEF LockstepOK, NoneAcked
  <1>4. CASE pending[s] = "USR1" /\ acks' = [acks EXCEPT ![s] = @ \cup {"USR-0"}]
    <2>1. phase = "synchro" /\ MgrQuiet /\ UpdatersIdle
      BY <1>4 DEF LockstepOK
    <2>. QED
      BY <1>0, <1>1, <1>2, <1>4, <2>1, HandoverTypes DEF LockstepOK, NoneAcked, UpdatersIdle
  <1>. QED
    BY <1>1, <1>3, <1>4

(* The manager publishes at most once per signal, and before any ack.      *)
LEMMA ManagerLockstep ==
  ASSUME TypeOK, LockstepOK, MgrStep
  PROVE  LockstepOK'
  <1>0. UNCHANGED <<seen, updPc, acks, pending, phase>>
    BY DEF MgrStep, thrVars, hostChannel, launchVars
  <1>1. CASE MgrSend
    <2>1. mlts' = Append(mlts, mgrTable) /\ mgrPc = "send" /\ mgrPc' = "reset"
      BY <1>1 DEF MgrSend
    <2>2. Last' = Last + 1
      BY <2>1, MltsType DEF Last
    <2>3. ~MgrQuiet /\ MgrQuiet'
      BY <2>1 DEF MgrQuiet
    <2>4. UpdatersIdle /\ NoneAcked /\ phase \notin {"clients", "manager"}
            /\ \A s \in Servers : pending[s] # "USR1"
      BY <2>3 DEF LockstepOK
    <2>. QED
      BY <1>0, <2>2, <2>3, <2>4, HandoverTypes DEF LockstepOK, UpdatersIdle, NoneAcked
  <1>2. CASE ~MgrSend
    <2>1. UNCHANGED mlts
      BY <1>2 DEF MgrStep, MgrNext, MgrWake, MgrGather, MgrGathered, MgrRelab, MgrReset,
                  mgrChannel
    <2>2. MgrQuiet' = MgrQuiet
      BY <1>2 DEF MgrStep, MgrNext, MgrWake, MgrGather, MgrGathered, MgrRelab, MgrReset,
                  MgrQuiet
    <2>. QED
      BY <1>0, <2>1, <2>2 DEF LockstepOK, UpdatersIdle, NoneAcked, Last
  <1>. QED
    BY <1>1, <1>2

(* thread_mlt_updater acknowledges the last table, and a table that is not *)
(* the last one yet finds it without an ack.                               *)
LEMMA UpdaterLockstep ==
  ASSUME TypeOK, LockstepOK, NEW s \in Servers, UpdaterStep(s)
  PROVE  LockstepOK'
  <1>0. UNCHANGED <<mlts, mgrPc, update_needed, pending, phase>>
    BY DEF UpdaterStep, UpdaterNext, UpdReceive, UpdCompare, UpdSpawn, UpdJoin, Elsewhere,
           mgrChannel, mgrVars, launchVars
  <1>1. UNCHANGED <<Last, MgrQuiet>>
    BY <1>0 DEF Last, MgrQuiet
  <1>2. CASE UpdReceive(s)
    <2>1. /\ seen[s] < Last
          /\ seen' = [seen EXCEPT ![s] = @ + 1]
          /\ updPc' = [updPc EXCEPT ![s] = "scan"]
          /\ UNCHANGED acks
      BY <1>2 DEF UpdReceive, Last
    <2>2. ~UpdatersIdle /\ acks[s] = {} /\ seen[s] = Last - 1
      BY <2>1, HandoverTypes DEF UpdatersIdle, LockstepOK
    <2>. QED
      BY <1>0, <1>1, <2>1, <2>2, HandoverTypes DEF LockstepOK
  <1>3. CASE UpdCompare(s)
    BY <1>0, <1>1, <1>3 DEF UpdCompare, LockstepOK, UpdatersIdle, NoneAcked
  <1>4. CASE UpdSpawn(s)
    <2>1. updPc[s] = "scan" /\ updPc' = [updPc EXCEPT ![s] = "join"] /\ UNCHANGED <<seen, acks>>
      BY <1>4 DEF UpdSpawn
    <2>2. ~UpdatersIdle /\ acks[s] = {} /\ seen[s] = Last
      BY <2>1, HandoverTypes DEF UpdatersIdle, LockstepOK
    <2>. QED
      BY <1>0, <1>1, <2>1, <2>2, HandoverTypes DEF LockstepOK
  <1>5. CASE UpdJoin(s)
    <2>1. /\ updPc[s] = "join" /\ updPc' = [updPc EXCEPT ![s] = "wait"] /\ UNCHANGED seen
          /\ acks' = [acks EXCEPT ![s] = @ \cup {"USR-1"}]
      BY <1>5 DEF UpdJoin
    <2>2. ~UpdatersIdle /\ seen[s] = Last
      BY <2>1, HandoverTypes DEF UpdatersIdle, LockstepOK
    <2>. QED
      BY <1>0, <1>1, <2>1, <2>2, HandoverTypes DEF LockstepOK
  <1>. QED
    BY <1>2, <1>3, <1>4, <1>5 DEF UpdaterStep, UpdaterNext

(* The other processes neither signal, publish nor acknowledge. *)
LEMMA LockstepFrame ==
  ASSUME LockstepOK, UNCHANGED <<seen, updPc, mlts, mgrPc, update_needed, acks, pending, phase>>
  PROVE  LockstepOK'
  BY DEF LockstepOK, UpdatersIdle, NoneAcked, Last, MgrQuiet

-----------------------------------------------------------------------------
(* What the other conjuncts say of a redistribution *)

(* Entries move between servers, and every line is at one of the last two  *)
(* tables.                                                                 *)
LEMMA MoveTypes ==
  ASSUME TypeOK, NEW e \in Entries, Last > 1
  PROVE  /\ mlts[Last] \in [Entries -> Assignment] /\ mlts[Last - 1] \in [Entries -> Assignment]
         /\ Old(e) \in Servers /\ New(e) \in Servers
  <1>1. Last \in 1 .. Len(mlts) /\ Last - 1 \in 1 .. Len(mlts)
    BY HandoverTypes DEF Last
  <1>2. mlts[Last] \in [Entries -> Assignment] /\ mlts[Last - 1] \in [Entries -> Assignment]
    BY <1>1 DEF TypeOK, ChannelsTypeOK
  <1>. QED
    BY <1>2 DEF Old, New, Assignment

(* There are finitely many entries. *)
LEMMA EntriesFinite == IsFiniteSet(Entries)
  BY SizesAssumption, FS_Interval DEF Entries

(* A server awaits finitely many of them. *)
LEMMA AwaitedFinite ==
  ASSUME NEW s \in Servers
  PROVE  IsFiniteSet(Awaited(s)) /\ Cardinality(Awaited(s)) \in Nat
  <1>1. Awaited(s) \subseteq Entries
    BY DEF Awaited
  <1>. QED
    BY <1>1, EntriesFinite, FS_Subset, FS_CardinalityType

(* When every updater is back at its socket, nothing is in transfer: a     *)
(* thread that failed would have kept the updater of its peer waiting.     *)
LEMMA SettledLines ==
  ASSUME TypeOK, ThreadsOK, SendersOK, ReceiversOK, LinesOK, CountsOK, UpdatersIdle
  PROVE  /\ \A s \in Servers : xfer[s] = None
         /\ \A s \in Servers, e \in Entries : table[s][e].state # 1
  <1>1. \A s \in Servers : xfer[s] = None
    BY DEF ThreadsOK, UpdatersIdle, Ended
  <1>2. ASSUME NEW s \in Servers, NEW e \in Entries, table[s][e].state = 1 PROVE FALSE
    <2>1. Moves(e) /\ s \in {Old(e), New(e)} /\ (s = Old(e) => e \in to_send[s])
      BY <1>2 DEF LinesOK
    <2>2. Last > 1 /\ Old(e) \in Servers /\ New(e) \in Servers
      BY <2>1, MoveTypes DEF Moves
    <2>. DEFINE t == New(e)
    <2>3. rcvPc[t] \in Ended /\ rcvPc[t] # "failed"
      BY <1>1, <2>2, HandoverTypes DEF ReceiversOK, UpdatersIdle
    <2>4. to_receive[t] = 0
      BY <2>2, <2>3 DEF ReceiversOK, UpdatersIdle, Ended
    <2>5. Awaited(t) = {}
      BY <2>2, <2>4, AwaitedFinite, FS_EmptySet DEF CountsOK, UpdatersIdle
    <2>6. At(t, e) = Last
      BY <2>2 DEF At, UpdatersIdle
    <2>7. Given(e)
      BY <2>1, <2>5, <2>6 DEF Awaited
    <2>8. e \notin to_send[Old(e)]
      BY <1>1, <2>2, <2>7 DEF Given
    <2>9. table[t][e].state = 0
      BY <2>1, <2>7 DEF LinesOK
    <2>. QED
      BY <1>2, <2>1, <2>8, <2>9
  <1>. QED
    BY <1>1, <1>2

(* What these conjuncts speak about. *)
handoverVars == <<mlts, seen, updPc, scan, to_send, to_receive, sndPc, sndEntry, xfer, rcvPc,
                  rcvFrom, rcvEntry, table>>

(* Steps that change none of the variables these conjuncts speak of. *)
LEMMA HandoverFrame ==
  ASSUME UNCHANGED handoverVars
  PROVE  /\ SendersOK => SendersOK'
         /\ ReceiversOK => ReceiversOK'
         /\ LinesOK => LinesOK'
         /\ CountsOK => CountsOK'
  <1>1. UNCHANGED <<Last, mlts, to_send, to_receive, sndPc, sndEntry, xfer, rcvPc, rcvFrom,
                    rcvEntry, table, seen, updPc>>
    BY DEF handoverVars, Last
  <1>2. \A s, e : At(s, e)' = At(s, e)
    BY DEF handoverVars, At
  <1>3. \A e : Moves(e)' = Moves(e) /\ Old(e)' = Old(e) /\ New(e)' = New(e)
    BY <1>1 DEF Moves, Old, New
  <1>4. \A e : Given(e)' = Given(e)
    BY <1>1, <1>2, <1>3 DEF Given
  <1>5. \A s : Awaited(s)' = Awaited(s)
    BY <1>1, <1>2, <1>3, <1>4 DEF Awaited
  <1>6. SendersOK => SendersOK'
    BY <1>1, <1>2, <1>3 DEF SendersOK
  <1>7. ReceiversOK => ReceiversOK'
    BY <1>1 DEF ReceiversOK
  <1>8. LinesOK => LinesOK'
    BY <1>1, <1>2, <1>3, <1>4 DEF LinesOK
  <1>9. CountsOK => CountsOK'
    BY <1>1, <1>5 DEF CountsOK
  <1>. QED
    BY <1>6, <1>7, <1>8, <1>9

-----------------------------------------------------------------------------
(* The manager *)

(* manager_calculate_relab starts from the last published table.           *)
LEMMA ManagerMoves ==
  ASSUME TypeOK, HistoryOK, MovesOK, MgrStep
  PROVE  MovesOK'
  <1>0. Last \in Nat /\ Last >= 1 /\ mlts[Last] \in [Entries -> Assignment]
    BY MltsType DEF Last
  <1>1. CASE MgrRelab
    <2>1. mgrPc = "relab" /\ UNCHANGED mlts
      BY <1>1 DEF MgrRelab, mgrChannel
    <2>2. mgrTable = mlts[Last]
      BY <2>1 DEF HistoryOK, Last
    <2>3. \E new \in Relab(mlts[Last]) :
             mgrTable' = [e \in Entries |-> Reassign(mlts[Last][e], new[e])]
      BY <1>1, <2>2, Zenon DEF MgrRelab
    <2>. QED
      BY <2>1, <2>3 DEF MovesOK, Moves, Old, New, Last
  <1>2. CASE MgrSend
    <2>1. /\ mgrPc = "send" /\ mgrPc' = "reset"
          /\ mlts' = Append(mlts, mgrTable)
      BY <1>2 DEF MgrSend
    <2>2. PICK new \in Relab(mlts[Last]) :
             mgrTable = [e \in Entries |-> Reassign(mlts[Last][e], new[e])]
      BY <2>1 DEF MovesOK
    <2>3. Last' = Last + 1 /\ Last' - 1 = Last /\ mlts'[Last'] = mgrTable
            /\ mlts'[Last' - 1] = mlts[Last]
      BY <1>0, <2>1, MltsType DEF Last
    <2>4. ASSUME NEW e \in Entries, Moves(e)'
          PROVE  mlts'[Last' - 1][e].n_ver # mlts'[Last'][e].n_ver
                   /\ Old(e)' # New(e)'
      <3>. DEFINE line == mlts[Last][e]
      <3>1. mlts'[Last'][e] = Reassign(line, new[e]) /\ mlts'[Last' - 1][e] = line
        BY <2>2, <2>3
      <3>2. line # Reassign(line, new[e]) /\ line \in Assignment
        BY <1>0, <2>4, <3>1 DEF Moves
      <3>3. Reassign(line, new[e]).n_ver # line.n_ver /\ Reassign(line, new[e]).id_srv # line.id_srv
        BY <3>2 DEF Reassign, Assignment
      <3>. QED
        BY <3>1, <3>3 DEF Old, New
    <2>5. mgrPc' # "send"
      BY <2>1
    <2>. QED
      BY <2>4, <2>5 DEF MovesOK
  <1>3. CASE MgrNext /\ ~MgrRelab /\ ~MgrSend
    <2>1. UNCHANGED <<mlts, mgrTable>> /\ mgrPc' # "send"
      BY <1>3 DEF MgrNext, MgrWake, MgrGather, MgrGathered, MgrReset, mgrChannel
    <2>. QED
      BY <2>1 DEF MovesOK, Moves, Old, New, Last
  <1>. QED
    BY <1>1, <1>2, <1>3 DEF MgrStep

(* When the manager publishes, nothing of the last redistribution is left. *)
LEMMA ManagerHandover ==
  ASSUME TypeOK, ThreadsOK, LockstepOK, SendersOK, ReceiversOK, LinesOK, CountsOK, MgrStep
  PROVE  SendersOK' /\ ReceiversOK' /\ LinesOK' /\ CountsOK'
  <1>0. UNCHANGED <<xfer, thrVars, table>>
    BY DEF MgrStep, srvVars
  <1>1. CASE MgrSend
    <2>1. Last' = Last + 1
      BY <1>1, MltsType DEF MgrSend, Last
    <2>2. ~MgrQuiet
      BY <1>1 DEF MgrSend, MgrQuiet
    <2>3. UpdatersIdle
      BY <2>2 DEF LockstepOK
    <2>4. /\ \A s \in Servers : xfer[s] = None
          /\ \A s \in Servers, e \in Entries : table[s][e].state # 1
      BY <2>3, SettledLines
    <2>5. \A s \in Servers : /\ seen'[s] < Last'
                             /\ updPc'[s] = "wait"
                             /\ sndPc'[s] \in Ended \cup {"off"}
                             /\ rcvPc'[s] \in Ended \cup {"off"}
      BY <1>0, <2>1, <2>3, HandoverTypes DEF UpdatersIdle, ThreadsOK, thrVars
    <2>6. \A s \in Servers, e \in Entries : At(s, e)' # Last'
      BY <2>5, <1>0, HandoverTypes DEF At, thrVars
    <2>7. SendersOK'
      BY <1>0, <2>4, <2>5, HandoverTypes DEF SendersOK, Sending, Ended, thrVars
    <2>8. ReceiversOK'
      BY <1>0, <2>5 DEF ReceiversOK, Ended, thrVars
    <2>9. \A e \in Entries : Moves(e)' => Old(e)' \in Servers /\ New(e)' \in Servers
      <3>1. mlts' = Append(mlts, mgrTable)
        BY <1>1 DEF MgrSend
      <3>2. mlts'[Last'] = mgrTable /\ mlts'[Last' - 1] = mlts[Last]
        BY <2>1, <3>1, MltsType DEF Last
      <3>3. mgrTable \in [Entries -> Assignment] /\ mlts[Last] \in [Entries -> Assignment]
        BY MltsType DEF Last
      <3>. QED
        BY <3>2, <3>3 DEF Old, New, Assignment
    <2>10. LinesOK'
      BY <1>0, <2>4, <2>6, <2>9 DEF LinesOK, Given
    <2>11. CountsOK'
      BY <2>5, <2>1, HandoverTypes DEF CountsOK
    <2>. QED
      BY <2>7, <2>8, <2>10, <2>11
  <1>2. CASE ~MgrSend
    <2>1. UNCHANGED handoverVars
      BY <1>0, <1>2 DEF MgrStep, MgrNext, MgrWake, MgrGather, MgrGathered, MgrRelab, MgrReset,
                        mgrChannel, handoverVars, thrVars
    <2>. QED
      BY <2>1, HandoverFrame
  <1>. QED
    BY <1>1, <1>2

-----------------------------------------------------------------------------
(* thread_mlt_updater *)

(* While no table is sent, the same entries move. *)
LEMMA SameMoves ==
  ASSUME UNCHANGED mlts
  PROVE  /\ Last' = Last
         /\ \A e : Moves(e)' = Moves(e) /\ Old(e)' = Old(e) /\ New(e)' = New(e)
  BY DEF Last, Moves, Old, New

(* A table has arrived: the server's lines are still at the one before.    *)
LEMMA ReceiveHandover ==
  ASSUME TypeOK, ThreadsOK, LockstepOK, SendersOK, ReceiversOK, LinesOK, CountsOK,
         NEW s \in Servers, UpdReceive(s)
  PROVE  SendersOK' /\ ReceiversOK' /\ LinesOK' /\ CountsOK'
  <1>1. /\ updPc[s] = "wait" /\ seen[s] < Last
        /\ seen' = [seen EXCEPT ![s] = @ + 1]
        /\ scan' = [scan EXCEPT ![s] = 0]
        /\ to_send' = [to_send EXCEPT ![s] = {}]
        /\ to_receive' = [to_receive EXCEPT ![s] = 0]
        /\ updPc' = [updPc EXCEPT ![s] = "scan"]
        /\ UNCHANGED <<mlts, xfer, table, sndPc, sndEntry, rcvPc, rcvFrom, rcvEntry>>
    BY DEF UpdReceive, Last, Elsewhere, mgrChannel, srvVars, sndVars, rcvVars
  <1>2. seen[s] = Last - 1
    BY <1>1, HandoverTypes DEF LockstepOK
  <1>3. sndPc[s] \in Ended \cup {"off"}
    BY <1>1 DEF ThreadsOK
  <1>4. /\ Last' = Last
        /\ \A e : Moves(e)' = Moves(e) /\ Old(e)' = Old(e) /\ New(e)' = New(e)
    BY <1>1, SameMoves
  <1>5. ASSUME NEW e \in Entries
        PROVE  /\ At(s, e) = Last - 1 /\ At(s, e)' = Last - 1
               /\ \A t \in Servers \ {s} : At(t, e)' = At(t, e)
    BY <1>1, <1>2, HandoverTypes DEF At, Entries
  <1>6. ASSUME NEW e \in Entries, Moves(e) PROVE Given(e)' = Given(e)
    <2>1. Old(e) \in Servers
      BY <1>6, MoveTypes DEF Moves
    <2>2. CASE Old(e) = s
      BY <1>4, <1>5, <2>2, HandoverTypes DEF Given
    <2>3. CASE Old(e) # s
      BY <1>1, <1>4, <1>5, <2>1, <2>3, HandoverTypes DEF Given
    <2>. QED
      BY <2>2, <2>3
  <1>7. SendersOK'
    BY <1>1, <1>3, <1>4, <1>5, HandoverTypes DEF SendersOK, Sending, Ended
  <1>8. ReceiversOK'
    BY <1>1, HandoverTypes DEF ReceiversOK
  <1>9. LinesOK'
    <2>1. \A t \in Servers, e \in Entries : table[t][e].state = 1 => t # s
      BY <1>5, HandoverTypes DEF LinesOK
    <2>2. \A t \in Servers \ {s} : to_send'[t] = to_send[t]
      BY <1>1, HandoverTypes
    <2>3. \A t \in Servers, e \in Entries : At(t, e)' = At(t, e)
      BY <1>5
    <2>4. \A e \in Entries : Moves(e) => Old(e) \in Servers /\ New(e) \in Servers
      BY MoveTypes DEF Moves
    <2>. QED
      BY <1>1, <1>4, <1>6, <2>1, <2>2, <2>3, <2>4 DEF LinesOK
  <1>10. CountsOK'
    <2>1. Awaited(s)' = {}
      BY <1>4, <1>5, HandoverTypes DEF Awaited
    <2>2. ASSUME NEW t \in Servers \ {s} PROVE Awaited(t)' = Awaited(t)
      BY <1>4, <1>5, <1>6 DEF Awaited
    <2>. QED
      BY <1>1, <1>4, <2>1, <2>2, FS_EmptySet, HandoverTypes DEF CountsOK
  <1>. QED
    BY <1>7, <1>8, <1>9, <1>10

(* The updater brings one line to the last table.  An entry that moved     *)
(* joins the to-do list of the server that lost it; the one that gets it   *)
(* counts one more packet, which nobody has answered yet.                  *)
LEMMA CompareHandover ==
  ASSUME TypeOK, ThreadsOK, TablesOK, LockstepOK, MovesOK, SendersOK, ReceiversOK, LinesOK,
         CountsOK, NEW s \in Servers, NEW i \in Entries, scan[s] = i, UpdCompare(s)
  PROVE  SendersOK' /\ ReceiversOK' /\ LinesOK' /\ CountsOK'
  <1>. DEFINE old == table[s][i]
              new == mlts[seen[s]][i]
  <1>0. /\ updPc[s] = "scan"
        /\ scan' = [scan EXCEPT ![s] = i + 1]
        /\ UNCHANGED <<mlts, seen, updPc, xfer, sndPc, sndEntry, rcvPc, rcvFrom, rcvEntry>>
    BY DEF UpdCompare, Elsewhere, mgrChannel, sndVars, rcvVars
  <1>1. /\ seen[s] = Last /\ Last > 1 /\ sndPc[s] \in Ended \cup {"off"}
        /\ xfer[s] = None
    <2>1. sndPc[s] \in Ended \cup {"off"}
      BY <1>0 DEF ThreadsOK
    <2>2. xfer[s] = None
      BY <2>1 DEF ThreadsOK, Ended
    <2>. QED
      BY <1>0, <2>1, <2>2, HandoverTypes DEF LockstepOK, TablesOK
  <1>2. /\ Last' = Last
        /\ \A e : Moves(e)' = Moves(e) /\ Old(e)' = Old(e) /\ New(e)' = New(e)
    BY <1>0, SameMoves
  <1>3. /\ At(s, i) = Last - 1 /\ At(s, i)' = Last
        /\ \A t \in Servers, e \in Entries : t # s \/ e # i => At(t, e)' = At(t, e)
    BY <1>0, <1>1, HandoverTypes DEF At, Entries
  <1>4. AssignmentOf(old) = mlts[Last - 1][i] /\ old \in MltLine /\ new = mlts[Last][i]
    BY <1>1, <1>3, HandoverTypes DEF TablesOK
  <1>5. /\ old.id_srv = Old(i) /\ old.n_ver = mlts[Last - 1][i].n_ver /\ new.id_srv = New(i)
        /\ Old(i) \in Servers /\ New(i) \in Servers
    BY <1>1, <1>4, MoveTypes DEF AssignmentOf, Old, New
  <1>6. old.n_ver # new.n_ver <=> Moves(i)
    BY <1>1, <1>4, <1>5 DEF MovesOK, Moves
  <1>7. CASE ~Moves(i)
    <2>1. UNCHANGED <<table, to_send, to_receive>>
      BY <1>6, <1>7 DEF UpdCompare
    <2>2. \A e \in Entries : Moves(e) =>
            /\ \A t \in Servers : At(t, e)' = At(t, e)
            /\ Old(e) \in Servers /\ New(e) \in Servers
      BY <1>3, <1>7, MoveTypes DEF Moves
    <2>3. \A e \in Entries : Moves(e) => Given(e)' = Given(e)
      BY <1>0, <1>2, <2>1, <2>2 DEF Given
    <2>4. SendersOK'
      BY <1>0, <1>2, <2>1, <2>2, HandoverTypes DEF SendersOK
    <2>5. ReceiversOK'
      BY <1>0, <2>1 DEF ReceiversOK
    <2>6. LinesOK'
      BY <1>2, <1>0, <2>1, <2>2, <2>3 DEF LinesOK
    <2>7. \A t \in Servers : Awaited(t)' = Awaited(t)
      BY <1>2, <2>2, <2>3 DEF Awaited
    <2>. QED
      BY <1>0, <1>2, <2>1, <2>4, <2>5, <2>6, <2>7 DEF CountsOK
  <1>8. CASE Moves(i)
    <2>. DEFINE line == [id_srv |-> New(i), n_ver |-> new.n_ver,
                         state |-> StateAfter(s, Old(i), New(i))]
    <2>1. /\ table' = [table EXCEPT ![s] = mlt_update_entry(@, i, New(i), new.n_ver,
                                                          StateAfter(s, Old(i), New(i)))]
          /\ to_send' = IF Old(i) = s THEN [to_send EXCEPT ![s] = @ \cup {i}] ELSE to_send
          /\ to_receive' = IF Old(i) # s /\ New(i) = s
                           THEN [to_receive EXCEPT ![s] = @ + 1] ELSE to_receive
      BY <1>5, <1>6, <1>8, Zenon DEF UpdCompare
    <2>. HIDE DEF old, new
    <2>2. Old(i) # New(i)
      BY <1>1, <1>8 DEF MovesOK
    <2>3. /\ table'[s][i] = line
          /\ \A t \in Servers, e \in Entries : t # s \/ e # i => table'[t][e] = table[t][e]
      BY <1>1, <2>1, HandoverTypes DEF mlt_update_entry
    <2>4. line.state = 1 <=> s \in {Old(i), New(i)}
      BY DEF StateAfter
    <2>5. /\ \A t \in Servers, e \in Entries : t # s \/ e # i =>
               (e \in to_send'[t] <=> e \in to_send[t])
          /\ i \in to_send'[s] <=> Old(i) = s \/ i \in to_send[s]
          /\ \A t \in Servers : to_send'[t] \subseteq Entries
      BY <1>1, <2>1, HandoverTypes
    <2>6. \A e \in Entries : Moves(e) => Old(e) \in Servers /\ New(e) \in Servers
      BY MoveTypes DEF Moves
    <2>7. ASSUME NEW e \in Entries, Moves(e) PROVE Given(e)' <=> Given(e)
      <3>1. CASE e = i /\ Old(i) = s
        BY <1>0, <1>1, <1>2, <1>3, <2>5, <3>1, HandoverTypes DEF Given
      <3>2. CASE e # i \/ Old(i) # s
        BY <1>0, <1>2, <1>3, <2>5, <2>6, <2>7, <3>2 DEF Given
      <3>. QED
        BY <3>1, <3>2
    <2>8. New(i) = s => ~Given(i)
      BY <1>1, <1>3, <1>8, HandoverTypes DEF LinesOK
    <2>9. SendersOK'
      <3>1. \A e \in to_send'[s] : Moves(e) /\ Old(e) = s /\ At(s, e)' = Last
        BY <1>1, <1>3, <1>8, <2>5 DEF SendersOK
      <3>2. \A t \in Servers \ {s} : seen[t] = Last =>
              \A e \in to_send'[t] : Moves(e) /\ Old(e) = t /\ At(t, e)' = Last
        BY <1>3, <2>5, HandoverTypes DEF SendersOK
      <3>3. \A t \in Servers : sndPc[t] \in Sending => sndEntry[t] \in to_send'[t]
        BY <1>1, <2>5, HandoverTypes DEF SendersOK, Sending, Ended
      <3>. QED
        BY <1>0, <1>2, <3>1, <3>2, <3>3 DEF SendersOK
    <2>10. ReceiversOK'
      <3>1. \A t \in Servers : rcvPc[t] = "reply" => table'[t][rcvEntry[t]] = table[t][rcvEntry[t]]
        <4>1. rcvPc[s] # "reply"
          BY <1>0 DEF ThreadsOK, Ended
        <4>. QED
          BY <2>3, <4>1, HandoverTypes
      <3>2. \A t \in Servers : t # s => to_receive'[t] = to_receive[t]
        BY <2>1, HandoverTypes
      <3>. QED
        BY <1>0, <3>1, <3>2 DEF ReceiversOK
    <2>11. LinesOK'
      <3>1. ASSUME NEW e \in Entries, NEW t \in Servers, table'[t][e].state = 1
            PROVE  /\ Moves(e) /\ At(t, e)' = Last /\ t \in {Old(e), New(e)}
                   /\ t = Old(e) => e \in to_send'[t] /\ ~(sndPc[t] = "ack" /\ sndEntry[t] = e)
        <4>1. CASE t = s /\ e = i
          BY <1>1, <1>3, <1>8, <2>3, <2>4, <2>5, <3>1, <4>1 DEF Ended
        <4>2. CASE t # s \/ e # i
          BY <1>3, <2>3, <2>5, <3>1, <4>2 DEF LinesOK
        <4>. QED
          BY <4>1, <4>2
      <3>2. ASSUME NEW e \in Entries, Moves(e), At(New(e), e)' = Last,
                   table'[New(e)][e].state = 0
            PROVE  At(Old(e), e)' = Last
        <4>1. ~(e = i /\ New(e) = s)
          BY <2>3, <2>4, <3>2
        <4>2. At(Old(e), e) = Last
          BY <1>2, <1>3, <2>3, <2>6, <3>2, <4>1 DEF LinesOK
        <4>. QED
          BY <1>2, <1>3, <2>6, <3>2, <4>2
      <3>3. ASSUME NEW e \in Entries, Moves(e), Given(e)'
            PROVE  At(New(e), e)' = Last /\ table'[New(e)][e].state = 0
        <4>1. At(New(e), e) = Last /\ table[New(e)][e].state = 0
          BY <2>7, <3>3 DEF LinesOK
        <4>2. ~(e = i /\ New(e) = s)
          BY <1>3, <4>1, HandoverTypes
        <4>. QED
          BY <1>2, <1>3, <2>3, <2>6, <3>3, <4>1, <4>2
      <3>. QED
        BY <1>0, <1>2, <3>1, <3>2, <3>3 DEF LinesOK
    <2>12. CountsOK'
      <3>1. \A t \in Servers \ {s} : Awaited(t)' = Awaited(t)
        BY <1>2, <1>3, <2>7 DEF Awaited
      <3>2. CASE New(i) = s
        <4>1. Awaited(s)' = Awaited(s) \cup {i} /\ i \notin Awaited(s)
          BY <1>1, <1>2, <1>3, <1>8, <2>7, <2>8, <3>2, HandoverTypes DEF Awaited
        <4>2. Cardinality(Awaited(s)') = Cardinality(Awaited(s)) + 1
          BY <4>1, AwaitedFinite, FS_AddElement
        <4>3. to_receive'[s] = to_receive[s] + 1 /\ \A t \in Servers \ {s} : to_receive'[t] = to_receive[t]
          BY <2>1, <2>2, <3>2, HandoverTypes
        <4>. QED
          BY <1>0, <1>2, <3>1, <4>2, <4>3 DEF CountsOK
      <3>3. CASE New(i) # s
        <4>1. Awaited(s)' = Awaited(s)
          BY <1>2, <1>3, <2>7, <3>3 DEF Awaited
        <4>. QED
          BY <1>0, <1>2, <2>1, <3>1, <3>3, <4>1 DEF CountsOK
      <3>. QED
        BY <3>2, <3>3
    <2>. QED
      BY <2>9, <2>10, <2>11, <2>12
  <1>. QED
    BY <1>7, <1>8

(* The transfer threads start when every line is compared, and the updater *)
(* goes back to its socket when both have ended: no line moves.            *)
LEMMA JoinHandover ==
  ASSUME TypeOK, ThreadsOK, LockstepOK, SendersOK, ReceiversOK, LinesOK, CountsOK,
         NEW s \in Servers, UpdSpawn(s) \/ UpdJoin(s)
  PROVE  SendersOK' /\ ReceiversOK' /\ LinesOK' /\ CountsOK'
  <1>1. /\ UNCHANGED <<mlts, seen, scan, to_send, to_receive, sndEntry, xfer, rcvFrom, rcvEntry,
                       table>>
        /\ \/ /\ updPc[s] = "scan" /\ scan[s] = NEntry /\ updPc' = [updPc EXCEPT ![s] = "join"]
              /\ sndPc' = [sndPc EXCEPT ![s] = "next"] /\ rcvPc' = [rcvPc EXCEPT ![s] = "recv"]
           \/ /\ updPc[s] = "join" /\ updPc' = [updPc EXCEPT ![s] = "wait"]
              /\ sndPc[s] \in Ended /\ rcvPc[s] \in Ended /\ UNCHANGED <<sndPc, rcvPc>>
    BY DEF UpdSpawn, UpdJoin, Elsewhere, mgrChannel, srvVars, sndVars, rcvVars
  <1>2. /\ Last' = Last
        /\ \A e : Moves(e)' = Moves(e) /\ Old(e)' = Old(e) /\ New(e)' = New(e)
    BY <1>1, SameMoves
  <1>3. \A t \in Servers, e \in Entries : At(t, e)' = At(t, e)
    BY SMTT(20), <1>1, HandoverTypes, SizesAssumption DEF At, Entries
  <1>4. \A e \in Entries : Moves(e) => Old(e) \in Servers /\ New(e) \in Servers
    BY MoveTypes DEF Moves
  <1>5. \A e \in Entries : Moves(e) => Given(e)' = Given(e)
    BY <1>1, <1>2, <1>3, <1>4 DEF Given
  <1>6. \A t \in Servers : Awaited(t)' = Awaited(t)
    BY <1>2, <1>3, <1>5 DEF Awaited
  <1>7. SendersOK'
    BY <1>1, <1>2, <1>3, HandoverTypes DEF SendersOK, Sending
  <1>8. ReceiversOK'
    BY <1>1, HandoverTypes DEF ReceiversOK
  <1>9. LinesOK'
    <2>1. \A t \in Servers : sndPc'[t] = "ack" => sndPc[t] = "ack"
      BY <1>1, HandoverTypes
    <2>. QED
      BY <1>1, <1>2, <1>3, <1>4, <1>5, <2>1 DEF LinesOK
  <1>10. CountsOK'
    BY <1>1, <1>2, <1>6 DEF CountsOK
  <1>. QED
    BY <1>7, <1>8, <1>9, <1>10

-----------------------------------------------------------------------------
(* The transfer threads *)

(* What no transfer thread changes. *)
LEMMA ThreadFrame ==
  ASSUME TypeOK, UNCHANGED <<mlts, seen, updPc, scan>>
  PROVE  /\ Last' = Last
         /\ \A e : Moves(e)' = Moves(e) /\ Old(e)' = Old(e) /\ New(e)' = New(e)
         /\ \A t, e : At(t, e)' = At(t, e)
         /\ \A e \in Entries : Moves(e) => Old(e) \in Servers /\ New(e) \in Servers
  BY SameMoves, MoveTypes DEF At, Moves

(* A sender at work has an entry of its list, which the server lost in the *)
(* last redistribution.                                                    *)
LEMMA SenderEntry ==
  ASSUME TypeOK, ThreadsOK, LockstepOK, SendersOK, NEW s \in Servers, sndPc[s] \in Sending
  PROVE  /\ updPc[s] = "join" /\ seen[s] = Last
         /\ sndEntry[s] \in to_send[s] /\ sndEntry[s] \in Entries
         /\ Moves(sndEntry[s]) /\ Old(sndEntry[s]) = s /\ At(s, sndEntry[s]) = Last
  <1>1. updPc[s] = "join"
    BY DEF ThreadsOK, Sending, Ended
  <1>2. seen[s] = Last
    BY <1>1 DEF LockstepOK
  <1>. QED
    BY <1>1, <1>2, HandoverTypes DEF SendersOK

(* The sender drains the list of an entry: nothing else changes. *)
LEMMA DrainHandover ==
  ASSUME TypeOK, ThreadsOK, LockstepOK, SendersOK, ReceiversOK, LinesOK, CountsOK,
         NEW s \in Servers, SndCheck(s) \/ SndPop(s) \/ SndDel(s)
  PROVE  SendersOK' /\ ReceiversOK' /\ LinesOK' /\ CountsOK'
  <1>1. /\ UNCHANGED <<mlts, seen, updPc, scan, to_send, to_receive, sndEntry, xfer, rcvPc, rcvFrom,
                       rcvEntry, table>>
        /\ sndPc[s] \in {"check", "pop", "del"}
        /\ \E pc \in {"check", "pop", "del", "send", "failed"} : sndPc' = [sndPc EXCEPT ![s] = pc]
    <2>1. /\ UNCHANGED <<mlts, seen, updPc, scan, to_send, to_receive, sndEntry, xfer, rcvPc,
                         rcvFrom, rcvEntry, table>>
          /\ sndPc[s] \in {"check", "pop", "del"}
      BY DEF SndCheck, SndPop, SndDel, SndAt, SndElsewhere, Elsewhere, mgrChannel, srvVars, updVars,
             rcvVars, sharedVars
    <2>2. sndPc' = [sndPc EXCEPT ![s] = sndPc[s]] \/
          \E pc \in {"check", "pop", "del", "send", "failed"} : sndPc' = [sndPc EXCEPT ![s] = pc]
      BY HandoverTypes DEF SndCheck, SndPop, SndDel, SndGoto
    <2>. QED
      BY <2>1, <2>2
  <1>2. /\ Last' = Last
        /\ \A e : Moves(e)' = Moves(e) /\ Old(e)' = Old(e) /\ New(e)' = New(e)
        /\ \A t, e : At(t, e)' = At(t, e)
        /\ \A e \in Entries : Moves(e) => Old(e) \in Servers /\ New(e) \in Servers
    BY <1>1, ThreadFrame
  <1>3. updPc[s] = "join" /\ sndEntry[s] \in to_send[s]
    BY <1>1, SenderEntry DEF Sending
  <1>4. \A e \in Entries : Given(e)' = Given(e)
    BY <1>1, <1>2 DEF Given
  <1>5. SendersOK'
    BY <1>1, <1>2, <1>3, HandoverTypes DEF SendersOK
  <1>6. ReceiversOK'
    BY <1>1 DEF ReceiversOK
  <1>7. LinesOK'
    <2>1. \A t \in Servers : sndPc'[t] = "ack" => sndPc[t] = "ack"
      BY <1>1, HandoverTypes
    <2>. QED
      BY <1>1, <1>2, <1>4, <2>1 DEF LinesOK
  <1>8. CountsOK'
    BY <1>1, <1>2, <1>4 DEF CountsOK, Awaited
  <1>. QED
    BY <1>5, <1>6, <1>7, <1>8

(* The sender takes the next entry of its list, or is done. *)
LEMMA NextHandover ==
  ASSUME TypeOK, ThreadsOK, LockstepOK, SendersOK, ReceiversOK, LinesOK, CountsOK,
         NEW s \in Servers, SndNext(s)
  PROVE  SendersOK' /\ ReceiversOK' /\ LinesOK' /\ CountsOK'
  <1>1. /\ UNCHANGED <<mlts, seen, updPc, scan, to_send, to_receive, xfer, rcvPc, rcvFrom, rcvEntry,
                       table>>
        /\ sndPc[s] = "next"
        /\ \/ sndPc' = [sndPc EXCEPT ![s] = "done"] /\ UNCHANGED sndEntry
           \/ \E e \in to_send[s] : /\ sndPc' = [sndPc EXCEPT ![s] = "check"]
                                    /\ sndEntry' = [sndEntry EXCEPT ![s] = e]
    BY DEF SndNext, SndAt, SndGoto, SndElsewhere, Elsewhere, mgrChannel, srvVars, updVars, rcvVars,
           NextToSend
  <1>2. /\ Last' = Last
        /\ \A e : Moves(e)' = Moves(e) /\ Old(e)' = Old(e) /\ New(e)' = New(e)
        /\ \A t, e : At(t, e)' = At(t, e)
        /\ \A e \in Entries : Moves(e) => Old(e) \in Servers /\ New(e) \in Servers
    BY <1>1, ThreadFrame
  <1>3. xfer[s] = None /\ updPc[s] = "join"
    BY <1>1 DEF ThreadsOK, Ended
  <1>4. \A t \in Servers : /\ t # s => sndPc'[t] = sndPc[t] /\ sndEntry'[t] = sndEntry[t]
                           /\ sndPc'[t] = "ack" => sndPc[t] = "ack" /\ t # s
                           /\ sndPc'[s] \in Sending => sndEntry'[s] \in to_send[s]
    BY <1>1, HandoverTypes DEF Sending
  <1>5. \A e \in Entries : Moves(e) => Given(e)' = Given(e)
    BY <1>1, <1>2, <1>3, <1>4 DEF Given
  <1>6. SendersOK'
    BY <1>1, <1>2, <1>3, <1>4 DEF SendersOK
  <1>7. ReceiversOK'
    BY <1>1 DEF ReceiversOK
  <1>8. LinesOK'
    BY <1>1, <1>2, <1>4, <1>5 DEF LinesOK
  <1>9. CountsOK'
    BY <1>1, <1>2, <1>5 DEF CountsOK, Awaited
  <1>. QED
    BY <1>6, <1>7, <1>8, <1>9

(* The packet goes to the server the entry moved to. *)
LEMMA SendHandover ==
  ASSUME TypeOK, ThreadsOK, TablesOK, LockstepOK, SendersOK, ReceiversOK, LinesOK, CountsOK,
         NEW s \in Servers, SndSend(s)
  PROVE  SendersOK' /\ ReceiversOK' /\ LinesOK' /\ CountsOK'
  <1>. DEFINE e0 == sndEntry[s]
              p  == [status |-> "sent", to |-> table[s][e0].id_srv, entry |-> e0,
                     names |-> sndNames[s]]
  <1>1. /\ UNCHANGED <<mlts, seen, updPc, scan, to_send, to_receive, sndEntry, rcvPc, rcvFrom,
                       rcvEntry, table>>
        /\ sndPc[s] = "send" /\ sndPc' = [sndPc EXCEPT ![s] = "mark"]
        /\ xfer' = [xfer EXCEPT ![s] = p]
    BY DEF SndSend, SndAt, SndGoto, SndElsewhere, Elsewhere, mgrChannel, sharedVars, updVars, rcvVars
  <1>2. /\ Last' = Last
        /\ \A e : Moves(e)' = Moves(e) /\ Old(e)' = Old(e) /\ New(e)' = New(e)
        /\ \A t, e : At(t, e)' = At(t, e)
        /\ \A e \in Entries : Moves(e) => Old(e) \in Servers /\ New(e) \in Servers
    BY <1>1, ThreadFrame
  <1>3. xfer[s] = None
    BY <1>1 DEF ThreadsOK
  <1>4. /\ updPc[s] = "join" /\ e0 \in to_send[s] /\ e0 \in Entries /\ At(s, e0) = Last
    BY <1>1, SenderEntry DEF Sending
  <1>5. table[s][e0].id_srv = New(e0)
    <2>1. AssignmentOf(table[s][e0]) = mlts[Last][e0]
      BY <1>4 DEF TablesOK
    <2>2. AssignmentOf(table[s][e0]).id_srv = table[s][e0].id_srv
      BY DEF AssignmentOf
    <2>. QED
      BY <2>1, <2>2 DEF New
  <1>6. p.status = "sent" /\ p.to = New(e0) /\ p.entry = e0
    BY <1>5
  <1>7. xfer'[s] = p /\ \A t \in Servers \ {s} : xfer'[t] = xfer[t]
    BY <1>1, HandoverTypes
  <1>. HIDE DEF p
  <1>8. \A e \in Entries : Moves(e) => Given(e)' = Given(e)
    BY <1>1, <1>2, <1>3, <1>6, <1>7 DEF Given
  <1>9. SendersOK'
    BY <1>1, <1>2, <1>4, <1>6, <1>7, HandoverTypes DEF SendersOK
  <1>10. ReceiversOK'
    <2>1. \A t \in Servers : rcvPc[t] \in {"insert", "put", "state", "reply", "failed"} =>
             rcvFrom[t] \in Servers \ {s}
      BY <1>3, HandoverTypes DEF ThreadsOK, ReceiversOK
    <2>. QED
      BY <1>1, <1>7, <2>1 DEF ReceiversOK
  <1>11. LinesOK'
    <2>1. \A t \in Servers : sndPc'[t] = "ack" => sndPc[t] = "ack"
      BY <1>1, HandoverTypes
    <2>. QED
      BY <1>1, <1>2, <1>8, <2>1 DEF LinesOK
  <1>12. CountsOK'
    BY <1>1, <1>2, <1>8 DEF CountsOK, Awaited
  <1>. QED
    BY <1>9, <1>10, <1>11, <1>12

(* The old server's line leaves the transfer. *)
LEMMA MarkHandover ==
  ASSUME TypeOK, ThreadsOK, LockstepOK, MovesOK, SendersOK, ReceiversOK, LinesOK, CountsOK,
         NEW s \in Servers, SndMark(s)
  PROVE  SendersOK' /\ ReceiversOK' /\ LinesOK' /\ CountsOK'
  <1>. DEFINE e0 == sndEntry[s]
  <1>1. /\ UNCHANGED <<mlts, seen, updPc, scan, to_send, to_receive, sndEntry, xfer, rcvPc, rcvFrom,
                       rcvEntry>>
        /\ sndPc[s] = "mark" /\ sndPc' = [sndPc EXCEPT ![s] = "ack"]
        /\ table' = [table EXCEPT ![s] = mlt_update_state(@, e0, 0)]
    BY DEF SndMark, SndAt, SndGoto, SndElsewhere, Elsewhere, mgrChannel, updVars, rcvVars
  <1>2. /\ Last' = Last
        /\ \A e : Moves(e)' = Moves(e) /\ Old(e)' = Old(e) /\ New(e)' = New(e)
        /\ \A t, e : At(t, e)' = At(t, e)
        /\ \A e \in Entries : Moves(e) => Old(e) \in Servers /\ New(e) \in Servers
    BY <1>1, ThreadFrame
  <1>3. /\ updPc[s] = "join" /\ e0 \in to_send[s] /\ e0 \in Entries /\ Moves(e0) /\ Old(e0) = s
    BY <1>1, SenderEntry DEF Sending
  <1>4. s # New(e0)
    BY <1>3 DEF MovesOK
  <1>5. /\ table'[s][e0].state = 0
        /\ \A t \in Servers, e \in Entries : t # s \/ e # e0 => table'[t][e] = table[t][e]
    BY <1>1, <1>3, HandoverTypes DEF mlt_update_state, MltLine
  <1>6. \A e \in Entries : Given(e)' = Given(e)
    BY <1>1, <1>2 DEF Given
  <1>7. SendersOK'
    BY <1>1, <1>2, <1>3, HandoverTypes DEF SendersOK
  <1>8. ReceiversOK'
    <2>1. \A t \in Servers : table[t][rcvEntry[t]].state = 0 => table'[t][rcvEntry[t]].state = 0
      BY <1>5, HandoverTypes
    <2>. QED
      BY <1>1, <2>1 DEF ReceiversOK
  <1>9. LinesOK'
    <2>1. \A t \in Servers, e \in Entries : t # s \/ e # e0 =>
             (sndPc'[t] = "ack" /\ sndEntry[t] = e => sndPc[t] = "ack" /\ sndEntry[t] = e)
      BY <1>1, HandoverTypes
    <2>2. \A e \in Entries : Moves(e) => table'[New(e)][e] = table[New(e)][e]
      BY <1>2, <1>4, <1>5
    <2>. QED
      BY <1>1, <1>2, <1>5, <1>6, <2>1, <2>2 DEF LinesOK
  <1>10. CountsOK'
    BY <1>1, <1>2, <1>6 DEF CountsOK, Awaited
  <1>. QED
    BY <1>7, <1>8, <1>9, <1>10

(* The old server has its answer, and forgets the entry. *)
LEMMA AckHandover ==
  ASSUME TypeOK, ThreadsOK, LockstepOK, SendersOK, ReceiversOK, LinesOK, CountsOK,
         NEW s \in Servers, SndAck(s)
  PROVE  SendersOK' /\ ReceiversOK' /\ LinesOK' /\ CountsOK'
  <1>. DEFINE e0 == sndEntry[s]
  <1>1. /\ UNCHANGED <<mlts, seen, updPc, scan, to_receive, sndEntry, rcvPc, rcvFrom, rcvEntry,
                       table>>
        /\ sndPc[s] = "ack" /\ sndPc' = [sndPc EXCEPT ![s] = "next"]
        /\ xfer[s].status = "done"
        /\ xfer' = [xfer EXCEPT ![s] = None]
        /\ to_send' = [to_send EXCEPT ![s] = @ \ {e0}]
    BY DEF SndAck, SndAt, SndGoto, SndElsewhere, Elsewhere, mgrChannel, sharedVars, updVars, rcvVars
  <1>2. /\ Last' = Last
        /\ \A e : Moves(e)' = Moves(e) /\ Old(e)' = Old(e) /\ New(e)' = New(e)
        /\ \A t, e : At(t, e)' = At(t, e)
        /\ \A e \in Entries : Moves(e) => Old(e) \in Servers /\ New(e) \in Servers
    BY <1>1, ThreadFrame
  <1>3. xfer[s] # None /\ updPc[s] = "join" /\ e0 \in Entries
    BY <1>1, SenderEntry DEF ThreadsOK, Sending
  <1>4. /\ xfer'[s] = None /\ \A t \in Servers \ {s} : xfer'[t] = xfer[t]
        /\ \A t \in Servers, e \in Entries : t # s \/ e # e0 =>
             (e \in to_send'[t] <=> e \in to_send[t])
        /\ e0 \notin to_send'[s]
        /\ \A t \in Servers : to_send'[t] \subseteq to_send[t]
    BY <1>1, HandoverTypes
  <1>5. ASSUME NEW e \in Entries, Moves(e) PROVE Given(e)' <=> Given(e)
    <2>1. CASE Old(e) = s /\ e = e0
      BY <1>1, <1>2, <1>3, <1>4, <2>1 DEF Given
    <2>2. CASE Old(e) # s \/ e # e0
      BY <1>1, <1>2, <1>4, <1>5, <2>2 DEF Given
    <2>. QED
      BY <2>1, <2>2
  <1>6. SendersOK'
    <2>1. \A t \in Servers : sndPc'[t] \in Sending => t # s /\ sndPc[t] \in Sending
      BY <1>1, HandoverTypes DEF Sending
    <2>2. \A t \in Servers : sndPc'[t] \in Sending => sndEntry[t] \in to_send'[t]
      BY <1>4, <2>1, HandoverTypes DEF SendersOK
    <2>3. \A t \in Servers : t # s => sndPc'[t] = sndPc[t]
      BY <1>1, HandoverTypes
    <2>. QED
      BY <1>1, <1>2, <1>3, <1>4, <2>2, <2>3 DEF SendersOK
  <1>7. ReceiversOK'
    <2>1. \A t \in Servers : rcvPc[t] \in {"insert", "put", "state", "reply", "failed"} =>
             rcvFrom[t] \in Servers \ {s}
      BY <1>1, HandoverTypes DEF ThreadsOK, ReceiversOK
    <2>. QED
      BY <1>1, <1>4, <2>1 DEF ReceiversOK
  <1>8. LinesOK'
    <2>1. \A t \in Servers : sndPc'[t] = "ack" => sndPc[t] = "ack"
      BY <1>1, HandoverTypes
    <2>2. \A t \in Servers, e \in Entries : table[t][e].state = 1 /\ t = Old(e) =>
             (t # s \/ e # e0)
      BY <1>1 DEF LinesOK
    <2>. QED
      BY <1>1, <1>2, <1>4, <1>5, <2>1, <2>2 DEF LinesOK
  <1>9. \A t \in Servers : Awaited(t)' = Awaited(t)
    BY <1>2, <1>5 DEF Awaited
  <1>10. CountsOK'
    BY <1>1, <1>2, <1>9 DEF CountsOK
  <1>. QED
    BY <1>6, <1>7, <1>8, <1>10

(* A receiver at work holds the packet of the entry its sender works on:   *)
(* that entry came to this server in the last redistribution.              *)
LEMMA ReceiverEntry ==
  ASSUME TypeOK, ThreadsOK, LockstepOK, SendersOK, ReceiversOK, NEW s \in Servers,
         rcvPc[s] \in {"insert", "put", "state", "reply"}
  PROVE  /\ updPc[s] = "join" /\ seen[s] = Last
         /\ rcvFrom[s] \in Servers /\ xfer[rcvFrom[s]] # None /\ xfer[rcvFrom[s]].status = "taken"
         /\ rcvEntry[s] \in Entries /\ rcvEntry[s] = sndEntry[rcvFrom[s]]
         /\ rcvEntry[s] \in to_send[rcvFrom[s]]
         /\ Moves(rcvEntry[s]) /\ Old(rcvEntry[s]) = rcvFrom[s] /\ New(rcvEntry[s]) = s
         /\ At(rcvFrom[s], rcvEntry[s]) = Last
  <1>. DEFINE o == rcvFrom[s]
  <1>1. updPc[s] = "join"
    BY DEF ThreadsOK, Ended
  <1>2. seen[s] = Last
    BY <1>1 DEF LockstepOK
  <1>3. o \in Servers /\ rcvEntry[s] \in Entries
    BY HandoverTypes
  <1>4. xfer[o] # None /\ xfer[o].status = "taken" /\ xfer[o].to = s
    BY DEF ThreadsOK
  <1>5. sndPc[o] \in Sending
    BY <1>3, <1>4 DEF ThreadsOK, Sending
  <1>6. rcvEntry[s] = sndEntry[o] /\ New(sndEntry[o]) = s
    BY <1>3, <1>4 DEF ReceiversOK, SendersOK
  <1>. QED
    BY <1>1, <1>2, <1>3, <1>4, <1>5, <1>6, SenderEntry

(* The receiver stops, takes a packet or works on the names of one. *)
LEMMA TakeHandover ==
  ASSUME TypeOK, ThreadsOK, LockstepOK, SendersOK, ReceiversOK, LinesOK, CountsOK,
         NEW s \in Servers,
         RcvFinished(s) \/ (\E from \in Servers : RcvReceive(s, from)) \/ RcvInsert(s) \/ RcvPut(s)
  PROVE  SendersOK' /\ ReceiversOK' /\ LinesOK' /\ CountsOK'
  <1>1. /\ UNCHANGED <<mlts, seen, updPc, scan, to_send, to_receive, sndPc, sndEntry, table>>
        /\ rcvPc[s] \in {"recv", "insert", "put"}
    BY DEF RcvFinished, RcvReceive, RcvInsert, RcvPut, RcvAt, RcvElsewhere, Elsewhere, mgrChannel,
           updVars, sndVars, sharedVars
  <1>2. /\ Last' = Last
        /\ \A e : Moves(e)' = Moves(e) /\ Old(e)' = Old(e) /\ New(e)' = New(e)
        /\ \A t, e : At(t, e)' = At(t, e)
        /\ \A e \in Entries : Moves(e) => Old(e) \in Servers /\ New(e) \in Servers
    BY <1>1, ThreadFrame
  <1>3. updPc[s] = "join"
    BY <1>1 DEF ThreadsOK, Ended
  <1>4. /\ \A t \in Servers : /\ xfer'[t] # None <=> xfer[t] # None
                              /\ xfer'[t] # None => /\ xfer'[t].to = xfer[t].to
                                                    /\ xfer'[t].entry = xfer[t].entry
                                                    /\ xfer'[t].status = "done" <=> xfer[t].status = "done"
        /\ ReceiversOK'
    <2>1. CASE UNCHANGED <<xfer, rcvFrom, rcvEntry>>
      <3>1. \/ rcvPc[s] = "recv" /\ to_receive[s] = 0 /\ rcvPc' = [rcvPc EXCEPT ![s] = "done"]
            \/ /\ rcvPc[s] \in {"insert", "put"}
               /\ \E pc \in {"insert", "put", "state", "failed"} : rcvPc' = [rcvPc EXCEPT ![s] = pc]
            \/ \E from \in Servers : RcvReceive(s, from)
        BY DEF RcvFinished, RcvInsert, RcvPut, RcvAt, RcvGoto
      <3>2. ASSUME NEW from \in Servers, RcvReceive(s, from) PROVE FALSE
        <4>1. xfer[from] \in Packet /\ xfer[from].status = "sent"
          BY <3>2, HandoverTypes DEF RcvReceive
        <4>2. xfer'[from] = [xfer[from] EXCEPT !.status = "taken", !.names = << >>]
          BY <3>2, HandoverTypes DEF RcvReceive
        <4>. QED
          BY <2>1, <4>1, <4>2 DEF Packet
      <3>. QED
        <4>1. /\ \A t \in Servers \ {s} : rcvPc'[t] = rcvPc[t]
              /\ rcvPc'[s] \in {"insert", "put", "state", "failed"} =>
                   rcvPc[s] \in {"insert", "put"}
              /\ rcvPc'[s] = "done" => to_receive[s] = 0
              /\ rcvPc'[s] # "reply"
          BY <3>1, <3>2, HandoverTypes
        <4>2. rcvPc[s] \in {"insert", "put"} =>
                /\ rcvEntry[s] = xfer[rcvFrom[s]].entry
                /\ xfer[rcvFrom[s]] # None /\ xfer[rcvFrom[s]].status = "taken"
                /\ xfer[rcvFrom[s]].to = s
          BY DEF ReceiversOK, ThreadsOK
        <4>3. ReceiversOK'
          BY <1>1, <1>3, <2>1, <4>1, <4>2 DEF ReceiversOK
        <4>. QED
          BY <2>1, <4>3
    <2>2. ASSUME NEW from \in Servers, RcvReceive(s, from)
          PROVE  <1>4
      <3>. DEFINE p == [xfer[from] EXCEPT !.status = "taken", !.names = << >>]
      <3>1. /\ rcvPc[s] = "recv" /\ rcvPc' = [rcvPc EXCEPT ![s] = "insert"]
            /\ xfer[from] # None /\ xfer[from].status = "sent" /\ xfer[from].to = s
            /\ rcvFrom' = [rcvFrom EXCEPT ![s] = from]
            /\ rcvEntry' = [rcvEntry EXCEPT ![s] = xfer[from].entry]
            /\ xfer' = [xfer EXCEPT ![from].status = "taken", ![from].names = << >>]
        BY <2>2 DEF RcvReceive, RcvAt, RcvGoto
      <3>2. /\ p \in Packet /\ p.status = "taken" /\ p.to = xfer[from].to
            /\ p.entry = xfer[from].entry
        <4>1. xfer[from] \in Packet
          BY <3>1, HandoverTypes
        <4>. QED
          BY <4>1, EmptySeq DEF Packet
      <3>3. xfer'[from] = p /\ \A t \in Servers \ {from} : xfer'[t] = xfer[t]
        BY <3>1, HandoverTypes
      <3>4. p # None
        BY <3>2, DataAssumption
      <3>. HIDE DEF p
      <3>5. \A t \in Servers : rcvPc[t] \in {"insert", "put", "state", "reply", "failed"} =>
               t # s /\ rcvFrom[t] \in Servers \ {from}
        BY SMTT(20), <3>1, HandoverTypes DEF ThreadsOK, ReceiversOK
      <3>6. /\ rcvPc'[s] = "insert" /\ rcvFrom'[s] = from /\ rcvEntry'[s] = p.entry
            /\ \A t \in Servers \ {s} : /\ rcvPc'[t] = rcvPc[t] /\ rcvFrom'[t] = rcvFrom[t]
                                        /\ rcvEntry'[t] = rcvEntry[t]
        BY <3>1, <3>2, HandoverTypes
      <3>7. ReceiversOK'
        <4>1. \A t \in Servers \ {s} :
                 rcvPc[t] \in {"insert", "put", "state", "reply", "failed"} =>
                   xfer'[rcvFrom'[t]] = xfer[rcvFrom[t]]
          BY <3>3, <3>5, <3>6
        <4>2. xfer'[rcvFrom'[s]].entry = rcvEntry'[s]
          BY <3>3, <3>6
        <4>. QED
          BY <1>1, <1>3, <3>6, <4>1, <4>2 DEF ReceiversOK
      <3>. QED
        BY <3>1, <3>2, <3>3, <3>4, <3>7
    <2>. QED
      BY <2>1, <2>2 DEF RcvFinished, RcvInsert, RcvPut
  <1>5. \A e \in Entries : Moves(e) => Given(e)' = Given(e)
    BY <1>1, <1>2, <1>4 DEF Given
  <1>6. SendersOK'
    BY <1>1, <1>2, <1>4 DEF SendersOK
  <1>7. LinesOK'
    BY <1>1, <1>2, <1>5 DEF LinesOK
  <1>8. CountsOK'
    BY <1>1, <1>2, <1>5 DEF CountsOK, Awaited
  <1>. QED
    BY <1>4, <1>6, <1>7, <1>8

(* The new server's line leaves the transfer, after the old one's changed. *)
LEMMA StateHandover ==
  ASSUME TypeOK, ThreadsOK, LockstepOK, SendersOK, ReceiversOK, LinesOK, CountsOK,
         NEW s \in Servers, RcvState(s)
  PROVE  SendersOK' /\ ReceiversOK' /\ LinesOK' /\ CountsOK'
  <1>. DEFINE e0 == rcvEntry[s]
  <1>1. /\ UNCHANGED <<mlts, seen, updPc, scan, to_send, to_receive, sndPc, sndEntry, xfer, rcvFrom,
                       rcvEntry>>
        /\ rcvPc[s] = "state" /\ rcvPc' = [rcvPc EXCEPT ![s] = "reply"]
        /\ table' = [table EXCEPT ![s] = mlt_update_state(@, e0, 0)]
    BY DEF RcvState, RcvAt, RcvGoto, RcvElsewhere, Elsewhere, mgrChannel, updVars, sndVars
  <1>2. /\ Last' = Last
        /\ \A e : Moves(e)' = Moves(e) /\ Old(e)' = Old(e) /\ New(e)' = New(e)
        /\ \A t, e : At(t, e)' = At(t, e)
        /\ \A e \in Entries : Moves(e) => Old(e) \in Servers /\ New(e) \in Servers
    BY <1>1, ThreadFrame
  <1>3. /\ updPc[s] = "join" /\ e0 \in Entries /\ At(Old(e0), e0) = Last
    BY <1>1, ReceiverEntry
  <1>4. /\ table'[s][e0].state = 0
        /\ \A t \in Servers, e \in Entries : t # s \/ e # e0 => table'[t][e] = table[t][e]
    BY <1>1, <1>3, HandoverTypes DEF mlt_update_state, MltLine
  <1>5. \A e \in Entries : Given(e)' = Given(e)
    BY <1>1, <1>2 DEF Given
  <1>6. SendersOK'
    BY <1>1, <1>2 DEF SendersOK
  <1>7. ReceiversOK'
    <2>1. \A t \in Servers : table[t][rcvEntry[t]].state = 0 => table'[t][rcvEntry[t]].state = 0
      BY <1>4, HandoverTypes
    <2>. QED
      BY <1>1, <1>3, <1>4, <2>1, HandoverTypes DEF ReceiversOK
  <1>8. LinesOK'
    <2>1. \A t \in Servers, e \in Entries : table'[t][e].state = 1 => table[t][e].state = 1
      BY <1>4
    <2>2. \A t \in Servers, e \in Entries : table[t][e].state = 0 => table'[t][e].state = 0
      BY <1>4
    <2>3. \A e \in Entries : Moves(e) /\ At(New(e), e) = Last /\ table'[New(e)][e].state = 0
             => At(Old(e), e) = Last
      BY <1>2, <1>3, <1>4 DEF LinesOK
    <2>. QED
      BY <1>1, <1>2, <1>5, <2>1, <2>2, <2>3 DEF LinesOK
  <1>9. CountsOK'
    BY <1>1, <1>2, <1>5 DEF CountsOK, Awaited
  <1>. QED
    BY <1>6, <1>7, <1>8, <1>9

(* The new server answers: the entry is given, one packet less to wait for. *)
LEMMA ReplyHandover ==
  ASSUME TypeOK, ThreadsOK, LockstepOK, SendersOK, ReceiversOK, LinesOK, CountsOK,
         NEW s \in Servers, RcvReply(s)
  PROVE  SendersOK' /\ ReceiversOK' /\ LinesOK' /\ CountsOK'
  <1>. DEFINE o  == rcvFrom[s]
              e0 == rcvEntry[s]
              p  == [xfer[o] EXCEPT !.status = "done"]
  <1>1. /\ UNCHANGED <<mlts, seen, updPc, scan, to_send, sndPc, sndEntry, rcvFrom, rcvEntry, table>>
        /\ rcvPc[s] = "reply" /\ rcvPc' = [rcvPc EXCEPT ![s] = "recv"]
        /\ xfer' = [xfer EXCEPT ![o].status = "done"]
        /\ to_receive' = [to_receive EXCEPT ![s] = @ - 1]
    BY DEF RcvReply, RcvAt, RcvGoto, RcvElsewhere, Elsewhere, mgrChannel, updVars, sndVars,
           sharedVars
  <1>2. /\ Last' = Last
        /\ \A e : Moves(e)' = Moves(e) /\ Old(e)' = Old(e) /\ New(e)' = New(e)
        /\ \A t, e : At(t, e)' = At(t, e)
        /\ \A e \in Entries : Moves(e) => Old(e) \in Servers /\ New(e) \in Servers
    BY <1>1, ThreadFrame
  <1>3. /\ updPc[s] = "join" /\ seen[s] = Last /\ o \in Servers
        /\ xfer[o] # None /\ xfer[o].status = "taken"
        /\ e0 \in Entries /\ e0 = sndEntry[o] /\ e0 \in to_send[o]
        /\ Moves(e0) /\ Old(e0) = o /\ New(e0) = s /\ At(o, e0) = Last
    BY <1>1, ReceiverEntry
  <1>4. At(s, e0) = Last /\ table[s][e0].state = 0
    BY <1>1, <1>3 DEF At, ReceiversOK
  <1>5. /\ p \in Packet /\ p.status = "done" /\ p.to = xfer[o].to /\ p.entry = xfer[o].entry
    <2>1. xfer[o] \in Packet
      BY <1>3, HandoverTypes
    <2>. QED
      BY <2>1 DEF Packet
  <1>6. xfer'[o] = p /\ p # None /\ \A t \in Servers \ {o} : xfer'[t] = xfer[t]
    BY <1>1, <1>3, <1>5, HandoverTypes, DataAssumption
  <1>. HIDE DEF p
  <1>7. Given(e0)' /\ ~Given(e0)
    BY <1>1, <1>2, <1>3, <1>5, <1>6 DEF Given
  <1>8. ASSUME NEW e \in Entries, Moves(e), e # e0 PROVE Given(e)' <=> Given(e)
    BY <1>1, <1>2, <1>3, <1>6, <1>8 DEF Given
  <1>9. SendersOK'
    BY <1>1, <1>2, <1>3, <1>5, <1>6 DEF SendersOK
  <1>10. ReceiversOK'
    <2>1. \A t \in Servers : rcvPc'[t] \in {"insert", "put", "state", "reply", "failed"} =>
             /\ t # s /\ rcvPc'[t] = rcvPc[t] /\ rcvFrom[t] \in Servers
             /\ xfer[rcvFrom[t]].to = t
      BY <1>1, HandoverTypes DEF ThreadsOK, ReceiversOK
    <2>2. xfer[o].to = s
      BY <1>1 DEF ThreadsOK
    <2>3. \A t \in Servers : rcvPc'[t] \in {"insert", "put", "state", "reply", "failed"} =>
             xfer'[rcvFrom[t]] = xfer[rcvFrom[t]]
      BY <1>6, <2>1, <2>2
    <2>4. \A t \in Servers : t # s => to_receive'[t] = to_receive[t] /\ rcvPc'[t] = rcvPc[t]
      BY <1>1, HandoverTypes
    <2>5. rcvPc'[s] = "recv"
      BY <1>1, HandoverTypes
    <2>6. ASSUME NEW t \in Servers, t = s
          PROVE  /\ rcvPc'[t] = "recv" /\ updPc'[t] = "join"
      BY <1>1, <1>3, <2>5, <2>6
    <2>7. ASSUME NEW t \in Servers, t # s
          PROVE  /\ rcvPc'[t] \in {"insert", "put", "state", "reply"} =>
                      rcvEntry'[t] = xfer'[rcvFrom'[t]].entry
                 /\ rcvPc'[t] = "reply" => table'[t][rcvEntry'[t]].state = 0
                 /\ rcvPc'[t] = "failed" =>
                      /\ xfer'[rcvFrom'[t]] # None
                      /\ xfer'[rcvFrom'[t]].status = "taken"
                      /\ xfer'[rcvFrom'[t]].to = t
                 /\ rcvPc'[t] = "done" /\ updPc'[t] # "scan" => to_receive'[t] = 0
                 /\ updPc'[t] = "wait" /\ seen'[t] > 1 => rcvPc'[t] \in Ended
      <3>1. rcvFrom' = rcvFrom /\ rcvEntry' = rcvEntry /\ updPc' = updPc /\ seen' = seen
            /\ table' = table
        BY <1>1
      <3>2. rcvPc'[t] = rcvPc[t] /\ to_receive'[t] = to_receive[t]
        BY <2>4, <2>7
      <3>. QED
        BY <2>3, <3>1, <3>2 DEF ReceiversOK
    <2>. QED
      BY <2>6, <2>7 DEF ReceiversOK
  <1>11. LinesOK'
    BY <1>1, <1>2, <1>3, <1>4, <1>8 DEF LinesOK
  <1>12. CountsOK'
    <2>1. \A t \in Servers \ {s} : Awaited(t)' = Awaited(t)
      BY <1>2, <1>3, <1>8 DEF Awaited
    <2>2. Awaited(s)' = Awaited(s) \ {e0} /\ e0 \in Awaited(s)
      <3>1. e0 \in Awaited(s)
        BY <1>3, <1>4, <1>7 DEF Awaited
      <3>2. e0 \notin Awaited(s)'
        BY <1>1, <1>7 DEF Awaited
      <3>3. \A e \in Entries : e # e0 => (e \in Awaited(s)' <=> e \in Awaited(s))
        BY <1>2, <1>8 DEF Awaited
      <3>4. Awaited(s) \subseteq Entries /\ Awaited(s)' \subseteq Entries
        BY DEF Awaited
      <3>. QED
        BY <3>1, <3>2, <3>3, <3>4
    <2>3. Cardinality(Awaited(s)') = Cardinality(Awaited(s)) - 1
      BY <2>2, AwaitedFinite, FS_RemoveElement
    <2>4. to_receive'[s] = to_receive[s] - 1 /\ \A t \in Servers \ {s} : to_receive'[t] = to_receive[t]
      BY <1>1, HandoverTypes
    <2>. QED
      BY <1>1, <1>2, <1>3, <2>1, <2>3, <2>4 DEF CountsOK
  <1>. QED
    BY <1>9, <1>10, <1>11, <1>12

-----------------------------------------------------------------------------
(* All steps *)

(* The invariant holds at the start. *)
LEMMA InitHandover == Init => HandoverInv
  <1>. SUFFICES ASSUME Init PROVE HandoverInv
    OBVIOUS
  <1>1. TypeOK
    BY InitIndInv DEF IndInv
  <1>2. /\ Last = 1 /\ mgrPc = "sleep" /\ ~update_needed /\ phase = "clients"
        /\ seen = [s \in Servers |-> 1] /\ updPc = [s \in Servers |-> "wait"]
        /\ to_send = [s \in Servers |-> {}] /\ to_receive = [s \in Servers |-> 0]
        /\ sndPc = [s \in Servers |-> "off"] /\ rcvPc = [s \in Servers |-> "off"]
        /\ xfer = [s \in Servers |-> None] /\ acks = [s \in Servers |-> {}]
        /\ pending = [s \in Servers |-> "none"] /\ table = [s \in Servers |-> mlt_init]
    BY DEF Init, ChannelsInit, MgrInit, SrvInit, ThrInit, Last
  <1>3. \A e : ~Moves(e)
    BY <1>2 DEF Moves
  <1>4. LockstepOK
    BY <1>2 DEF LockstepOK, MgrQuiet, UpdatersIdle, NoneAcked
  <1>5. MovesOK
    BY <1>2, <1>3 DEF MovesOK
  <1>6. SendersOK
    BY <1>2 DEF SendersOK, Sending
  <1>7. ReceiversOK
    BY <1>2 DEF ReceiversOK
  <1>8. LinesOK
    <2>1. \A s \in Servers, e \in Entries : table[s][e].state = 0
      BY <1>2 DEF mlt_init
    <2>. QED
      BY <1>3, <2>1 DEF LinesOK
  <1>9. CountsOK
    <2>1. \A s \in Servers : Awaited(s) = {}
      BY <1>3 DEF Awaited
    <2>. QED
      BY <1>2, <2>1, FS_EmptySet DEF CountsOK
  <1>. QED
    BY <1>4, <1>5, <1>6, <1>7, <1>8, <1>9 DEF HandoverInv

(* Steps of the launcher, the clients, the main threads and the signal     *)
(* handlers leave the hand-over alone.                                     *)
LEMMA OutsideHandover ==
  ASSUME TypeOK, ExchangesOK, MainOK,
         \/ LaunchNext \/ Finished \/ UNCHANGED vars
         \/ \E c \in Clients : CliStep(c)
         \/ \E s \in Servers : MainStep(s) \/ HandlerStep(s)
  PROVE  UNCHANGED handoverVars /\ UNCHANGED <<mgrPc, mgrTable>>
  <1>1. LaunchNext => UNCHANGED handoverVars /\ UNCHANGED <<mgrPc, mgrTable>>
    BY DEF LaunchNext, LaunchSignal, LaunchManager, LaunchStep, usrHandler2, handoverVars, thrVars,
           srvVars, mgrVars, mgrChannel
  <1>2. Finished \/ UNCHANGED vars => UNCHANGED handoverVars /\ UNCHANGED <<mgrPc, mgrTable>>
    BY DEF Finished, vars, handoverVars, thrVars, srvVars, mgrVars, mgrChannel
  <1>3. ASSUME NEW c \in Clients, CliStep(c)
        PROVE  UNCHANGED handoverVars /\ UNCHANGED <<mgrPc, mgrTable>>
    BY <1>3 DEF CliStep, handoverVars, thrVars, srvVars, mgrVars, mgrChannel
  <1>4. ASSUME NEW s \in Servers, MainStep(s)
        PROVE  UNCHANGED handoverVars /\ UNCHANGED <<mgrPc, mgrTable>>
    BY <1>4, MainEffect DEF MainStep, handoverVars, thrVars, mgrVars, mgrChannel
  <1>5. ASSUME NEW s \in Servers, HandlerStep(s)
        PROVE  UNCHANGED handoverVars /\ UNCHANGED <<mgrPc, mgrTable>>
    BY <1>5 DEF HandlerStep, HandlerNext, usr1_handler, usr2_handler, handoverVars, thrVars, srvVars,
                mgrVars, mgrChannel
  <1>. QED
    BY <1>1, <1>2, <1>3, <1>4, <1>5

(* One redistribution at a time: every step keeps LockstepOK.              *)
LEMMA NextLockstep ==
  ASSUME IndInv, LockstepOK, [Next]_vars
  PROVE  LockstepOK'
  <1>0. TypeOK /\ ExchangesOK /\ MainOK
    BY DEF IndInv
  <1>1. ASSUME \/ Finished \/ UNCHANGED vars
               \/ \E c \in Clients : CliStep(c)
               \/ \E s \in Servers : MainStep(s)
        PROVE  LockstepOK'
    <2>1. UNCHANGED handoverVars /\ UNCHANGED <<mgrPc, mgrTable>>
      BY <1>0, <1>1, OutsideHandover
    <2>2. UNCHANGED <<update_needed, acks, pending, phase>>
      <3>1. Finished \/ UNCHANGED vars => UNCHANGED <<update_needed, acks, pending, phase>>
        BY DEF Finished, vars, mgrVars, hostChannel, launchVars
      <3>2. \A c \in Clients : CliStep(c) => UNCHANGED <<update_needed, acks, pending, phase>>
        BY DEF CliStep, mgrVars, hostChannel, launchVars
      <3>3. \A s \in Servers : MainStep(s) => UNCHANGED <<update_needed, acks, pending, phase>>
        BY <1>0, MainEffect DEF MainStep, mgrVars, hostChannel, launchVars
      <3>. QED
        BY <1>1, <3>1, <3>2, <3>3
    <2>. QED
      BY <2>1, <2>2, LockstepFrame DEF handoverVars
  <1>2. ASSUME NEW s \in Servers, SenderStep(s) \/ ReceiverStep(s) PROVE LockstepOK'
    <2>1. SenderStep(s) => UNCHANGED <<seen, updPc, mlts, mgrPc, update_needed, acks, pending, phase>>
      BY DEF SenderStep, SenderNext, SndNext, SndCheck, SndPop, SndDel, SndSend, SndMark, SndAck,
             SndElsewhere, Elsewhere, updVars, mgrChannel, mgrVars, launchVars
    <2>2. ReceiverStep(s) => UNCHANGED <<seen, updPc, mlts, mgrPc, update_needed, acks, pending, phase>>
      BY DEF ReceiverStep, ReceiverNext, RcvFinished, RcvReceive, RcvInsert, RcvPut, RcvState,
             RcvReply, RcvElsewhere, Elsewhere, updVars, mgrChannel, mgrVars, launchVars
    <2>. QED
      BY <1>2, <2>1, <2>2, LockstepFrame
  <1>. QED
    BY <1>0, <1>1, <1>2, LaunchLockstep, HandlerLockstep, ManagerLockstep, UpdaterLockstep DEF Next

(* Every step of every process keeps the hand-over as HandoverInv says.    *)
LEMMA NextHandoverInv == IndInv /\ HandoverInv /\ [Next]_vars => HandoverInv'
  <1>. SUFFICES ASSUME IndInv, HandoverInv, [Next]_vars PROVE HandoverInv'
    OBVIOUS
  <1>0. /\ TypeOK /\ ExchangesOK /\ MainOK /\ ThreadsOK /\ HistoryOK /\ TablesOK
        /\ LockstepOK /\ MovesOK /\ SendersOK /\ ReceiversOK /\ LinesOK /\ CountsOK
    BY DEF IndInv, HandoverInv
  <1>. DEFINE Rest == SendersOK /\ ReceiversOK /\ LinesOK /\ CountsOK
  <1>1. LockstepOK'
    BY <1>0, NextLockstep
  <1>2. ASSUME UNCHANGED <<mlts, mgrPc, mgrTable>> PROVE MovesOK'
    BY <1>0, <1>2 DEF MovesOK, Moves, Old, New, Last
  <1>3. CASE MgrStep
    BY <1>0, <1>1, <1>3, ManagerMoves, ManagerHandover DEF HandoverInv
  <1>4. CASE \/ LaunchNext \/ Finished \/ UNCHANGED vars
             \/ \E c \in Clients : CliStep(c)
             \/ \E s \in Servers : MainStep(s) \/ HandlerStep(s)
    <2>1. UNCHANGED handoverVars /\ UNCHANGED <<mgrPc, mgrTable>>
      BY <1>0, <1>4, OutsideHandover
    <2>2. MovesOK'
      BY <1>2, <2>1 DEF handoverVars
    <2>3. Rest'
      BY <1>0, <2>1, HandoverFrame
    <2>. QED
      BY <1>1, <2>2, <2>3 DEF HandoverInv
  <1>5. ASSUME NEW s \in Servers, UpdaterStep(s) PROVE HandoverInv'
    <2>1. UNCHANGED <<mlts, mgrPc, mgrTable>>
      BY <1>5 DEF UpdaterStep, UpdaterNext, UpdReceive, UpdCompare, UpdSpawn, UpdJoin, Elsewhere,
                  mgrChannel, mgrVars
    <2>2. CASE UpdReceive(s)
      BY <1>0, <1>1, <1>2, <2>1, <2>2, ReceiveHandover DEF HandoverInv
    <2>3. CASE UpdCompare(s)
      <3>1. scan[s] \in Entries
        BY <1>0, <2>3, HandoverTypes, SizesAssumption DEF UpdCompare, Entries
      <3>. QED
        BY <1>0, <1>1, <1>2, <2>1, <2>3, <3>1, CompareHandover DEF HandoverInv
    <2>4. CASE UpdSpawn(s) \/ UpdJoin(s)
      BY <1>0, <1>1, <1>2, <2>1, <2>4, JoinHandover DEF HandoverInv
    <2>. QED
      BY <1>5, <2>2, <2>3, <2>4 DEF UpdaterStep, UpdaterNext
  <1>6. ASSUME NEW s \in Servers, SenderStep(s) PROVE HandoverInv'
    <2>1. UNCHANGED <<mlts, mgrPc, mgrTable>>
      BY <1>6 DEF SenderStep, SenderNext, SndNext, SndCheck, SndPop, SndDel, SndSend, SndMark,
                  SndAck, SndElsewhere, Elsewhere, mgrChannel, mgrVars
    <2>2. MovesOK'
      BY <1>2, <2>1
    <2>3. SndCheck(s) \/ SndPop(s) \/ SndDel(s) => Rest'
      BY <1>0, DrainHandover
    <2>4. SndNext(s) => Rest'
      BY <1>0, NextHandover
    <2>5. SndSend(s) => Rest'
      BY <1>0, SendHandover
    <2>6. SndMark(s) => Rest'
      BY <1>0, MarkHandover
    <2>7. SndAck(s) => Rest'
      BY <1>0, AckHandover
    <2>. QED
      BY <1>1, <1>6, <2>2, <2>3, <2>4, <2>5, <2>6, <2>7 DEF SenderStep, SenderNext, HandoverInv
  <1>7. ASSUME NEW s \in Servers, ReceiverStep(s) PROVE HandoverInv'
    <2>1. UNCHANGED <<mlts, mgrPc, mgrTable>>
      BY <1>7 DEF ReceiverStep, ReceiverNext, RcvFinished, RcvReceive, RcvInsert, RcvPut, RcvState,
                  RcvReply, RcvElsewhere, Elsewhere, mgrChannel, mgrVars
    <2>2. MovesOK'
      BY <1>2, <2>1
    <2>3. RcvFinished(s) \/ (\E from \in Servers : RcvReceive(s, from)) \/ RcvInsert(s) \/ RcvPut(s)
            => Rest'
      BY <1>0, TakeHandover
    <2>4. RcvState(s) => Rest'
      BY <1>0, StateHandover
    <2>5. RcvReply(s) => Rest'
      BY <1>0, ReplyHandover
    <2>. QED
      BY <1>1, <1>7, <2>2, <2>3, <2>4, <2>5 DEF ReceiverStep, ReceiverNext, HandoverInv
  <1>. QED
    BY <1>3, <1>4, <1>5, <1>6, <1>7 DEF Next

(* Where the threads, packets and acks of a redistribution are, at every   *)
(* step of the DH build.                                                   *)
THEOREM HandoverInvariance == Spec => [](IndInv /\ HandoverInv)
  <1>1. Init => IndInv /\ HandoverInv
    BY InitIndInv, InitHandover
  <1>2. (IndInv /\ HandoverInv) /\ [Next]_vars => (IndInv /\ HandoverInv)'
    BY NextIndInv, NextHandoverInv
  <1>. QED
    BY <1>1, <1>2, PTL DEF Spec

-----------------------------------------------------------------------------
(* What follows *)

(* thread_mlt_updater of the old server changes its line before            *)
(* thread_load_receiver of the new one clears the transfer state.          *)
LEMMA OneInService ==
  ASSUME IndInv, HandoverInv, NEW e \in Entries, NEW s \in Servers, NEW t \in Servers,
         table[s][e].id_srv = s, table[s][e].state = 0,
         table[t][e].id_srv = t, table[t][e].state = 0
  PROVE  s = t
  <1>. SUFFICES ASSUME s # t PROVE FALSE
    OBVIOUS
  <1>0. TypeOK /\ TablesOK /\ LockstepOK /\ LinesOK
    BY DEF IndInv, HandoverInv
  <1>1. \A u \in Servers : At(u, e) \in {Last - 1, Last} /\ At(u, e) \in 1 .. Last
    <2>. SUFFICES ASSUME NEW u \in Servers
                  PROVE  At(u, e) \in {Last - 1, Last} /\ At(u, e) \in 1 .. Last
      OBVIOUS
    <2>1. seen[u] \in 1 .. Last /\ seen[u] >= Last - 1 /\ (updPc[u] = "scan" => seen[u] > 1)
          /\ Last \in Nat
      BY <1>0, HandoverTypes DEF TablesOK, LockstepOK, Last
    <2>2. updPc[u] = "scan" => seen[u] = Last
      BY <1>0 DEF LockstepOK
    <2>. QED
      BY <2>1, <2>2 DEF At
  <1>2. table[s][e].id_srv = s /\ table[t][e].id_srv = t
    OBVIOUS
  <1>3. \A u \in Servers : table[u][e].id_srv = mlts[At(u, e)][e].id_srv
    <2>1. \A u \in Servers : AssignmentOf(table[u][e]) = mlts[At(u, e)][e]
      BY <1>0 DEF TablesOK
    <2>2. \A u \in Servers : AssignmentOf(table[u][e]).id_srv = table[u][e].id_srv
      BY DEF AssignmentOf
    <2>. QED
      BY <2>1, <2>2, Zenon
  <1>4. At(s, e) # At(t, e)
    BY <1>2, <1>3
  <1>5. Last > 1
    BY <1>0, <1>1, <1>4, HandoverTypes
  <1>6. ASSUME NEW u \in Servers, NEW v \in Servers, At(u, e) = Last, At(v, e) = Last - 1,
               table[u][e].id_srv = u, table[v][e].id_srv = v, table[u][e].state = 0, u # v
        PROVE  FALSE
    <2>1. Old(e) = v /\ New(e) = u
      BY <1>3, <1>6 DEF Old, New
    <2>2. Moves(e)
      BY <1>5, <1>6, <2>1 DEF Moves, Old, New
    <2>. QED
      BY <1>0, <1>6, <2>1, <2>2, HandoverTypes DEF LinesOK
  <1>. QED
    BY <1>1, <1>2, <1>4, <1>6

(* At most one server accepts requests on an entry, at every step.         *)
THEOREM OneServer == Spec => []SingleServing
  <1>1. IndInv /\ HandoverInv => SingleServing
    BY OneInService DEF SingleServing, Serves
  <1>. QED
    BY <1>1, HandoverInvariance, PTL

(* The ack files say what the launcher takes them for.                     *)
LEMMA AckedSettled == IndInv /\ HandoverInv => SettledWhenAcked
  <1>. SUFFICES ASSUME IndInv, HandoverInv, \A s \in Servers : "USR-1" \in acks[s]
                PROVE  /\ \A s \in Servers, e \in Entries :
                            table[s][e] = [id_srv |-> mlts[Last][e].id_srv,
                                           n_ver |-> mlts[Last][e].n_ver, state |-> 0]
                       /\ \A s \in Servers : xfer[s] = None
    BY DEF SettledWhenAcked, Last
  <1>0. /\ TypeOK /\ ThreadsOK /\ TablesOK /\ LockstepOK /\ SendersOK /\ ReceiversOK /\ LinesOK
        /\ CountsOK
    BY DEF IndInv, HandoverInv
  <1>1. UpdatersIdle
    BY <1>0 DEF LockstepOK, UpdatersIdle
  <1>2. /\ \A s \in Servers : xfer[s] = None
        /\ \A s \in Servers, e \in Entries : table[s][e].state # 1
    BY <1>0, <1>1, SettledLines
  <1>3. ASSUME NEW s \in Servers, NEW e \in Entries
        PROVE  table[s][e] = [id_srv |-> mlts[Last][e].id_srv, n_ver |-> mlts[Last][e].n_ver,
                              state |-> 0]
    <2>1. table[s][e] \in MltLine
      BY <1>0 DEF TypeOK, SrvTypeOK
    <2>2. table[s][e].state = 0
      BY <1>2, <2>1 DEF MltLine
    <2>3. At(s, e) = Last
      BY <1>1 DEF At, UpdatersIdle
    <2>4. AssignmentOf(table[s][e]) = mlts[Last][e]
      BY <1>0, <2>3 DEF TablesOK
    <2>. QED
      BY <2>1, <2>2, <2>4 DEF MltLine, AssignmentOf
  <1>. QED
    BY <1>2, <1>3

(* All servers have acknowledged: the redistribution is over.              *)
THEOREM AcksMeanSettled == Spec => []SettledWhenAcked
  BY AckedSettled, HandoverInvariance, PTL

(* The manager is asleep, or done, whenever SIGUSR2 reaches it.            *)
THEOREM ManagerIsAsleep == Spec => ManagerUndisturbed
  <1>1. HandoverInv => (phase = "manager" /\ phase' = "synchro" => mgrPc \in {"sleep", "reset"})
    BY DEF HandoverInv, LockstepOK, MgrQuiet
  <1>2. HandoverInv /\ [Next]_vars
          => [phase = "manager" /\ phase' = "synchro" => mgrPc \in {"sleep", "reset"}]_vars
    BY <1>1
  <1>. QED
    BY <1>2, HandoverInvariance, PTL DEF Spec, ManagerUndisturbed

-----------------------------------------------------------------------------
(* The DH build implements EntryOwnership.  MgrSend publishes a table when *)
(* every entry is where the previous one put it; UpdCompare releases an    *)
(* entry at its old server, RcvState takes it at its new one; no other     *)
(* step changes who is in service.                                         *)

(* The holder of an entry *)

(* The holder is the one server in service, ... *)
LEMMA HolderInService ==
  ASSUME IndInv, HandoverInv, NEW e \in Entries, NEW s \in Servers, InService(s, e)
  PROVE  Holder(e) = s
  <1>1. \A t \in Servers : InService(t, e) => t = s
    BY OneInService DEF InService
  <1>. QED
    BY <1>1 DEF Holder

(* ... or nobody, ... *)
LEMMA HolderNone ==
  ASSUME NEW e \in Entries, \A s \in Servers : ~InService(s, e)
  PROVE  Holder(e) = None
  BY DEF Holder

(* ... and the same while nobody starts or stops to serve. *)
LEMMA HolderSame ==
  ASSUME NEW e \in Entries, \A s \in Servers : InService(s, e)' <=> InService(s, e)
  PROVE  Holder(e)' = Holder(e)
  BY DEF Holder

(* Between redistributions every entry is held by the server it is         *)
(* assigned to.                                                            *)
LEMMA HolderIdle ==
  ASSUME IndInv, HandoverInv, UpdatersIdle, NEW e \in Entries
  PROVE  Holder(e) = mlts[Last][e].id_srv /\ mlts[Last][e].id_srv \in Servers
  <1>0. /\ TypeOK /\ ThreadsOK /\ TablesOK /\ SendersOK /\ ReceiversOK /\ LinesOK /\ CountsOK
    BY DEF IndInv, HandoverInv
  <1>. DEFINE s == mlts[Last][e].id_srv
  <1>1. s \in Servers
    <2>1. Last \in 1 .. Len(mlts) /\ mlts \in Seq([Entries -> Assignment])
      BY <1>0, HandoverTypes DEF Last, TypeOK, ChannelsTypeOK
    <2>2. mlts[Last] \in [Entries -> Assignment]
      BY <2>1
    <2>. QED
      BY <2>2 DEF Assignment
  <1>2. table[s][e].state = 0
    <2>1. table[s][e] \in MltLine
      BY <1>0, <1>1 DEF TypeOK, SrvTypeOK
    <2>. QED
      BY <1>0, <1>1, <2>1, SettledLines DEF MltLine
  <1>3. table[s][e].id_srv = s
    <2>1. At(s, e) = Last
      BY <1>1 DEF At, UpdatersIdle
    <2>2. AssignmentOf(table[s][e]) = mlts[Last][e]
      BY <1>0, <1>1, <2>1 DEF TablesOK
    <2>. QED
      BY <2>2 DEF AssignmentOf
  <1>4. InService(s, e)
    BY <1>2, <1>3 DEF InService
  <1>. QED
    BY <1>1, <1>4, HolderInService

-----------------------------------------------------------------------------
(* The steps *)

(* EntryOwnership shares the relation Relab ... *)
LEMMA AbstractRelab == \A t : Ownership!Relab(t) = Relab(t)
  BY DEF Ownership!Relab, Ownership!RelabMany, Ownership!Moved, Ownership!Entries,
         Ownership!Servers, Relab, RelabMany, Moved, Entries, Servers

(* ... and the operator Reassign. *)
LEMMA AbstractReassign == \A a, s : Ownership!Reassign(a, s) = Reassign(a, s)
  BY DEF Ownership!Reassign, Reassign

(* The build starts as EntryOwnership does. *)
LEMMA InitOwnership == Init => Ownership!Init
  <1>. SUFFICES ASSUME Init PROVE Ownership!Init
    OBVIOUS
  <1>0. IndInv /\ HandoverInv /\ UpdatersIdle
    <2>1. UpdatersIdle
      BY DEF Init, ThrInit, ChannelsInit, UpdatersIdle, Last
    <2>. QED
      BY <2>1, InitIndInv, InitHandover
  <1>1. mlts[Len(mlts)] = [e \in Entries |-> AssignmentOf(mlt_init[e])]
    BY DEF Init, ChannelsInit
  <1>2. mlts[Len(mlts)] = Ownership!InitialAssignments
    BY <1>1 DEF Ownership!InitialAssignments, Ownership!AssignmentOf, Ownership!mlt_init,
                Ownership!Entries, AssignmentOf, mlt_init, Entries
  <1>3. \A e \in Entries : Holder(e) = mlts[Len(mlts)][e].id_srv
    BY <1>0, HolderIdle DEF Last
  <1>. QED
    BY <1>2, <1>3 DEF Ownership!Init, Ownership!Entries, Entries

(* A step that leaves the lines' servers, states and the published tables  *)
(* alone, or changes only lines that are not in service before or after.   *)
LEMMA Stutter ==
  ASSUME UNCHANGED mlts, \A e \in Entries, s \in Servers : InService(s, e)' <=> InService(s, e)
  PROVE  UNCHANGED Ownership!vars
  <1>1. \A e \in Entries : Holder(e)' = Holder(e)
    BY HolderSame
  <1>. QED
    BY <1>1 DEF Ownership!vars

(* manager_send_mlt, with the table manager_calculate_relab has computed.  *)
LEMMA SendRedistributes ==
  ASSUME IndInv, HandoverInv, MgrStep, MgrSend
  PROVE  Ownership!Redistribute(Ownership!Relab(mlts[Len(mlts)]))
  <1>0. TypeOK /\ MovesOK /\ LockstepOK
    BY DEF IndInv, HandoverInv
  <1>1. mgrPc = "send" /\ mlts' = Append(mlts, mgrTable) /\ UNCHANGED table
    BY DEF MgrStep, MgrSend, srvVars
  <1>2. UpdatersIdle
    BY <1>0, <1>1 DEF LockstepOK, MgrQuiet
  <1>3. \A e \in Entries : Holder(e) = mlts[Len(mlts)][e].id_srv
    BY <1>2, HolderIdle DEF Last
  <1>4. Len(mlts) \in Nat /\ Len(mlts') = Len(mlts) + 1 /\ mlts'[Len(mlts')] = mgrTable
    BY <1>0, <1>1, MltsType DEF TypeOK, ChannelsTypeOK
  <1>5. PICK new \in Relab(mlts[Len(mlts)]) :
          mgrTable = [e \in Entries |-> Reassign(mlts[Len(mlts)][e], new[e])]
    BY <1>0, <1>1 DEF MovesOK, Last
  <1>6. \A e \in Entries : Holder(e)' = Holder(e)
    BY <1>1, HolderSame DEF InService
  <1>7. new \in Ownership!Relab(mlts[Len(mlts)])
        /\ mlts'[Len(mlts')] = [e \in Entries |-> Ownership!Reassign(mlts[Len(mlts)][e], new[e])]
    BY <1>4, <1>5, AbstractRelab, AbstractReassign
  <1>. QED
    BY <1>3, <1>6, <1>7 DEF Ownership!Redistribute, Ownership!Entries, Entries

(* thread_mlt_updater compares an entry: if it moves, the old server's     *)
(* line is no longer in service, and nobody else's was.                    *)
LEMMA CompareReleases ==
  ASSUME IndInv, HandoverInv, NEW s \in Servers, NEW i \in Entries, scan[s] = i, UpdCompare(s)
  PROVE  Ownership!Release(i) \/ UNCHANGED Ownership!vars
  <1>. DEFINE old == table[s][i]
              new == mlts[seen[s]][i]
  <1>0. TypeOK /\ TablesOK /\ LockstepOK /\ MovesOK /\ LinesOK
    BY DEF IndInv, HandoverInv
  <1>1. updPc[s] = "scan" /\ UNCHANGED mlts
    BY DEF UpdCompare, Elsewhere, mgrChannel
  <1>2. seen[s] = Last /\ Last > 1 /\ Last \in Nat
    BY <1>0, <1>1, HandoverTypes DEF LockstepOK, TablesOK
  <1>3. At(s, i) = Last - 1 /\ At(s, i) # Last
    BY <1>1, <1>2, HandoverTypes, <1>0 DEF At, Entries
  <1>4. AssignmentOf(old) = mlts[Last - 1][i] /\ old \in MltLine /\ new = mlts[Last][i]
    BY <1>0, <1>2, <1>3, HandoverTypes DEF TablesOK
  <1>5. /\ old.id_srv = Old(i) /\ old.n_ver = mlts[Last - 1][i].n_ver /\ new.id_srv = New(i)
        /\ Old(i) \in Servers /\ New(i) \in Servers
    BY <1>0, <1>2, <1>4, MoveTypes DEF AssignmentOf, Old, New
  <1>6. old.n_ver # new.n_ver <=> Moves(i)
    BY <1>0, <1>2, <1>4, <1>5 DEF MovesOK, Moves
  <1>7. CASE ~Moves(i)
    <2>1. UNCHANGED table
      BY <1>6, <1>7 DEF UpdCompare
    <2>. QED
      BY <1>1, <2>1, Stutter DEF InService
  <1>8. CASE Moves(i)
    <2>. DEFINE line == [id_srv |-> New(i), n_ver |-> new.n_ver,
                         state |-> StateAfter(s, Old(i), New(i))]
    <2>1. table' = [table EXCEPT ![s] = mlt_update_entry(@, i, New(i), new.n_ver,
                                                         StateAfter(s, Old(i), New(i)))]
      BY <1>5, <1>6, <1>8, Zenon DEF UpdCompare
    <2>. HIDE DEF new
    <2>2. Old(i) # New(i)
      BY <1>0, <1>8 DEF MovesOK
    <2>3. /\ table'[s][i] = line
          /\ \A t \in Servers, e \in Entries : t # s \/ e # i => table'[t][e] = table[t][e]
      BY <1>0, <2>1, HandoverTypes DEF mlt_update_entry
    <2>4. ~InService(s, i)'
      BY <2>3 DEF InService, StateAfter
    <2>5. \A t \in Servers, e \in Entries : t # s \/ e # i => (InService(t, e)' <=> InService(t, e))
      BY <2>3 DEF InService
    <2>6. CASE Old(i) = s
      <3>1. InService(s, i)
        <4>1. old.state # 1
          BY <1>0, <1>3 DEF LinesOK
        <4>. QED
          BY <1>4, <1>5, <2>6, <4>1 DEF InService, MltLine
      <3>2. Holder(i) = s
        BY <3>1, HolderInService
      <3>3. \A t \in Servers : ~InService(t, i)'
        BY <2>4, <2>5, <3>1, OneInService DEF InService
      <3>4. Holder(i)' = None
        BY <3>3 DEF Holder
      <3>5. \A e \in Entries : e # i => Holder(e)' = Holder(e)
        BY <2>5, HolderSame
      <3>6. s # None
        BY DataAssumption
      <3>7. Holder(i) \notin {None, mlts[Len(mlts)][i].id_srv}
        BY <2>2, <2>6, <3>2, <3>6 DEF New, Last
      <3>. QED
        BY <1>1, <3>4, <3>5, <3>7 DEF Ownership!Release
    <2>7. CASE Old(i) # s
      <3>1. ~InService(s, i)
        BY <1>5, <2>7 DEF InService
      <3>. QED
        BY <1>1, <2>4, <2>5, <3>1, Stutter
    <2>. QED
      BY <2>6, <2>7
  <1>. QED
    BY <1>7, <1>8

(* thread_load_sender marks a line that names another server.              *)
LEMMA MarkKeeps ==
  ASSUME IndInv, HandoverInv, NEW s \in Servers, SndMark(s)
  PROVE  UNCHANGED Ownership!vars
  <1>. DEFINE e0 == sndEntry[s]
  <1>0. TypeOK /\ ThreadsOK /\ TablesOK /\ LockstepOK /\ MovesOK /\ SendersOK
    BY DEF IndInv, HandoverInv
  <1>1. /\ UNCHANGED mlts /\ sndPc[s] = "mark"
        /\ table' = [table EXCEPT ![s] = mlt_update_state(@, e0, 0)]
    BY DEF SndMark, SndAt, SndElsewhere, Elsewhere, mgrChannel
  <1>2. e0 \in Entries /\ Moves(e0) /\ Old(e0) = s /\ At(s, e0) = Last
    BY <1>0, <1>1, SenderEntry DEF Sending
  <1>3. table[s][e0].id_srv # s
    <2>1. AssignmentOf(table[s][e0]) = mlts[Last][e0]
      BY <1>0, <1>2 DEF TablesOK
    <2>2. table[s][e0].id_srv = New(e0)
      BY <2>1 DEF AssignmentOf, New
    <2>. QED
      BY <1>0, <1>2, <2>2 DEF MovesOK
  <1>4. /\ table'[s][e0].id_srv = table[s][e0].id_srv
        /\ \A t \in Servers, e \in Entries : t # s \/ e # e0 => table'[t][e] = table[t][e]
    BY <1>0, <1>1, <1>2, HandoverTypes DEF mlt_update_state, MltLine
  <1>. QED
    BY <1>1, <1>3, <1>4, Stutter DEF InService

(* thread_load_receiver clears the transfer state: the entry, which nobody *)
(* holds, is taken by the server it was moved to.                          *)
LEMMA StateTakes ==
  ASSUME IndInv, HandoverInv, NEW s \in Servers, NEW e0 \in Entries, rcvEntry[s] = e0, RcvState(s)
  PROVE  Ownership!Take(e0) \/ UNCHANGED Ownership!vars
  <1>0. /\ TypeOK /\ ThreadsOK /\ TablesOK /\ LockstepOK /\ SendersOK /\ ReceiversOK /\ MovesOK
    BY DEF IndInv, HandoverInv
  <1>1. /\ UNCHANGED mlts /\ rcvPc[s] = "state"
        /\ table' = [table EXCEPT ![s] = mlt_update_state(@, e0, 0)]
    BY DEF RcvState, RcvAt, RcvElsewhere, Elsewhere, mgrChannel
  <1>2. /\ updPc[s] = "join" /\ seen[s] = Last /\ e0 \in Entries /\ Moves(e0)
        /\ New(e0) = s /\ At(Old(e0), e0) = Last
    BY <1>0, <1>1, ReceiverEntry
  <1>3. At(s, e0) = Last
    BY <1>2 DEF At
  <1>4. table[s][e0].id_srv = s /\ table[s][e0] \in MltLine
    <2>1. AssignmentOf(table[s][e0]) = mlts[Last][e0]
      BY <1>0, <1>3 DEF TablesOK
    <2>. QED
      BY <1>0, <1>2, <2>1, HandoverTypes DEF AssignmentOf, New
  <1>5. /\ table'[s][e0].id_srv = s /\ table'[s][e0].state = 0
        /\ \A t \in Servers, e \in Entries : t # s \/ e # e0 => table'[t][e] = table[t][e]
    BY <1>0, <1>1, <1>2, <1>4, HandoverTypes DEF mlt_update_state, MltLine
  <1>6. InService(s, e0)'
    BY <1>5 DEF InService
  <1>7. \A t \in Servers, e \in Entries : t # s \/ e # e0 => (InService(t, e)' <=> InService(t, e))
    BY <1>5 DEF InService
  <1>8. CASE InService(s, e0)
    BY <1>1, <1>6, <1>7, <1>8, Stutter
  <1>9. CASE ~InService(s, e0)
    <2>1. ASSUME NEW t \in Servers, InService(t, e0), t # s PROVE FALSE
      <3>1. At(t, e0) \in {Last - 1, Last}
        <4>1. seen[t] >= Last - 1 /\ seen[t] <= Last /\ (updPc[t] = "scan" => seen[t] = Last)
              /\ seen[t] \in Nat /\ Last \in Nat
          BY <1>0, HandoverTypes DEF TablesOK, LockstepOK, Last
        <4>. QED
          BY <4>1 DEF At
      <3>2. table[t][e0].id_srv = mlts[At(t, e0)][e0].id_srv
        <4>1. AssignmentOf(table[t][e0]) = mlts[At(t, e0)][e0]
          BY <1>0, <1>2 DEF TablesOK
        <4>. QED
          BY <4>1 DEF AssignmentOf
      <3>3. t = Old(e0) \/ t = New(e0)
        BY <2>1, <3>1, <3>2 DEF InService, Old, New
      <3>4. At(t, e0) = Last
        BY <1>2, <2>1, <3>3
      <3>. QED
        BY <1>2, <2>1, <3>2, <3>4 DEF InService, New
    <2>2. Holder(e0) = None
      BY <1>2, <1>9, <2>1, HolderNone
    <2>3. \A t \in Servers : InService(t, e0)' <=> t = s
      BY <1>6, <1>7, <2>1, <1>2
    <2>4. Holder(e0)' = s
      BY <2>3 DEF Holder
    <2>5. \A e \in Entries : e # e0 => Holder(e)' = Holder(e)
      BY <1>7, HolderSame
    <2>6. mlts[Len(mlts)][e0].id_srv = s
      BY <1>2 DEF New, Last
    <2>7. Ownership!Take(e0)
      BY <1>1, <1>2, <2>2, <2>4, <2>5, <2>6 DEF Ownership!Take
    <2>. QED
      BY <1>2, <2>7
  <1>. QED
    BY <1>8, <1>9

-----------------------------------------------------------------------------
(* The table of a server changes in three steps only. *)

(* The manager's table and the servers' lines change in these steps only. *)
LEMMA TableSteps ==
  ASSUME TypeOK, ExchangesOK, MainOK, [Next]_vars
  PROVE  \/ MgrStep /\ MgrSend
         \/ \E s \in Servers : UpdCompare(s) \/ SndMark(s) \/ RcvState(s)
         \/ UNCHANGED <<mlts, table>>
  <1>1. CASE \/ LaunchNext \/ Finished \/ UNCHANGED vars
             \/ \E c \in Clients : CliStep(c)
             \/ \E s \in Servers : MainStep(s) \/ HandlerStep(s)
    BY <1>1, OutsideHandover DEF handoverVars
  <1>2. MgrStep /\ ~MgrSend => UNCHANGED <<mlts, table>>
    BY DEF MgrStep, MgrNext, MgrWake, MgrGather, MgrGathered, MgrRelab, MgrReset, mgrChannel, srvVars
  <1>3. ASSUME NEW s \in Servers, UpdaterStep(s)
        PROVE  UpdCompare(s) \/ UNCHANGED <<mlts, table>>
    BY <1>3 DEF UpdaterStep, UpdaterNext, UpdReceive, UpdSpawn, UpdJoin, Elsewhere, mgrChannel,
                srvVars
  <1>4. ASSUME NEW s \in Servers, SenderStep(s)
        PROVE  SndMark(s) \/ UNCHANGED <<mlts, table>>
    BY <1>4 DEF SenderStep, SenderNext, SndNext, SndCheck, SndPop, SndDel, SndSend, SndAck,
                SndElsewhere, Elsewhere, mgrChannel, srvVars, sharedVars
  <1>5. ASSUME NEW s \in Servers, ReceiverStep(s)
        PROVE  RcvState(s) \/ UNCHANGED <<mlts, table>>
    BY <1>5 DEF ReceiverStep, ReceiverNext, RcvFinished, RcvReceive, RcvInsert, RcvPut, RcvReply,
                RcvElsewhere, Elsewhere, mgrChannel, sharedVars
  <1>. QED
    BY <1>1, <1>2, <1>3, <1>4, <1>5 DEF Next

(* Every step is a step of EntryOwnership or changes nothing there. *)
LEMMA NextOwnership ==
  ASSUME IndInv, HandoverInv, [Next]_vars
  PROVE  Ownership!Next \/ UNCHANGED Ownership!vars
  <1>0. TypeOK /\ ExchangesOK /\ MainOK
    BY DEF IndInv
  <1>1. CASE MgrStep /\ MgrSend
    BY <1>1, SendRedistributes DEF Ownership!Next
  <1>2. ASSUME NEW s \in Servers, UpdCompare(s) PROVE Ownership!Next \/ UNCHANGED Ownership!vars
    <2>1. scan[s] \in Entries
      BY <1>0, <1>2, HandoverTypes, SizesAssumption DEF UpdCompare, Entries
    <2>. QED
      BY <1>2, <2>1, CompareReleases DEF Ownership!Next, Ownership!HandOver, Ownership!Entries, Entries
  <1>3. ASSUME NEW s \in Servers, SndMark(s) PROVE UNCHANGED Ownership!vars
    BY <1>3, MarkKeeps
  <1>4. ASSUME NEW s \in Servers, RcvState(s) PROVE Ownership!Next \/ UNCHANGED Ownership!vars
    <2>1. rcvEntry[s] \in Entries
      BY <1>0, HandoverTypes
    <2>. QED
      BY <1>4, <2>1, StateTakes DEF Ownership!Next, Ownership!HandOver, Ownership!Entries, Entries
  <1>5. CASE UNCHANGED <<mlts, table>>
    BY <1>5, Stutter DEF InService
  <1>. QED
    BY <1>0, <1>1, <1>2, <1>3, <1>4, <1>5, TableSteps

(* Whatever the numbers of servers, entries, clients and rounds, and        *)
(* whether or not clients run during a redistribution, the DH build hands   *)
(* entries over as EntryOwnership says.                                     *)
THEOREM Implements == Spec => HandsOver
  <1>1. Init => Ownership!Init
    BY InitOwnership
  <1>2. (IndInv /\ HandoverInv) /\ [Next]_vars => [Ownership!Next]_(Ownership!vars)
    BY NextOwnership
  <1>. QED
    BY <1>1, <1>2, HandoverInvariance, PTL DEF Spec, HandsOver, Ownership!Spec
=============================================================================
