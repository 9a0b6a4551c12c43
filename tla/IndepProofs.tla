---------------------------- MODULE IndepProofs ----------------------------
(***************************************************************************)
(* The indedh and windowed builds, for any number of servers, entries and  *)
(* steps of the launcher, if all settles between two steps.  First the     *)
(* exchange of a redistribution: the table is computed from the lists of   *)
(* this step, one of each server, and the clients run only when it is over *)
(* (what happens otherwise is in EpochStaleAck.cfg).  Then the transfers   *)
(* of the windowed build: every step of the transfer threads belongs to    *)
(* the last table, an entry has one keeper, and the build implements       *)
(* EntryOwnership.                                                         *)
(***************************************************************************)
EXTENDS IndepTransfer, FiniteSetTheorems, TLAPS

(* There is a server, and finitely many. *)
LEMMA ServersFinite == IsFiniteSet(Servers) /\ Servers # {} /\ Cardinality(Servers) \in Nat
  BY SMTT(20), FS_Interval, FS_CardinalityType, SizesAssumption DEF Servers

(* Queues of one message. *)
LEMMA OneMessage ==
  ASSUME NEW m
  PROVE  /\ Append(<<>>, m) = <<m>> /\ <<m>> # <<>> /\ Len(<<m>>) = 1 /\ Len(<<>>) = 0
         /\ Head(<<m>>) = m /\ Tail(<<m>>) = <<>>
  OBVIOUS

(* What is left of a queue when its first message is received. *)
LEMMA Tails ==
  ASSUME NEW M, NEW q \in Seq(M), q # <<>>
  PROVE  /\ Head(q) = q[1] /\ 1 \in DOMAIN q /\ Head(q) \in M
         /\ Tail(q) \in Seq(M)
         /\ \A i \in DOMAIN Tail(q) : i + 1 \in DOMAIN q /\ Tail(q)[i] = q[i + 1]
                                     /\ i \in Nat /\ i # 0
  OBVIOUS

(* A queue with one more message. *)
LEMMA Appends ==
  ASSUME NEW M, NEW q \in Seq(M), NEW m \in M
  PROVE  /\ Append(q, m) \in Seq(M)
         /\ DOMAIN Append(q, m) = DOMAIN q \cup {Len(q) + 1}
         /\ Len(q) + 1 \notin DOMAIN q
         /\ \A i \in DOMAIN q : Append(q, m)[i] = q[i]
         /\ Append(q, m)[Len(q) + 1] = m
  OBVIOUS

(* The facts about epochs and sizes that the steps below use. *)
LEMMA Types ==
  ASSUME EpochInv
  PROVE  /\ MaxRounds \in Nat /\ Target \in Epochs /\ epoch \in Epochs /\ Target >= epoch
         /\ \A s \in Servers : sEpoch[s] \in Epochs /\ sEpoch[s] \in Nat /\ needed[s] \in Nat
         /\ SizesAssumption
  BY EpochAssumption, SizesAssumption
     DEF EpochInv, TypeOK, ManagerOK, Target, Epochs

(* The manager counts the answers of servers. *)
LEMMA CountedServers ==
  ASSUME TypeOK
  PROVE  Counted \subseteq Servers /\ \A i \in DOMAIN gathered : gathered[i].srv \in Servers
  <1>. DEFINE Eacls == [srv : Servers, sai : Epochs]
  <1>0. gathered \in Seq(Eacls)
    BY DEF TypeOK
  <1>. HIDE DEF Eacls
  <1>1. \A i \in DOMAIN gathered : gathered[i] \in Eacls
    BY <1>0
  <1>. USE DEF Eacls
  <1>2. \A i \in DOMAIN gathered : gathered[i].srv \in Servers
    BY <1>1
  <1>. QED
    BY <1>2 DEF Counted

-----------------------------------------------------------------------------
(* The types. *)

(* The invariant holds at the start. *)
LEMMA InitInv == Init => EpochInv
  <1>. SUFFICES ASSUME Init
                PROVE  EpochInv
    OBVIOUS
  <1>. USE EpochAssumption, SizesAssumption
  <1>1. 0 \in Epochs
    BY DEF Epochs
  <1>2. TypeOK
    <2>1. /\ sEpoch \in [Servers -> Epochs] /\ sai \in [Servers -> Epochs]
          /\ eacl_epoch \in [Servers -> Epochs] /\ needed \in [Servers -> Epochs]
      BY <1>1 DEF Init
    <2>2. /\ sub \in [Servers -> Seq(ToServers)] /\ push \in [Servers -> Seq(ToManager)]
          /\ gathered \in Seq([srv : Servers, sai : Epochs])
      BY DEF Init
    <2>. QED
      BY <1>1, <2>1, <2>2 DEF Init, TypeOK
  <1>3. Target = 0 /\ Has(1) = {}
    BY DEF Init, Target, Has
  <1>4. HandlersOK
    BY <1>3 DEF Init, HandlersOK
  <1>5. MessagesOK
    BY DEF Init, MessagesOK
  <1>6. ManagerOK
    BY <1>3 DEF Init, ManagerOK
  <1>7. ListenersOK
    BY <1>3 DEF Init, ListenersOK
  <1>8. GatherOK
    BY DEF Init, GatherOK
  <1>9. AcksOK
    BY <1>3 DEF Init, AcksOK
  <1>. QED
    BY <1>2, <1>4, <1>5, <1>6, <1>7, <1>8, <1>9 DEF EpochInv

(* A server's steps keep the types. *)
LEMMA ServerTypes ==
  ASSUME EpochInv, NEW s \in Servers, ServerStep(s)
  PROVE  TypeOK'
  <1>. USE DEF TypeOK, srv, lst, mgr, lau
  <1>0. TypeOK
    BY DEF EpochInv
  <1>1. CASE distribution_signal1_action(s)
    BY <1>0, <1>1 DEF distribution_signal1_action
  <1>2. CASE Measure(s)
    <2>1. sEpoch[s] + 1 = Target
      <3>1. sEpoch[s] = Target - 1
        BY <1>2 DEF EpochInv, HandlersOK, Measure
      <3>2. Target \in Int
        BY Types DEF Epochs
      <3>. QED
        BY <3>1, <3>2
    <2>. QED
      BY <1>0, <1>2, <2>1, Types DEF Measure
  <1>3. CASE PublishEpoch(s)
    BY <1>0, <1>3 DEF PublishEpoch
  <1>4. CASE NoNeed(s)
    BY <1>0, <1>4 DEF NoNeed
  <1>5. CASE AskForHelp(s)
    <2>. DEFINE m == [type |-> "HELP", epoch |-> sEpoch[s]]
    <2>1. m \in ToManager
      BY <1>0 DEF ToManager
    <2>2. Append(push[s], m) \in Seq(ToManager)
      BY <1>0, <2>1
    <2>. QED
      BY <1>0, <1>5, <2>2 DEF AskForHelp
  <1>6. CASE ReceiveAsk(s)
    <2>1. Tail(sub[s]) \in Seq(ToServers) /\ Head(sub[s]) \in ToServers
      BY <1>0, <1>6, Tails DEF ReceiveAsk
    <2>2. Head(sub[s]).epoch \in Epochs
      BY <1>6, <2>1 DEF ReceiveAsk, ToServers
    <2>. QED
      BY <1>0, <1>6, <2>1, <2>2 DEF ReceiveAsk
  <1>7. CASE Answer(s)
    <2>. DEFINE m == [type |-> "EACL", srv |-> s, sai |-> sai[s]]
    <2>1. m \in ToManager
      BY <1>0 DEF ToManager
    <2>2. Append(push[s], m) \in Seq(ToManager)
      BY <1>0, <2>1
    <2>. QED
      BY <1>0, <1>7, <2>2 DEF Answer
  <1>8. CASE ReceiveMlt(s)
    <2>1. Tail(sub[s]) \in Seq(ToServers)
      BY <1>0, <1>8, Tails DEF ReceiveMlt
    <2>. QED
      BY <1>0, <1>8, <2>1 DEF ReceiveMlt
  <1>9. CASE Transferred(s)
    BY <1>0, <1>9 DEF Transferred
  <1>. QED
    BY <1>1, <1>2, <1>3, <1>4, <1>5, <1>6, <1>7, <1>8, <1>9 DEF ServerStep

(* So do the manager's. *)
LEMMA ManagerTypes ==
  ASSUME EpochInv, ManagerStep
  PROVE  TypeOK'
  <1>. USE DEF TypeOK, srv, lst, mgr, lau
  <1>0. TypeOK
    BY DEF EpochInv
  <1>1. CASE usrHandler2
    <2>1. epoch + 1 \in Epochs
      BY <1>1, Types DEF usrHandler2, Target
    <2>. QED
      BY <1>0, <1>1, <2>1 DEF usrHandler2
  <1>2. ASSUME NEW s \in Servers, MgrReceive(s)
        PROVE  TypeOK'
    <2>1. Tail(push[s]) \in Seq(ToManager) /\ Head(push[s]) \in ToManager
      BY <1>0, <1>2, Tails DEF MgrReceive
    <2>2. Head(push[s]).type = "HELP" => Head(push[s]).epoch \in Epochs
      BY <2>1 DEF ToManager
    <2>. QED
      BY <1>0, <1>2, <2>1, <2>2 DEF MgrReceive
  <1>3. ASSUME NEW s \in Servers, MgrGather(s)
        PROVE  TypeOK'
    <2>. DEFINE m == Head(push[s])
                g == [srv |-> m.srv, sai |-> m.sai]
    <2>1. Tail(push[s]) \in Seq(ToManager) /\ m \in ToManager
      BY <1>0, <1>3, Tails DEF MgrGather
    <2>2. m.type = "EACL" => g \in [srv : Servers, sai : Epochs]
      BY <2>1 DEF ToManager
    <2>3. m.type = "EACL" => Append(gathered, g) \in Seq([srv : Servers, sai : Epochs])
      BY <1>0, <2>2
    <2>4. gathered' \in Seq([srv : Servers, sai : Epochs])
      BY <1>0, <1>3, <2>3 DEF MgrGather
    <2>. HIDE DEF m
    <2>. QED
      BY <1>0, <1>3, <2>1, <2>4 DEF MgrGather
  <1>4. CASE MgrCompare
    BY <1>0, <1>4 DEF MgrCompare
  <1>5. CASE MgrTest
    BY <1>0, <1>5 DEF MgrTest
  <1>6. ASSUME NEW m \in ToServers, Publish(m)
        PROVE  sub' \in [Servers -> Seq(ToServers)]
    <2>1. \A s \in Servers : Append(sub[s], m) \in Seq(ToServers)
      BY <1>0
    <2>. QED
      BY <1>6, <2>1 DEF Publish
  <1>7. CASE MgrAsk
    <2>1. [type |-> "ASK", epoch |-> epoch] \in ToServers
      BY <1>0 DEF ToServers
    <2>2. sub' \in [Servers -> Seq(ToServers)]
      BY <1>6, <1>7, <2>1 DEF MgrAsk
    <2>3. gathered' \in Seq([srv : Servers, sai : Epochs])
      BY <1>7 DEF MgrAsk
    <2>. QED
      BY <1>0, <1>7, <2>2, <2>3 DEF MgrAsk
  <1>8. CASE MgrSend
    <2>1. [type |-> "MLT"] \in ToServers
      BY DEF ToServers
    <2>2. sub' \in [Servers -> Seq(ToServers)]
      BY <1>6, <1>8, <2>1 DEF MgrSend
    <2>. QED
      BY <1>0, <1>8, <2>2 DEF MgrSend
  <1>9. CASE MgrMark
    BY <1>0, <1>9 DEF MgrMark
  <1>. QED
    BY <1>1, <1>2, <1>3, <1>4, <1>5, <1>7, <1>8, <1>9 DEF ManagerStep

Launch == (\E sig \in Signals : LaunchSignal(sig)) \/ Synchro

(* And the launcher's. *)
LEMMA LauncherTypes ==
  ASSUME EpochInv, Launch
  PROVE  TypeOK'
  <1>. USE DEF TypeOK, srv, lst, mgr, lau
  <1>0. TypeOK
    BY DEF EpochInv
  <1>1. ASSUME NEW sig \in Signals, LaunchSignal(sig)
        PROVE  TypeOK'
    <2>1. round + 1 \in Epochs
      BY <1>0, <1>1, EpochAssumption DEF LaunchSignal, Epochs
    <2>. QED
      BY <1>0, <1>1, <2>1 DEF LaunchSignal
  <1>2. CASE LaunchManager
    BY <1>0, <1>2 DEF LaunchManager
  <1>3. CASE SynchroAny
    BY <1>0, <1>3 DEF SynchroAny
  <1>4. CASE wait_1
    BY <1>0, <1>4 DEF wait_1
  <1>5. CASE LaunchRemove
    BY <1>0, <1>5 DEF LaunchRemove
  <1>. QED
    BY <1>1, <1>2, <1>3, <1>4, <1>5 DEF Synchro, Launch

-----------------------------------------------------------------------------
(* The handlers of a server. *)

HandlerStep1(s) ==
  distribution_signal1_action(s) \/ Measure(s) \/ PublishEpoch(s) \/ NoNeed(s) \/ AskForHelp(s)

(* What the signal handlers of a server leave alone. *)
LEMMA HandlerRuns ==
  ASSUME EpochInv, NEW s \in Servers, HandlerStep1(s)
  PROVE  /\ UNCHANGED <<lst, sub, mgr, lau>> /\ phase # "clients"
         /\ Target' = Target /\ Sent' = Sent
         /\ \A t \in Servers : <<t, 1>> \in acks' <=> <<t, 1>> \in acks
         /\ acks \subseteq acks'
  <1>1. UNCHANGED <<lst, sub, mgr, lau>>
    BY DEF HandlerStep1, distribution_signal1_action, Measure, PublishEpoch, NoNeed, AskForHelp
  <1>2. Target' = Target /\ Sent' = Sent
    BY <1>1 DEF Target, Sent, mgr, lau
  <1>3. acks' = acks \/ acks' = acks \cup {<<s, 0>>}
    BY DEF HandlerStep1, distribution_signal1_action, Measure, PublishEpoch, NoNeed, AskForHelp
  <1>4. signalled[s] # "none" \/ hPc[s] # "idle"
    BY DEF HandlerStep1, distribution_signal1_action, Measure, PublishEpoch, NoNeed, AskForHelp
  <1>5. phase # "clients"
    BY <1>4 DEF EpochInv, AcksOK
  <1>6. \A t \in Servers : <<t, 1>> # <<s, 0>>
    OBVIOUS
  <1>. QED
    BY <1>1, <1>2, <1>3, <1>5, <1>6

(* What they do to their own part of the invariant. *)
LEMMA HandlerState ==
  ASSUME EpochInv, NEW s \in Servers, HandlerStep1(s)
  PROVE  /\ HandlersOK'
         /\ \A t \in Servers : Asked(t) => Asked(t)'
         /\ \A t \in Servers : eacl_epoch[t] = Target => eacl_epoch'[t] = Target
  <1>0. TypeOK /\ HandlersOK /\ Target \in Nat /\ Target' = Target
    BY HandlerRuns, Types DEF EpochInv, Epochs
  <1>1. CASE distribution_signal1_action(s)
    BY <1>0, <1>1 DEF distribution_signal1_action, HandlersOK, Asked, TypeOK
  <1>2. CASE Measure(s)
    <2>1. Target > 0 /\ sEpoch[s] + 1 = Target
      <3>1. sEpoch[s] = Target - 1 /\ sEpoch[s] \in Nat
        BY <1>0, <1>2, Types DEF HandlersOK, Measure
      <3>. QED
        BY <1>0, <3>1
    <2>. QED
      BY <1>0, <1>2, <2>1 DEF Measure, HandlersOK, Asked, TypeOK
  <1>3. CASE PublishEpoch(s)
    BY <1>0, <1>3 DEF PublishEpoch, HandlersOK, Asked, TypeOK
  <1>4. CASE NoNeed(s)
    BY <1>0, <1>4 DEF NoNeed, HandlersOK, Asked, TypeOK
  <1>5. CASE AskForHelp(s)
    BY <1>0, <1>5 DEF AskForHelp, HandlersOK, Asked, TypeOK
  <1>. QED
    BY <1>1, <1>2, <1>3, <1>4, <1>5 DEF HandlerStep1

(* They send at most a HELP, of this epoch. *)
LEMMA HandlerMessages ==
  ASSUME EpochInv, NEW s \in Servers, HandlerStep1(s)
  PROVE  MessagesOK' /\ \A t \in Servers : HasEacl(t)' => HasEacl(t)
  <1>0. /\ TypeOK /\ MessagesOK
        /\ Target' = Target /\ UNCHANGED <<mPc, sub, lPc>>
        /\ \A t \in Servers : Asked(t) => Asked(t)'
        /\ \A t \in Servers : eacl_epoch[t] = Target => eacl_epoch'[t] = Target
    BY HandlerRuns, HandlerState DEF EpochInv, mgr, lst
  <1>1. CASE push' = push
    <2>1. MessagesOK'
      BY <1>0, <1>1 DEF MessagesOK
    <2>. QED
      BY <1>1, <2>1 DEF HasEacl
  <1>2. CASE AskForHelp(s)
    <2>. DEFINE m == [type |-> "HELP", epoch |-> sEpoch[s]]
                n == Len(push[s]) + 1
    <2>1. m \in ToManager /\ m.type = "HELP" /\ m.type # "EACL" /\ m.epoch = sEpoch[s]
      BY <1>0 DEF ToManager, TypeOK
    <2>2. push' = [push EXCEPT ![s] = Append(@, m)]
      BY <1>2 DEF AskForHelp
    <2>3. sEpoch[s] = Target /\ Target > 0 /\ Asked(s)'
      <3>1. HandlersOK /\ <<s, 0>> \notin acks
        BY <1>2 DEF EpochInv, HandlersOK, AskForHelp
      <3>2. sEpoch[s] = Target /\ Target > 0
        BY <1>2, <3>1 DEF HandlersOK, AskForHelp
      <3>3. signalled'[s] = "none" /\ hPc'[s] = "idle" /\ acks' = acks
        BY <1>0, <1>2, <3>1 DEF AskForHelp, TypeOK, HandlersOK
      <3>. QED
        BY <3>1, <3>2, <3>3 DEF Asked
    <2>4. /\ push[s] \in Seq(ToManager)
          /\ push'[s] = Append(push[s], m)
          /\ \A t \in Servers \ {s} : push'[t] = push[t]
      BY <1>0, <2>2 DEF TypeOK
    <2>. HIDE DEF m
    <2>5. /\ DOMAIN push'[s] = DOMAIN push[s] \cup {n} /\ n \notin DOMAIN push[s]
          /\ \A i \in DOMAIN push[s] : push'[s][i] = push[s][i]
          /\ push'[s][n] = m
      BY <2>1, <2>4, Appends
    <2>. HIDE DEF n
    <2>6. MessagesOK'
      <3>. SUFFICES ASSUME NEW t \in Servers, NEW i \in DOMAIN push'[t]
                    PROVE
             /\ push'[t][i].type = "HELP" => push'[t][i].epoch = Target /\ Target > 0 /\ Asked(t)'
             /\ push'[t][i].type = "EACL" =>
                  /\ push'[t][i].srv = t /\ push'[t][i].sai = Target
                  /\ mPc = "gather" /\ sub[t] = <<>> /\ lPc[t] = "recv" /\ eacl_epoch'[t] = Target
                  /\ \A j \in DOMAIN push'[t] : push'[t][j].type = "EACL" => j = i
        BY <1>0 DEF MessagesOK
      <3>1. CASE t # s
        BY <1>0, <2>4, <3>1 DEF MessagesOK
      <3>2. CASE t = s /\ i = n
        BY <2>1, <2>3, <2>5, <3>2
      <3>3. CASE t = s /\ i # n
        BY <1>0, <2>1, <2>5, <3>3 DEF MessagesOK
      <3>. QED
        BY <3>1, <3>2, <3>3
    <2>7. \A t \in Servers : HasEacl(t)' => HasEacl(t)
      BY <2>1, <2>4, <2>5 DEF HasEacl
    <2>. QED
      BY <2>6, <2>7
  <1>. QED
    BY <1>1, <1>2 DEF HandlerStep1, distribution_signal1_action, Measure, PublishEpoch, NoNeed

(* Every step of a handler keeps the invariant. *)
LEMMA HandlerInv ==
  ASSUME EpochInv, NEW s \in Servers, HandlerStep1(s)
  PROVE  EpochInv'
  <1>0. /\ TypeOK /\ Target' = Target /\ UNCHANGED <<lst, sub, mgr, lau>> /\ phase # "clients"
        /\ Sent' = Sent /\ acks \subseteq acks'
        /\ \A t \in Servers : <<t, 1>> \in acks' <=> <<t, 1>> \in acks
        /\ \A t \in Servers : Asked(t) => Asked(t)'
        /\ \A t \in Servers : HasEacl(t)' => HasEacl(t)
        /\ \A t \in Servers : eacl_epoch[t] = Target => eacl_epoch'[t] = Target
    BY HandlerRuns, HandlerState, HandlerMessages DEF EpochInv
  <1>1. SomeoneAsked => SomeoneAsked'
    BY <1>0 DEF SomeoneAsked
  <1>2. TypeOK'
    BY ServerTypes DEF HandlerStep1, ServerStep
  <1>3. ManagerOK'
    BY <1>0, <1>1 DEF EpochInv, ManagerOK, mgr, lau
  <1>4. ListenersOK'
    BY <1>0, <1>1 DEF EpochInv, ListenersOK, mgr, lst
  <1>5. GatherOK'
    <2>1. Counted' = Counted /\ Counted \subseteq Servers
      BY <1>0, CountedServers DEF EpochInv, Counted, mgr
    <2>. QED
      BY <1>0, <2>1 DEF EpochInv, GatherOK, mgr, lst
  <1>6. AcksOK'
    <2>1. /\ Has(1)' = Has(1) /\ Has(1) \subseteq Servers
          /\ Has(0) \subseteq Has(0)' /\ Has(0)' \subseteq Servers
      BY <1>0 DEF Has
    <2>2. AcksOK /\ UNCHANGED <<phase, round>>
      BY <1>0 DEF EpochInv, lau
    <2>3. \A t \in Has(1)' : Sent' /\ SomeoneAsked' /\ eacl_epoch'[t] = Target'
      BY <1>0, <1>1, <2>1, <2>2 DEF AcksOK
    <2>4. phase' = "remove" => Has(0)' = Servers \/ Has(1)' = Servers
      BY <2>1, <2>2 DEF AcksOK
    <2>. QED
      BY <1>0, <2>2, <2>3, <2>4 DEF AcksOK
  <1>. QED
    BY <1>2, <1>3, <1>4, <1>5, <1>6, HandlerState, HandlerMessages DEF EpochInv

-----------------------------------------------------------------------------
(* The listener of a server. *)

ListenerStep1(s) == ReceiveAsk(s) \/ Answer(s) \/ ReceiveMlt(s) \/ Transferred(s)

(* What the listener of a server leaves alone. *)
LEMMA ListenerRuns ==
  ASSUME EpochInv, NEW s \in Servers, ListenerStep1(s)
  PROVE  /\ UNCHANGED <<srv, mgr, lau>> /\ phase # "clients"
         /\ Target' = Target /\ Sent' = Sent
         /\ \A t \in Servers : <<t, 0>> \in acks' <=> <<t, 0>> \in acks
         /\ acks \subseteq acks'
         /\ \A t \in Servers : Asked(t)' <=> Asked(t)
         /\ SomeoneAsked' <=> SomeoneAsked
         /\ HandlersOK' /\ ManagerOK'
  <1>1. UNCHANGED <<srv, mgr, lau>>
    BY DEF ListenerStep1, ReceiveAsk, Answer, ReceiveMlt, Transferred
  <1>2. Target' = Target /\ Sent' = Sent
    BY <1>1 DEF Target, Sent, mgr, lau
  <1>3. acks' = acks \/ acks' = acks \cup {<<s, 1>>}
    BY DEF ListenerStep1, ReceiveAsk, Answer, ReceiveMlt, Transferred
  <1>4. sub[s] # <<>> \/ lPc[s] # "recv"
    BY DEF ListenerStep1, ReceiveAsk, Answer, ReceiveMlt, Transferred
  <1>5. phase # "clients"
    BY <1>4 DEF EpochInv, AcksOK
  <1>6. \A t \in Servers : <<t, 0>> # <<s, 1>>
    OBVIOUS
  <1>7. \A t \in Servers : <<t, 0>> \in acks' <=> <<t, 0>> \in acks
    BY <1>3, <1>6
  <1>8. \A t \in Servers : Asked(t)' <=> Asked(t)
    BY <1>1, <1>7 DEF Asked, srv
  <1>9. SomeoneAsked' <=> SomeoneAsked
    BY <1>8 DEF SomeoneAsked
  <1>10. HandlersOK'
    BY <1>1, <1>2, <1>7 DEF EpochInv, HandlersOK, srv
  <1>11. ManagerOK'
    BY <1>1, <1>2, <1>9 DEF EpochInv, ManagerOK, mgr, lau
  <1>. QED
    BY <1>1, <1>2, <1>3, <1>5, <1>7, <1>8, <1>9, <1>10, <1>11

(* What is left to show of the acknowledgements after a step of a listener. *)
LEMMA ListenerAcks ==
  ASSUME EpochInv, NEW s \in Servers, ListenerStep1(s),
         <<s, 1>> \in acks' => <<s, 1>> \in acks \/ (Sent /\ SomeoneAsked /\ eacl_epoch[s] = Target),
         \A t \in Servers : t # s => (<<t, 1>> \in acks' => <<t, 1>> \in acks)
  PROVE  AcksOK'
  <1>0. /\ UNCHANGED <<phase, eacl_epoch>> /\ phase # "clients" /\ AcksOK
        /\ Target' = Target /\ Sent' = Sent /\ acks \subseteq acks'
        /\ (SomeoneAsked' <=> SomeoneAsked)
    BY ListenerRuns DEF EpochInv, srv, lau
  <1>1. Has(0) \subseteq Has(0)' /\ Has(1) \subseteq Has(1)' /\ Has(0)' \subseteq Servers
        /\ Has(1)' \subseteq Servers
    BY <1>0 DEF Has
  <1>2. \A t \in Has(1)' : Sent' /\ SomeoneAsked' /\ eacl_epoch'[t] = Target'
    BY <1>0 DEF AcksOK, Has
  <1>3. phase' = "remove" => Has(0)' = Servers \/ Has(1)' = Servers
    BY <1>0, <1>1 DEF AcksOK
  <1>. QED
    BY <1>0, <1>2, <1>3 DEF AcksOK

(* What a listener has at hand. *)
LEMMA AskHead ==
  ASSUME EpochInv, NEW s \in Servers, lPc[s] = "recv", sub[s] # <<>>, Head(sub[s]).type = "ASK"
  PROVE  /\ mPc = "gather" /\ epoch = Target /\ Head(sub[s]).epoch = epoch /\ Tail(sub[s]) = <<>>
         /\ ~(epoch < eacl_epoch[s])
  <1>. DEFINE ask == [type |-> "ASK", epoch |-> epoch]
              mlt == [type |-> "MLT"]
  <1>1. Head(<<mlt>>).type = "MLT" /\ Head(<<ask>>).epoch = epoch /\ Tail(<<ask>>) = <<>>
    BY OneMessage
  <1>2. sub[s] = <<ask>> \/ sub[s] = <<mlt>>
    BY DEF EpochInv, ListenersOK
  <1>3. sub[s] # <<mlt>>
    BY <1>1
  <1>4. sub[s] = <<ask>> /\ mPc = "gather"
    BY <1>2, <1>3 DEF EpochInv, ListenersOK
  <1>5. epoch = Target
    BY <1>4 DEF EpochInv, ManagerOK
  <1>6. ~(epoch < eacl_epoch[s])
    <2>1. HandlersOK /\ Target \in Nat
      BY Types DEF EpochInv, Epochs
    <2>2. sEpoch[s] = Target \/ sEpoch[s] = Target - 1
      BY <2>1 DEF HandlersOK
    <2>3. eacl_epoch[s] = sEpoch[s] \/ eacl_epoch[s] = sEpoch[s] - 1
      BY <2>1 DEF HandlersOK
    <2>4. ~(Target < eacl_epoch[s])
      BY <2>1, <2>2, <2>3
    <2>. QED
      BY <1>5, <2>4
  <1>. QED
    BY <1>1, <1>4, <1>5, <1>6

(* A table that waits for a listener is the one the manager just sent. *)
LEMMA MltHead ==
  ASSUME EpochInv, NEW s \in Servers, lPc[s] = "recv", sub[s] # <<>>, Head(sub[s]).type = "MLT"
  PROVE  /\ Sent /\ SomeoneAsked /\ eacl_epoch[s] = Target /\ <<s, 1>> \notin acks
         /\ sub[s] = <<[type |-> "MLT"]>> /\ Tail(sub[s]) = <<>>
  <1>. DEFINE ask == [type |-> "ASK", epoch |-> epoch]
              mlt == [type |-> "MLT"]
  <1>1. Head(<<ask>>).type = "ASK" /\ Tail(<<mlt>>) = <<>>
    BY OneMessage
  <1>2. sub[s] # <<ask>>
    BY <1>1
  <1>. QED
    BY <1>1, <1>2 DEF EpochInv, ListenersOK

(* The listener receives ASK ... *)
LEMMA ReceiveAskInv ==
  ASSUME EpochInv, NEW s \in Servers, ReceiveAsk(s)
  PROVE  EpochInv'
  <1>0. /\ TypeOK /\ TypeOK' /\ UNCHANGED <<srv, mgr, lau>> /\ UNCHANGED <<push, acks>>
        /\ phase # "clients" /\ Target' = Target /\ Sent' = Sent
        /\ \A t \in Servers : Asked(t)' <=> Asked(t)
        /\ (SomeoneAsked' <=> SomeoneAsked)
        /\ HandlersOK' /\ ManagerOK'
    BY ServerTypes, ListenerRuns DEF ListenerStep1, ServerStep, EpochInv, ReceiveAsk
  <1>1. mPc = "gather" /\ epoch = Target
    BY AskHead DEF ReceiveAsk
  <1>2. /\ sub' = [sub EXCEPT ![s] = <<>>]
        /\ lPc' = [lPc EXCEPT ![s] = "answer"]
        /\ needed' = [needed EXCEPT ![s] = epoch]
    BY AskHead DEF ReceiveAsk
  <1>3. sub[s] # <<>>
    BY DEF ReceiveAsk
  <1>4. MessagesOK'
    BY <1>0, <1>1, <1>2, <1>3 DEF EpochInv, MessagesOK, TypeOK, srv, mgr
  <1>5. ListenersOK'
    <2>1. epoch \in Nat /\ epoch' = epoch /\ mPc' = mPc
      BY <1>0, Types DEF Epochs, mgr
    <2>2. /\ sub'[s] = <<>> /\ lPc'[s] = "answer" /\ needed'[s] = epoch
          /\ \A t \in Servers \ {s} : sub'[t] = sub[t] /\ lPc'[t] = lPc[t] /\ needed'[t] = needed[t]
      BY <1>0, <1>2 DEF TypeOK
    <2>3. UNCHANGED <<eacl_epoch, acks>>
      BY <1>0 DEF srv
    <2>4. ListenersOK /\ Target' = Target /\ Sent' = Sent /\ (SomeoneAsked' <=> SomeoneAsked)
      BY <1>0 DEF EpochInv
    <2>. DEFINE Fine(t) ==
           /\ needed[t] <= epoch
           /\ needed[t] = Target => Target = 0 \/ mPc = "gather" \/ Sent
           /\ \/ sub[t] = <<>> /\ lPc[t] = "recv"
              \/ mPc = "gather" /\ sub[t] = <<[type |-> "ASK", epoch |-> epoch]>> /\ lPc[t] = "recv"
              \/ mPc = "gather" /\ sub[t] = <<>> /\ lPc[t] = "answer" /\ needed[t] = epoch
              \/ /\ Sent /\ SomeoneAsked /\ eacl_epoch[t] = Target /\ <<t, 1>> \notin acks
                 /\ \/ sub[t] = <<[type |-> "MLT"]>> /\ lPc[t] = "recv"
                    \/ sub[t] = <<>> /\ lPc[t] = "transfer"
    <2>5. Fine(s)'
      BY <1>1, <2>1, <2>2
    <2>6. \A t \in Servers \ {s} : Fine(t)'
      BY <2>1, <2>2, <2>3, <2>4 DEF ListenersOK
    <2>. QED
      BY <2>5, <2>6 DEF ListenersOK
  <1>6. GatherOK'
    <2>1. Counted' = Counted /\ Counted \subseteq Servers /\ s \notin Counted
      BY <1>0, <1>1, <1>3, CountedServers DEF EpochInv, GatherOK, Counted, mgr
    <2>2. \A t \in Servers : HasEacl(t)' <=> HasEacl(t)
      BY <1>0 DEF HasEacl
    <2>. QED
      BY <1>0, <1>2, <2>1, <2>2 DEF EpochInv, GatherOK, TypeOK, mgr, srv
  <1>7. AcksOK'
    BY <1>0, ListenerAcks DEF ListenerStep1
  <1>. QED
    BY <1>0, <1>4, <1>5, <1>6, <1>7 DEF EpochInv

(* ... or the table, ... *)
LEMMA ReceiveMltInv ==
  ASSUME EpochInv, NEW s \in Servers, ReceiveMlt(s)
  PROVE  EpochInv'
  <1>0. /\ TypeOK /\ TypeOK' /\ UNCHANGED <<srv, mgr, lau>> /\ UNCHANGED <<push, acks>>
        /\ phase # "clients" /\ Target' = Target /\ Sent' = Sent
        /\ \A t \in Servers : Asked(t)' <=> Asked(t)
        /\ (SomeoneAsked' <=> SomeoneAsked)
        /\ HandlersOK' /\ ManagerOK'
    BY ServerTypes, ListenerRuns DEF ListenerStep1, ServerStep, EpochInv, ReceiveMlt
  <1>1. /\ Sent /\ SomeoneAsked /\ eacl_epoch[s] = Target /\ <<s, 1>> \notin acks
        /\ sub[s] # <<>> /\ Tail(sub[s]) = <<>>
    BY MltHead DEF ReceiveMlt
  <1>2. /\ sub' = [sub EXCEPT ![s] = <<>>]
        /\ lPc' = [lPc EXCEPT ![s] = "transfer"]
        /\ needed' = needed
    BY <1>1 DEF ReceiveMlt
  <1>3. mPc # "gather"
    BY <1>1 DEF EpochInv, ManagerOK, Sent
  <1>4. MessagesOK'
    BY <1>0, <1>1, <1>2 DEF EpochInv, MessagesOK, TypeOK, srv, mgr
  <1>5. ListenersOK'
    <2>1. epoch' = epoch /\ mPc' = mPc
      BY <1>0 DEF mgr
    <2>2. /\ sub'[s] = <<>> /\ lPc'[s] = "transfer"
          /\ \A t \in Servers \ {s} : sub'[t] = sub[t] /\ lPc'[t] = lPc[t]
      BY <1>0, <1>2 DEF TypeOK
    <2>3. UNCHANGED <<eacl_epoch, acks>>
      BY <1>0 DEF srv
    <2>. QED
      BY <1>0, <1>1, <1>2, <2>1, <2>2, <2>3 DEF EpochInv, ListenersOK
  <1>6. GatherOK'
    BY <1>0, <1>3 DEF GatherOK, mgr
  <1>7. AcksOK'
    BY <1>0, ListenerAcks DEF ListenerStep1
  <1>. QED
    BY <1>0, <1>4, <1>5, <1>6, <1>7 DEF EpochInv

(* ... returns from the transfer ... *)
LEMMA TransferredInv ==
  ASSUME EpochInv, NEW s \in Servers, Transferred(s)
  PROVE  EpochInv'
  <1>0. /\ TypeOK /\ TypeOK' /\ UNCHANGED <<srv, mgr, lau>> /\ UNCHANGED <<push, sub, needed>>
        /\ phase # "clients" /\ Target' = Target /\ Sent' = Sent
        /\ \A t \in Servers : Asked(t)' <=> Asked(t)
        /\ (SomeoneAsked' <=> SomeoneAsked)
        /\ HandlersOK' /\ ManagerOK'
    BY ServerTypes, ListenerRuns DEF ListenerStep1, ServerStep, EpochInv, Transferred
  <1>1. Sent /\ SomeoneAsked /\ eacl_epoch[s] = Target /\ sub[s] = <<>>
    BY DEF EpochInv, ListenersOK, Transferred
  <1>2. lPc' = [lPc EXCEPT ![s] = "recv"] /\ acks' = acks \cup {<<s, 1>>} /\ lPc[s] = "transfer"
    BY DEF Transferred
  <1>3. mPc # "gather"
    BY <1>1 DEF EpochInv, ManagerOK, Sent
  <1>4. MessagesOK'
    BY <1>0, <1>2 DEF EpochInv, MessagesOK, TypeOK, srv, mgr
  <1>5. \A t \in Servers : t # s => (<<t, 1>> \in acks' <=> <<t, 1>> \in acks)
    BY <1>2
  <1>6. ListenersOK'
    <2>1. epoch' = epoch /\ mPc' = mPc /\ eacl_epoch' = eacl_epoch
      BY <1>0 DEF mgr, srv
    <2>2. /\ lPc'[s] = "recv"
          /\ \A t \in Servers \ {s} : lPc'[t] = lPc[t]
      BY <1>0, <1>2 DEF TypeOK
    <2>. QED
      BY <1>0, <1>1, <1>5, <2>1, <2>2 DEF EpochInv, ListenersOK
  <1>7. GatherOK'
    BY <1>0, <1>3 DEF GatherOK, mgr
  <1>8. AcksOK'
    BY <1>0, <1>1, <1>5, ListenerAcks DEF ListenerStep1
  <1>. QED
    BY <1>0, <1>4, <1>6, <1>7, <1>8 DEF EpochInv

(* ... and answers an ASK. *)
LEMMA AnswerInv ==
  ASSUME EpochInv, NEW s \in Servers, Answer(s)
  PROVE  EpochInv'
  <1>0. /\ TypeOK /\ TypeOK' /\ UNCHANGED <<srv, mgr, lau>> /\ UNCHANGED <<sub, acks, needed>>
        /\ phase # "clients" /\ Target' = Target /\ Sent' = Sent
        /\ \A t \in Servers : Asked(t)' <=> Asked(t)
        /\ (SomeoneAsked' <=> SomeoneAsked)
        /\ HandlersOK' /\ ManagerOK' /\ MessagesOK
    BY ServerTypes, ListenerRuns DEF ListenerStep1, ServerStep, EpochInv, Answer
  <1>1. mPc = "gather" /\ sub[s] = <<>> /\ needed[s] = epoch /\ epoch = Target /\ lPc[s] = "answer"
    <2>1. lPc[s] = "answer"
      BY DEF Answer
    <2>2. mPc = "gather" /\ sub[s] = <<>> /\ needed[s] = epoch
      BY <2>1 DEF EpochInv, ListenersOK
    <2>. QED
      BY <2>1, <2>2 DEF EpochInv, ManagerOK
  <1>2. eacl_epoch[s] = Target /\ sai[s] = Target
    <2>1. HandlersOK /\ Target \in Nat /\ eacl_epoch[s] >= Target
      BY <1>1, Types DEF EpochInv, Epochs, Answer
    <2>2. /\ sEpoch[s] = Target \/ sEpoch[s] = Target - 1
          /\ eacl_epoch[s] = sEpoch[s] \/ eacl_epoch[s] = sEpoch[s] - 1
          /\ sai[s] = sEpoch[s]
      BY <2>1 DEF HandlersOK
    <2>. QED
      BY <2>1, <2>2
  <1>. DEFINE m == [type |-> "EACL", srv |-> s, sai |-> sai[s]]
              n == Len(push[s]) + 1
  <1>3. m \in ToManager /\ m.type = "EACL" /\ m.srv = s /\ m.sai = Target
    BY <1>0, <1>2 DEF ToManager, TypeOK
  <1>4. /\ push[s] \in Seq(ToManager) /\ push'[s] = Append(push[s], m)
        /\ \A t \in Servers \ {s} : push'[t] = push[t]
    BY <1>0 DEF TypeOK, Answer
  <1>5. lPc'[s] = "recv" /\ \A t \in Servers \ {s} : lPc'[t] = lPc[t]
    BY <1>0 DEF TypeOK, Answer
  <1>. HIDE DEF m
  <1>6. /\ DOMAIN push'[s] = DOMAIN push[s] \cup {n} /\ n \notin DOMAIN push[s]
        /\ \A i \in DOMAIN push[s] : push'[s][i] = push[s][i]
        /\ push'[s][n] = m
    BY <1>3, <1>4, Appends
  <1>. HIDE DEF n
  <1>7. \A i \in DOMAIN push[s] : push[s][i].type # "EACL"
    BY <1>0, <1>1 DEF MessagesOK
  <1>8. mPc' = mPc /\ eacl_epoch' = eacl_epoch /\ epoch' = epoch /\ gathered' = gathered
    BY <1>0 DEF mgr, srv
  <1>9. MessagesOK'
    <2>. SUFFICES ASSUME NEW t \in Servers, NEW i \in DOMAIN push'[t]
                  PROVE
           /\ push'[t][i].type = "HELP" => push'[t][i].epoch = Target /\ Target > 0 /\ Asked(t)'
           /\ push'[t][i].type = "EACL" =>
                /\ push'[t][i].srv = t /\ push'[t][i].sai = Target
                /\ mPc = "gather" /\ sub[t] = <<>> /\ lPc'[t] = "recv" /\ eacl_epoch[t] = Target
                /\ \A j \in DOMAIN push'[t] : push'[t][j].type = "EACL" => j = i
      BY <1>0, <1>8 DEF MessagesOK
    <2>1. CASE t # s
      BY <1>0, <1>4, <1>5, <2>1 DEF MessagesOK
    <2>2. CASE t = s /\ i = n
      BY <1>1, <1>2, <1>3, <1>5, <1>6, <1>7, <2>2
    <2>3. CASE t = s /\ i # n
      BY <1>0, <1>6, <1>7, <2>3 DEF MessagesOK
    <2>. QED
      BY <2>1, <2>2, <2>3
  <1>10. ListenersOK'
    <2>1. ListenersOK
      BY DEF EpochInv
    <2>. QED
      BY <1>0, <1>1, <1>5, <1>8, <2>1 DEF ListenersOK
  <1>11. GatherOK'
    <2>1. GatherOK /\ Counted' = Counted /\ Counted \subseteq Servers /\ s \notin Counted
      BY <1>0, <1>1, <1>8, CountedServers DEF EpochInv, GatherOK, Counted
    <2>2. \A t \in Servers \ {s} : HasEacl(t)' <=> HasEacl(t)
      BY <1>4 DEF HasEacl
    <2>. QED
      BY <1>0, <1>5, <1>8, <2>1, <2>2 DEF GatherOK
  <1>12. AcksOK'
    BY <1>0, ListenerAcks DEF ListenerStep1
  <1>. QED
    BY <1>0, <1>9, <1>10, <1>11, <1>12 DEF EpochInv

(* Every step of a server keeps the invariant. *)
LEMMA ServerInv ==
  ASSUME EpochInv, NEW s \in Servers, ServerStep(s)
  PROVE  EpochInv'
  BY HandlerInv, ReceiveAskInv, AnswerInv, ReceiveMltInv, TransferredInv DEF ServerStep, HandlerStep1

-----------------------------------------------------------------------------
(* The manager. *)

(* What the manager leaves alone. *)
LEMMA ManagerRuns ==
  ASSUME EpochInv, ManagerStep
  PROVE  /\ UNCHANGED <<srv, lst, acks, lau>> /\ phase # "clients"
         /\ Target' = Target
         /\ \A t \in Servers : Asked(t)' <=> Asked(t)
         /\ SomeoneAsked' <=> SomeoneAsked
         /\ HandlersOK'
         /\ Has(1)' = Has(1) /\ Has(0)' = Has(0)
  <1>0. ManagerOK /\ AcksOK
    BY DEF EpochInv
  <1>1. UNCHANGED <<srv, lst, acks, lau>>
    BY DEF ManagerStep, usrHandler2, MgrReceive, MgrGather, MgrCompare, MgrTest, MgrAsk, MgrSend,
           MgrMark
  <1>2. mSignalled \/ mPc # "recv" \/ \E s \in Servers : push[s] # <<>>
    BY DEF ManagerStep, usrHandler2, MgrReceive, MgrGather, MgrCompare, MgrTest, MgrAsk, MgrSend,
           MgrMark
  <1>3. phase # "clients"
    BY <1>0, <1>2 DEF AcksOK
  <1>4. Target' = Target
    <2>1. CASE usrHandler2
      BY <1>0, <2>1 DEF usrHandler2, Target, ManagerOK, lau
    <2>2. CASE ~usrHandler2
      <3>1. UNCHANGED <<mSignalled, epoch>>
        BY <2>2 DEF ManagerStep, MgrReceive, MgrGather, MgrCompare, MgrTest, MgrAsk, MgrSend,
                    MgrMark
      <3>. QED
        BY <1>1, <3>1 DEF Target, lau
    <2>. QED
      BY <2>1, <2>2
  <1>5. \A t \in Servers : Asked(t)' <=> Asked(t)
    BY <1>1 DEF Asked, srv
  <1>6. SomeoneAsked' <=> SomeoneAsked
    BY <1>5 DEF SomeoneAsked
  <1>7. HandlersOK'
    BY <1>1, <1>4 DEF EpochInv, HandlersOK, srv
  <1>. QED
    BY <1>1, <1>3, <1>4, <1>5, <1>6, <1>7 DEF Has

(* Steps that neither send nor receive a message. *)
LEMMA ManagerQuiet ==
  ASSUME EpochInv, ManagerStep, UNCHANGED <<sub, push>>, ManagerOK', mPc' = "gather" <=> mPc = "gather",
         UNCHANGED gathered, UNCHANGED epoch, Sent => Sent'
  PROVE  EpochInv'
  <1>0. /\ TypeOK' /\ UNCHANGED <<srv, lst, acks, lau>> /\ phase # "clients" /\ Target' = Target
        /\ \A t \in Servers : Asked(t)' <=> Asked(t)
        /\ (SomeoneAsked' <=> SomeoneAsked)
        /\ HandlersOK' /\ Has(1)' = Has(1) /\ Has(0)' = Has(0) /\ Has(1) \subseteq Servers
    BY ManagerRuns, ManagerTypes DEF Has
  <1>1. MessagesOK'
    BY <1>0 DEF EpochInv, MessagesOK, srv, lst
  <1>2. ListenersOK'
    BY <1>0 DEF EpochInv, ListenersOK, srv, lst
  <1>3. GatherOK'
    <2>1. Counted' = Counted /\ \A t : HasEacl(t)' <=> HasEacl(t)
      BY DEF Counted, HasEacl
    <2>. QED
      BY <1>0, <2>1 DEF EpochInv, GatherOK, srv, lst
  <1>4. AcksOK'
    BY <1>0 DEF EpochInv, AcksOK, srv, lau
  <1>. QED
    BY <1>0, <1>1, <1>2, <1>3, <1>4 DEF EpochInv

(* The manager compares the epoch of a HELP, ... *)
LEMMA CompareInv ==
  ASSUME EpochInv, MgrCompare
  PROVE  EpochInv'
  <1>1. ManagerStep
    BY DEF ManagerStep
  <1>2. ManagerOK'
    BY <1>1, ManagerRuns DEF EpochInv, ManagerOK, MgrCompare, lau
  <1>. QED
    BY <1>1, <1>2, ManagerQuiet, ManagerRuns DEF MgrCompare, Sent

(* ... tests whether it has served the epoch ... *)
LEMMA TestInv ==
  ASSUME EpochInv, MgrTest
  PROVE  EpochInv'
  <1>1. ManagerStep
    BY DEF ManagerStep
  <1>2. epoch = Target
    <2>1. epoch >= Target
      BY DEF EpochInv, ManagerOK, MgrTest
    <2>2. epoch \in Nat /\ Target \in Nat /\ Target >= epoch
      BY Types DEF Epochs
    <2>. QED
      BY <2>1, <2>2
  <1>3. epoch_processed \in {0, 1}
    BY DEF EpochInv, TypeOK
  <1>4. ManagerOK'
    BY <1>1, <1>2, <1>3, ManagerRuns DEF EpochInv, ManagerOK, MgrTest, lau
  <1>. QED
    BY <1>1, <1>4, ManagerQuiet, ManagerRuns DEF MgrTest, Sent

(* ... and marks it as served. *)
LEMMA MarkInv ==
  ASSUME EpochInv, MgrMark
  PROVE  EpochInv'
  <1>1. ManagerStep
    BY DEF ManagerStep
  <1>2. ManagerOK'
    BY <1>1, ManagerRuns DEF EpochInv, ManagerOK, MgrMark, lau
  <1>3. Sent'
    BY <1>1, ManagerRuns DEF EpochInv, ManagerOK, MgrMark, Sent
  <1>. QED
    BY <1>1, <1>2, <1>3, ManagerQuiet DEF MgrMark

(* Its handler of SIGUSR2 starts an epoch. *)
LEMMA SignalInv ==
  ASSUME EpochInv, usrHandler2
  PROVE  EpochInv'
  <1>1. ManagerStep
    BY DEF ManagerStep
  <1>2. Target = epoch + 1 /\ epoch \in Nat /\ mPc \notin {"ask", "gather", "mark"}
    BY Types DEF EpochInv, ManagerOK, Target, usrHandler2, Epochs
  <1>3. ~Sent /\ mPc # "gather"
    BY <1>2 DEF Sent
  <1>4. /\ TypeOK' /\ UNCHANGED <<srv, lst, acks, lau>> /\ phase # "clients" /\ Target' = Target
        /\ \A t \in Servers : Asked(t)' <=> Asked(t)
        /\ (SomeoneAsked' <=> SomeoneAsked)
        /\ HandlersOK' /\ Has(1)' = Has(1) /\ Has(0)' = Has(0) /\ Has(1) \subseteq Servers
    BY <1>1, ManagerRuns, ManagerTypes DEF Has
  <1>5. MessagesOK'
    BY <1>3, <1>4 DEF EpochInv, MessagesOK, usrHandler2, srv, lst
  <1>6. ManagerOK'
    BY <1>2, <1>4 DEF EpochInv, ManagerOK, usrHandler2, lau
  <1>7. ListenersOK'
    <2>1. \A s \in Servers : needed[s] \in Nat /\ needed[s] <= epoch
      BY Types DEF EpochInv, ListenersOK
    <2>2. \A s \in Servers : needed[s] <= epoch' /\ needed[s] # Target
      BY <1>2, <2>1 DEF usrHandler2
    <2>3. \A s \in Servers : sub[s] = <<>> /\ lPc[s] = "recv"
      BY <1>3 DEF EpochInv, ListenersOK
    <2>. QED
      BY <1>4, <2>2, <2>3 DEF ListenersOK, usrHandler2, lst
  <1>8. GatherOK'
    BY <1>3 DEF GatherOK, usrHandler2
  <1>9. AcksOK'
    BY <1>3, <1>4 DEF EpochInv, AcksOK, lau
  <1>. QED
    BY <1>4, <1>5, <1>6, <1>7, <1>8, <1>9 DEF EpochInv

(* A message leaves a queue. *)
LEMMA Received ==
  ASSUME TypeOK, MessagesOK, NEW s \in Servers, push[s] # <<>>,
         push' = [push EXCEPT ![s] = Tail(@)], UNCHANGED <<srv, lst, sub, acks, mPc>>,
         Target' = Target
  PROVE  /\ MessagesOK'
         /\ \A t \in Servers : HasEacl(t)' => HasEacl(t)
         /\ Head(push[s]).type = "EACL" => HasEacl(s) /\ ~HasEacl(s)'
  <1>1. /\ push'[s] = Tail(push[s]) /\ push[s] \in Seq(ToManager)
        /\ \A t \in Servers \ {s} : push'[t] = push[t]
    BY DEF TypeOK
  <1>2. /\ Head(push[s]) = push[s][1] /\ 1 \in DOMAIN push[s]
        /\ \A i \in DOMAIN push'[s] : i + 1 \in DOMAIN push[s] /\ push'[s][i] = push[s][i + 1]
                                      /\ i \in Nat /\ i # 0
    <2>1. /\ Head(push[s]) = push[s][1] /\ 1 \in DOMAIN push[s]
          /\ \A i \in DOMAIN Tail(push[s]) : /\ i + 1 \in DOMAIN push[s]
                                             /\ Tail(push[s])[i] = push[s][i + 1]
                                             /\ i \in Nat /\ i # 0
      BY <1>1, Tails
    <2>. QED
      BY <1>1, <2>1
  <1>3. \A t \in Servers : Asked(t)' <=> Asked(t)
    BY DEF Asked, srv
  <1>4. MessagesOK'
    <2>. SUFFICES ASSUME NEW t \in Servers, NEW i \in DOMAIN push'[t]
                  PROVE
           /\ push'[t][i].type = "HELP" => push'[t][i].epoch = Target /\ Target > 0 /\ Asked(t)
           /\ push'[t][i].type = "EACL" =>
                /\ push'[t][i].srv = t /\ push'[t][i].sai = Target
                /\ mPc = "gather" /\ sub[t] = <<>> /\ lPc[t] = "recv" /\ eacl_epoch[t] = Target
                /\ \A j \in DOMAIN push'[t] : push'[t][j].type = "EACL" => j = i
      BY <1>3 DEF MessagesOK, srv, lst
    <2>1. CASE t # s
      BY <1>1, <2>1 DEF MessagesOK
    <2>2. CASE t = s
      <3>1. push[s][i + 1].type = "EACL" =>
              \A j \in DOMAIN push[s] : push[s][j].type = "EACL" => j = i + 1
        BY <1>2, <2>2 DEF MessagesOK
      <3>2. push'[s][i].type = "EACL" =>
              \A j \in DOMAIN push'[s] : push'[s][j].type = "EACL" => j = i
        BY <1>2, <2>2, <3>1
      <3>. QED
        BY <1>2, <2>2, <3>2 DEF MessagesOK
    <2>. QED
      BY <2>1, <2>2
  <1>5. \A t \in Servers : HasEacl(t)' => HasEacl(t)
    BY <1>1, <1>2 DEF HasEacl
  <1>6. Head(push[s]).type = "EACL" => HasEacl(s) /\ ~HasEacl(s)'
    <2>1. Head(push[s]).type = "EACL" =>
            \A j \in DOMAIN push[s] : push[s][j].type = "EACL" => j = 1
      BY <1>2 DEF MessagesOK
    <2>2. Head(push[s]).type = "EACL" => \A j \in DOMAIN push'[s] : push'[s][j].type # "EACL"
      BY <1>2, <2>1
    <2>. QED
      BY <1>2, <2>2 DEF HasEacl
  <1>. QED
    BY <1>4, <1>5, <1>6

(* It receives a HELP, and drops the rest, ... *)
LEMMA ReceiveInv ==
  ASSUME EpochInv, NEW s \in Servers, MgrReceive(s)
  PROVE  EpochInv'
  <1>1. ManagerStep
    BY DEF ManagerStep
  <1>2. /\ TypeOK' /\ UNCHANGED <<srv, lst, acks, lau>> /\ phase # "clients" /\ Target' = Target
        /\ \A t \in Servers : Asked(t)' <=> Asked(t)
        /\ (SomeoneAsked' <=> SomeoneAsked)
        /\ HandlersOK' /\ Has(1)' = Has(1) /\ Has(0)' = Has(0) /\ Has(1) \subseteq Servers
    BY <1>1, ManagerRuns, ManagerTypes DEF Has
  <1>3. mPc = "recv" /\ (mPc' = "recv" \/ mPc' = "compare") /\ Sent' = Sent
    <2>1. mPc = "recv" /\ UNCHANGED <<epoch, epoch_processed>>
      BY DEF MgrReceive
    <2>2. mPc' = "recv" \/ mPc' = "compare"
      BY <2>1 DEF MgrReceive
    <2>. QED
      BY <1>2, <2>1, <2>2 DEF Sent
  <1>4. /\ push[s] \in Seq(ToManager) /\ push'[s] = Tail(push[s])
        /\ \A t \in Servers \ {s} : push'[t] = push[t]
    BY DEF EpochInv, TypeOK, MgrReceive
  <1>5. /\ Head(push[s]) = push[s][1] /\ 1 \in DOMAIN push[s]
        /\ \A i \in DOMAIN push'[s] : i + 1 \in DOMAIN push[s] /\ push'[s][i] = push[s][i + 1]
    <2>1. /\ Head(push[s]) = push[s][1] /\ 1 \in DOMAIN push[s]
          /\ \A i \in DOMAIN Tail(push[s]) : /\ i + 1 \in DOMAIN push[s]
                                             /\ Tail(push[s])[i] = push[s][i + 1]
      BY <1>4, Tails DEF MgrReceive
    <2>. QED
      BY <1>4, <2>1
  <1>6. MessagesOK'
    <2>1. MessagesOK /\ \A t \in Servers : \A i \in DOMAIN push[t] : push[t][i].type # "EACL"
      BY <1>3 DEF EpochInv, MessagesOK
    <2>2. ASSUME NEW t \in Servers, NEW i \in DOMAIN push'[t]
          PROVE
             push'[t][i].type # "EACL"
             /\ (push'[t][i].type = "HELP" => push'[t][i].epoch = Target /\ Target > 0 /\ Asked(t))
      <3>1. CASE t = s
        BY <1>5, <2>1, <3>1 DEF MessagesOK
      <3>2. CASE t # s
        BY <1>4, <2>1, <3>2 DEF MessagesOK
      <3>. QED
        BY <3>1, <3>2
    <2>. QED
      BY <1>2, <2>2 DEF MessagesOK
  <1>7. ManagerOK'
    <2>1. Head(push[s]).type = "HELP" => Head(push[s]).epoch = Target /\ Target > 0 /\ SomeoneAsked
      BY <1>5 DEF EpochInv, MessagesOK, SomeoneAsked
    <2>. QED
      BY <1>2, <2>1 DEF EpochInv, ManagerOK, MgrReceive, lau
  <1>8. ListenersOK'
    BY <1>2, <1>3 DEF EpochInv, ListenersOK, MgrReceive, srv, lst
  <1>9. GatherOK'
    BY <1>3 DEF GatherOK
  <1>10. AcksOK'
    BY <1>2, <1>3 DEF EpochInv, AcksOK, srv, lau
  <1>. QED
    BY <1>2, <1>6, <1>7, <1>8, <1>9, <1>10 DEF EpochInv

(* ... asks all servers for their lists, ... *)
LEMMA AskInv ==
  ASSUME EpochInv, MgrAsk
  PROVE  EpochInv'
  <1>1. ManagerStep
    BY DEF ManagerStep
  <1>2. /\ TypeOK /\ TypeOK' /\ UNCHANGED <<srv, lst, acks, lau>> /\ phase # "clients" /\ Target' = Target
        /\ \A t \in Servers : Asked(t)' <=> Asked(t)
        /\ (SomeoneAsked' <=> SomeoneAsked)
        /\ HandlersOK' /\ Has(1)' = Has(1) /\ Has(0)' = Has(0) /\ Has(1) \subseteq Servers
    BY <1>1, ManagerRuns, ManagerTypes DEF Has, EpochInv
  <1>3. /\ mPc = "ask" /\ mPc' = "gather" /\ epoch = Target /\ epoch' = epoch
        /\ epoch_processed = 0 /\ UNCHANGED <<epoch_processed, push, helpEpoch>>
        /\ gathered' = <<>>
    BY DEF EpochInv, ManagerOK, MgrAsk
  <1>4. ~Sent /\ ~Sent'
    BY <1>3 DEF Sent
  <1>5. \A t \in Servers : sub[t] = <<>> /\ lPc[t] = "recv"
    BY <1>3, <1>4 DEF EpochInv, ListenersOK
  <1>6. \A t \in Servers : sub'[t] = <<[type |-> "ASK", epoch |-> epoch]>>
    <2>. DEFINE ask == [type |-> "ASK", epoch |-> epoch]
    <2>1. sub' = [t \in Servers |-> Append(sub[t], ask)]
      BY DEF MgrAsk, Publish
    <2>2. Append(<<>>, ask) = <<ask>>
      BY OneMessage
    <2>. HIDE DEF ask
    <2>3. \A t \in Servers : sub'[t] = <<ask>>
      BY <1>5, <2>1, <2>2
    <2>. QED
      BY <2>3 DEF ask
  <1>7. MessagesOK'
    <2>1. \A t \in Servers : \A i \in DOMAIN push[t] : push[t][i].type # "EACL"
      BY <1>3 DEF EpochInv, MessagesOK
    <2>. QED
      BY <1>2, <1>3, <2>1 DEF EpochInv, MessagesOK
  <1>8. ManagerOK'
    BY <1>2, <1>3 DEF EpochInv, ManagerOK, MgrAsk, lau
  <1>9. ListenersOK'
    BY <1>2, <1>3, <1>5, <1>6 DEF EpochInv, ListenersOK, lst
  <1>10. GatherOK'
    <2>1. Counted' = {} /\ Len(gathered') = 0 /\ DOMAIN gathered' = {}
      BY <1>3 DEF Counted
    <2>. QED
      BY <2>1, FS_EmptySet DEF GatherOK
  <1>11. AcksOK'
    BY <1>2, <1>4 DEF EpochInv, AcksOK, lau
  <1>. QED
    BY <1>2, <1>7, <1>8, <1>9, <1>10, <1>11 DEF EpochInv

(* Who is counted when the round is complete. *)
LEMMA AllCounted ==
  ASSUME EpochInv, mPc = "gather", Len(gathered) = Cardinality(Servers)
  PROVE  Counted = Servers
  <1>1. Counted \subseteq Servers /\ Cardinality(Counted) = Cardinality(Servers)
    BY CountedServers DEF EpochInv, GatherOK
  <1>. QED
    BY <1>1, ServersFinite, FS_Subset

(* ... sends the table when it has them ... *)
LEMMA SendInv ==
  ASSUME EpochInv, MgrSend
  PROVE  EpochInv'
  <1>1. ManagerStep
    BY DEF ManagerStep
  <1>2. /\ TypeOK' /\ UNCHANGED <<srv, lst, acks, lau>> /\ phase # "clients" /\ Target' = Target
        /\ \A t \in Servers : Asked(t)' <=> Asked(t)
        /\ (SomeoneAsked' <=> SomeoneAsked)
        /\ HandlersOK' /\ Has(1)' = Has(1) /\ Has(0)' = Has(0) /\ Has(1) \subseteq Servers
    BY <1>1, ManagerRuns, ManagerTypes DEF Has
  <1>3. /\ mPc = "gather" /\ mPc' = "mark" /\ epoch = Target /\ SomeoneAsked
        /\ UNCHANGED <<epoch, epoch_processed, push, helpEpoch>> /\ epoch_processed = 0
    BY DEF EpochInv, ManagerOK, MgrSend
  <1>4. ~Sent /\ Sent' /\ Has(1) = {}
    BY <1>3 DEF Sent, EpochInv, AcksOK
  <1>5. \A t \in Servers :
          sub[t] = <<>> /\ lPc[t] = "recv" /\ ~HasEacl(t) /\ eacl_epoch[t] = Target
    BY AllCounted DEF EpochInv, GatherOK, MgrSend
  <1>6. \A t \in Servers : sub'[t] = <<[type |-> "MLT"]>>
    <2>. DEFINE mlt == [type |-> "MLT"]
    <2>1. sub' = [t \in Servers |-> Append(sub[t], mlt)]
      BY DEF MgrSend, Publish
    <2>2. Append(<<>>, mlt) = <<mlt>>
      BY OneMessage
    <2>. HIDE DEF mlt
    <2>3. \A t \in Servers : sub'[t] = <<mlt>>
      BY <1>5, <2>1, <2>2
    <2>. QED
      BY <2>3 DEF mlt
  <1>7. MessagesOK'
    <2>1. \A t \in Servers : \A i \in DOMAIN push[t] : push[t][i].type # "EACL"
      BY <1>5 DEF HasEacl
    <2>. QED
      BY <1>2, <1>3, <2>1 DEF EpochInv, MessagesOK
  <1>8. ManagerOK'
    BY <1>2, <1>3 DEF EpochInv, ManagerOK, MgrSend, lau
  <1>9. ListenersOK'
    <2>1. \A t \in Servers : <<t, 1>> \notin acks
      BY <1>4 DEF Has
    <2>. QED
      BY <1>2, <1>3, <1>4, <1>5, <1>6, <2>1 DEF EpochInv, ListenersOK, srv, lst
  <1>10. GatherOK'
    BY <1>3 DEF GatherOK
  <1>11. AcksOK'
    BY <1>2, <1>4 DEF EpochInv, AcksOK, lau
  <1>. QED
    BY <1>2, <1>7, <1>8, <1>9, <1>10, <1>11 DEF EpochInv

(* ... and gathers what they answer. *)
LEMMA GatherInv ==
  ASSUME EpochInv, NEW s \in Servers, MgrGather(s)
  PROVE  EpochInv'
  <1>1. ManagerStep
    BY DEF ManagerStep
  <1>2. /\ TypeOK /\ TypeOK' /\ UNCHANGED <<srv, lst, acks, lau>> /\ phase # "clients" /\ Target' = Target
        /\ \A t \in Servers : Asked(t)' <=> Asked(t)
        /\ (SomeoneAsked' <=> SomeoneAsked)
        /\ HandlersOK' /\ Has(1)' = Has(1) /\ Has(0)' = Has(0) /\ Has(1) \subseteq Servers
    BY <1>1, ManagerRuns, ManagerTypes DEF Has, EpochInv
  <1>3. /\ mPc = "gather" /\ epoch = Target /\ MessagesOK /\ push[s] # <<>>
        /\ push' = [push EXCEPT ![s] = Tail(@)]
        /\ UNCHANGED <<sub, epoch, epoch_processed, mPc, helpEpoch>>
    BY DEF EpochInv, ManagerOK, MgrGather
  <1>. DEFINE m == Head(push[s])
              g == [srv |-> m.srv, sai |-> m.sai]
  <1>4. /\ MessagesOK'
        /\ \A t \in Servers : HasEacl(t)' => HasEacl(t)
        /\ m.type = "EACL" => HasEacl(s) /\ ~HasEacl(s)'
    BY <1>2, <1>3, Received
  <1>5. Sent' = Sent
    BY <1>2, <1>3 DEF Sent
  <1>6. ManagerOK'
    BY <1>2, <1>3 DEF EpochInv, ManagerOK, MgrGather, lau
  <1>7. ListenersOK'
    BY <1>2, <1>3, <1>5 DEF EpochInv, ListenersOK, srv, lst
  <1>8. AcksOK'
    BY <1>2, <1>5 DEF EpochInv, AcksOK, srv, lau
  <1>9. GatherOK /\ Counted \subseteq Servers
    BY <1>2, CountedServers DEF EpochInv
  <1>10. CASE m.type # "EACL"
    <2>1. gathered' = gathered
      BY <1>10 DEF MgrGather
    <2>2. Counted' = Counted
      BY <2>1 DEF Counted
    <2>3. GatherOK'
      BY <1>2, <1>3, <1>4, <1>9, <2>1, <2>2 DEF GatherOK, srv, lst
    <2>. QED
      BY <1>2, <1>4, <1>6, <1>7, <1>8, <2>3 DEF EpochInv
  <1>11. CASE m.type = "EACL"
    <2>1. /\ m.srv = s /\ m.sai = Target
          /\ sub[s] = <<>> /\ lPc[s] = "recv" /\ eacl_epoch[s] = Target
      <3>1. push[s] \in Seq(ToManager)
        BY <1>2 DEF TypeOK
      <3>2. m = push[s][1] /\ 1 \in DOMAIN push[s]
        BY <1>3, <3>1, Tails
      <3>. HIDE DEF m
      <3>. QED
        BY <1>3, <1>11, <3>2 DEF MessagesOK
    <2>2. gathered' = Append(gathered, g)
      BY <1>11 DEF MgrGather
    <2>3. g.srv = s /\ g.sai = Target
      BY <2>1
    <2>. HIDE DEF m, g
    <2>4. gathered \in Seq([srv : Servers, sai : Epochs])
      BY <1>2 DEF TypeOK
    <2>5. /\ Len(gathered') = Len(gathered) + 1
          /\ DOMAIN gathered' = DOMAIN gathered \cup {Len(gathered) + 1}
          /\ Len(gathered) + 1 \notin DOMAIN gathered
          /\ \A i \in DOMAIN gathered : gathered'[i] = gathered[i]
          /\ gathered'[Len(gathered) + 1] = g
      BY <2>2, <2>4
    <2>6. Counted' = Counted \cup {s}
      BY <2>3, <2>5 DEF Counted
    <2>7. s \notin Counted
      BY <1>3, <1>4, <1>9, <1>11 DEF GatherOK
    <2>8. Cardinality(Counted') = Len(gathered')
      <3>1. IsFiniteSet(Counted)
        BY <1>9, ServersFinite, FS_Subset
      <3>2. Cardinality(Counted \cup {s}) = Cardinality(Counted) + 1
        BY <2>7, <3>1, FS_AddElement
      <3>. QED
        BY <1>3, <1>9, <2>5, <2>6, <3>2 DEF GatherOK
    <2>9. \A i \in DOMAIN gathered' : gathered'[i].sai = epoch'
      BY <1>3, <1>9, <2>3, <2>5 DEF GatherOK
    <2>10. \A t \in Counted' :
             sub'[t] = <<>> /\ lPc'[t] = "recv" /\ ~HasEacl(t)' /\ eacl_epoch'[t] = Target'
      BY <1>2, <1>3, <1>4, <1>9, <1>11, <2>1, <2>6 DEF GatherOK, srv, lst
    <2>11. GatherOK'
      BY <2>8, <2>9, <2>10 DEF GatherOK
    <2>. QED
      BY <1>2, <1>4, <1>6, <1>7, <1>8, <2>11 DEF EpochInv
  <1>. QED
    BY <1>10, <1>11

(* Every step of the manager keeps the invariant. *)
LEMMA ManagerInv ==
  ASSUME EpochInv, ManagerStep
  PROVE  EpochInv'
  BY SignalInv, ReceiveInv, GatherInv, CompareInv, TestInv, AskInv, SendInv, MarkInv DEF ManagerStep

-----------------------------------------------------------------------------
(* The launcher. *)

(* The launcher signals a process, when the step before has settled. *)
LEMMA LaunchSignalInv ==
  ASSUME EpochInv, NEW sig \in Signals, LaunchSignal(sig)
  PROVE  EpochInv'
  <1>1. TypeOK'
    BY LauncherTypes DEF Launch
  <1>2. /\ acks = {} /\ ~mSignalled /\ mPc = "recv" /\ phase = "clients"
        /\ \A s \in Servers :
             /\ signalled[s] = "none" /\ hPc[s] = "idle" /\ push[s] = <<>>
             /\ sub[s] = <<>> /\ lPc[s] = "recv"
    BY DEF EpochInv, AcksOK, LaunchSignal
  <1>3. /\ UNCHANGED <<sEpoch, sai, eacl_epoch, hPc, lst, sub, push, mgr, acks>>
        /\ round' = round + 1 /\ \A s \in Servers : signalled'[s] = sig
        /\ phase' = IF sig = "USR2" THEN "manager" ELSE "synchro"
    BY DEF LaunchSignal
  <1>4. sig = "USR1" \/ sig = "USR2"
    BY EpochAssumption
  <1>5. Target = epoch /\ epoch \in Nat /\ round \in Nat /\ Target <= round
    BY <1>2, Types DEF Target, Epochs, EpochInv, TypeOK, ManagerOK
  <1>6. Target' = IF sig = "USR2" THEN epoch + 1 ELSE epoch
    BY <1>2, <1>3, <1>4 DEF Target, mgr
  <1>7. \A s \in Servers : sEpoch[s] = epoch /\ sai[s] = epoch /\ eacl_epoch[s] = epoch
    BY <1>2, <1>5 DEF EpochInv, HandlersOK
  <1>8. HandlersOK'
    BY <1>2, <1>3, <1>4, <1>5, <1>6, <1>7 DEF HandlersOK
  <1>9. MessagesOK'
    BY <1>2, <1>3 DEF MessagesOK
  <1>10. ManagerOK'
    <2>1. Target' <= round'
      BY <1>3, <1>5, <1>6
    <2>. QED
      BY <1>2, <1>3, <2>1 DEF ManagerOK, mgr
  <1>11. ListenersOK'
    <2>1. \A s \in Servers : needed[s] \in Nat /\ needed[s] <= epoch
      BY Types DEF EpochInv, ListenersOK
    <2>2. \A s \in Servers : needed[s] = Target' => Target' = 0 \/ Sent'
      <3>1. CASE sig = "USR2"
        BY <1>5, <1>6, <2>1, <3>1
      <3>2. CASE sig # "USR2"
        <4>1. Target' = Target /\ Sent' = Sent
          BY <1>3, <1>5, <1>6, <3>2 DEF Sent, mgr
        <4>. QED
          BY <1>2, <4>1 DEF EpochInv, ListenersOK
      <3>. QED
        BY <3>1, <3>2
    <2>. QED
      BY <1>2, <1>3, <2>1, <2>2 DEF ListenersOK, lst, mgr
  <1>12. GatherOK'
    BY <1>2, <1>3 DEF GatherOK, mgr
  <1>13. AcksOK'
    BY <1>2, <1>3 DEF AcksOK, Has
  <1>. QED
    BY <1>1, <1>8, <1>9, <1>10, <1>11, <1>12, <1>13 DEF EpochInv

(* Steps of the launcher between its signals and the removal of the acks. *)
LEMMA LaunchWaitInv ==
  ASSUME EpochInv, LaunchManager \/ SynchroAny \/ wait_1
  PROVE  EpochInv'
  <1>1. TypeOK'
    BY LauncherTypes DEF Launch, Synchro
  <1>2. /\ UNCHANGED <<srv, lst, sub, push, acks, round, epoch, epoch_processed, mPc, helpEpoch, gathered>>
        /\ phase' # "clients" /\ phase' # "manager"
    BY DEF LaunchManager, SynchroAny, wait_1, mgr
  <1>3. Target' = Target /\ Sent' = Sent
    <2>1. phase = "manager" \/ mSignalled <=> mSignalled'
      BY <1>2 DEF LaunchManager, SynchroAny, wait_1, mgr
    <2>. QED
      BY <1>2, <2>1 DEF Target, Sent
  <1>4. (\A s \in Servers : Asked(s)' <=> Asked(s)) /\ (SomeoneAsked' <=> SomeoneAsked)
    BY <1>2 DEF Asked, SomeoneAsked, srv
  <1>5. HandlersOK'
    BY <1>2, <1>3 DEF EpochInv, HandlersOK, srv
  <1>6. MessagesOK'
    BY <1>2, <1>3, <1>4 DEF EpochInv, MessagesOK, srv, lst
  <1>7. ManagerOK'
    BY <1>2, <1>3, <1>4 DEF EpochInv, ManagerOK
  <1>8. ListenersOK'
    BY <1>2, <1>3, <1>4 DEF EpochInv, ListenersOK, srv, lst
  <1>9. GatherOK'
    <2>1. Counted' = Counted /\ \A t : HasEacl(t)' <=> HasEacl(t)
      BY <1>2 DEF Counted, HasEacl
    <2>. QED
      BY <1>2, <1>3, <2>1 DEF EpochInv, GatherOK, srv, lst
  <1>10. AcksOK'
    <2>1. Has(0)' = Has(0) /\ Has(1)' = Has(1)
      BY <1>2 DEF Has
    <2>2. phase' = "remove" => Has(0) = Servers \/ Has(1) = Servers
      BY DEF LaunchManager, SynchroAny, wait_1
    <2>3. \A s \in Has(1) : Sent /\ SomeoneAsked /\ eacl_epoch[s] = Target
      BY DEF EpochInv, AcksOK
    <2>. QED
      BY <1>2, <1>3, <1>4, <2>1, <2>2, <2>3 DEF AcksOK, srv
  <1>. QED
    BY <1>1, <1>5, <1>6, <1>7, <1>8, <1>9, <1>10 DEF EpochInv

(* The acks prove that the step is over on every server. *)
LEMMA LaunchRemoveInv ==
  ASSUME EpochInv, Settles, LaunchRemove
  PROVE  EpochInv'
  <1>1. TypeOK'
    BY LauncherTypes DEF Launch, Synchro
  <1>2. /\ phase = "remove" /\ phase' = "clients" /\ acks' = {} /\ ~mSignalled /\ mPc = "recv"
        /\ \A s \in Servers : hPc[s] = "idle" /\ push[s] = <<>>
        /\ UNCHANGED <<srv, lst, sub, push, mgr, round>>
    BY DEF LaunchRemove, Settled
  <1>3. Target' = Target /\ Sent' = Sent
    BY <1>2 DEF Target, Sent, mgr
  <1>4. \A s \in Servers : signalled[s] = "none" /\ sub[s] = <<>> /\ lPc[s] = "recv"
    <2>1. CASE Has(0) = Servers
      <3>1. \A s \in Servers : <<s, 0>> \in acks
        BY <2>1 DEF Has
      <3>2. \A s \in Servers : signalled[s] = "none"
        BY <3>1 DEF EpochInv, HandlersOK
      <3>3. ~SomeoneAsked
        BY <3>1 DEF SomeoneAsked, Asked
      <3>. QED
        BY <1>2, <3>2, <3>3 DEF EpochInv, ListenersOK
    <2>2. CASE Has(1) = Servers
      <3>1. \A s \in Servers : <<s, 1>> \in acks /\ eacl_epoch[s] = Target
        BY <2>2 DEF Has, EpochInv, AcksOK
      <3>2. SomeoneAsked
        <4>1. PICK s \in Servers : TRUE
          BY ServersFinite
        <4>. QED
          BY <2>2, <4>1 DEF EpochInv, AcksOK
      <3>3. PICK t \in Servers : signalled[t] = "none" /\ <<t, 0>> \notin acks
        BY <3>2 DEF SomeoneAsked, Asked
      <3>4. \A s \in Servers : signalled[s] # "USR1"
        BY <3>3 DEF EpochInv, HandlersOK
      <3>5. \A s \in Servers : signalled[s] # "USR2"
        <4>1. Target \in Nat
          BY Types DEF Epochs
        <4>2. \A s \in Servers : eacl_epoch[s] = sEpoch[s]
          BY <1>2 DEF EpochInv, HandlersOK
        <4>3. \A s \in Servers : signalled[s] = "USR2" => sEpoch[s] = Target - 1
          BY DEF EpochInv, HandlersOK
        <4>4. Target - 1 # Target
          BY <4>1
        <4>. SUFFICES ASSUME NEW s \in Servers, signalled[s] = "USR2"
                      PROVE  FALSE
          OBVIOUS
        <4>5. sEpoch[s] = Target
          BY <3>1, <4>2
        <4>6. sEpoch[s] = Target - 1
          BY <4>3
        <4>. QED
          BY <4>4, <4>5, <4>6
      <3>6. \A s \in Servers : signalled[s] \in Signals \cup {"none"}
        BY DEF EpochInv, TypeOK
      <3>. QED
        BY <1>2, <3>1, <3>4, <3>5, <3>6, EpochAssumption DEF EpochInv, ListenersOK
    <2>. QED
      BY <1>2, <2>1, <2>2 DEF EpochInv, AcksOK
  <1>5. HandlersOK'
    BY <1>2, <1>3, <1>4 DEF EpochInv, HandlersOK, srv
  <1>6. MessagesOK'
    BY <1>2 DEF MessagesOK
  <1>7. ManagerOK'
    BY <1>2, <1>3 DEF EpochInv, ManagerOK, mgr
  <1>8. ListenersOK'
    BY <1>2, <1>3, <1>4 DEF EpochInv, ListenersOK, srv, lst, mgr
  <1>9. GatherOK'
    BY <1>2 DEF GatherOK, mgr
  <1>10. AcksOK'
    BY <1>2, <1>4 DEF AcksOK, Has, srv, lst, mgr
  <1>. QED
    BY <1>1, <1>5, <1>6, <1>7, <1>8, <1>9, <1>10 DEF EpochInv

(* The invariant speaks of these variables only. *)
LEMMA StutterInv ==
  ASSUME EpochInv, UNCHANGED vars
  PROVE  EpochInv'
  <1>1. UNCHANGED <<srv, lst, mgr, lau, sub, push, acks>>
    BY DEF vars
  <1>2. TypeOK'
    BY <1>1 DEF EpochInv, TypeOK, srv, lst, mgr, lau
  <1>3. Target' = Target /\ Sent' = Sent /\ SomeoneAsked' = SomeoneAsked
    BY <1>1 DEF Target, Sent, SomeoneAsked, Asked, srv, mgr, lau
  <1>4. HandlersOK'
    BY <1>1, <1>3 DEF EpochInv, HandlersOK, srv
  <1>5. MessagesOK'
    <2>1. \A t \in Servers : Asked(t)' <=> Asked(t)
      BY <1>1 DEF Asked, srv
    <2>. QED
      BY <1>1, <1>3, <2>1 DEF EpochInv, MessagesOK, srv, lst, mgr
  <1>6. ManagerOK'
    BY <1>1, <1>3 DEF EpochInv, ManagerOK, mgr, lau
  <1>7. ListenersOK'
    BY <1>1, <1>3 DEF EpochInv, ListenersOK, srv, lst, mgr
  <1>8. GatherOK'
    <2>1. Counted' = Counted /\ \A t : HasEacl(t)' <=> HasEacl(t)
      BY <1>1 DEF Counted, HasEacl, mgr
    <2>. QED
      BY <1>1, <1>3, <2>1 DEF EpochInv, GatherOK, srv, lst, mgr
  <1>9. AcksOK'
    <2>1. Has(0)' = Has(0) /\ Has(1)' = Has(1)
      BY <1>1 DEF Has
    <2>2. AcksOK
      BY DEF EpochInv
    <2>. QED
      BY <1>1, <1>3, <2>1, <2>2 DEF AcksOK, srv, lst, mgr, lau
  <1>. QED
    BY <1>2, <1>4, <1>5, <1>6, <1>7, <1>8, <1>9 DEF EpochInv

-----------------------------------------------------------------------------
(* The theorems. *)

(* Every step keeps the invariant, if all settles between two steps. *)
LEMMA NextInv ==
  ASSUME Settles, EpochInv, [Next]_vars
  PROVE  EpochInv'
  BY ServerInv, ManagerInv, LaunchSignalInv, LaunchWaitInv, LaunchRemoveInv, StutterInv
     DEF Next, Synchro, Stopped

(* Handlers, listeners, manager and launcher of the indedh build stay within *)
(* one step of the traces: whatever is under way is about the epoch the      *)
(* launcher has signalled last.                                              *)
THEOREM EpochInvariance ==
  ASSUME Settles
  PROVE  Spec => []EpochInv
  <1>1. EpochInv /\ [Next]_vars => EpochInv'
    BY NextInv
  <1>. QED
    BY InitInv, <1>1, PTL DEF Spec

(* The manager computes a table from one eacl of each server, all of the     *)
(* epoch it asked for: it counts answers, and no server answers twice, for   *)
(* the table of an epoch is asked for once.                                  *)
THEOREM EaclsAreOfThisEpoch ==
  ASSUME Settles
  PROVE  Spec => []EaclsOfThisEpoch
  <1>1. EpochInv => EaclsOfThisEpoch
    BY AllCounted DEF EpochInv, GatherOK, EaclsOfThisEpoch, Counted
  <1>. QED
    BY EpochInvariance, <1>1, PTL

(* synchro.bash lets the clients run only when no server has an ASK, a table *)
(* or a transfer left.                                                       *)
THEOREM ClientsRunInQuiet ==
  ASSUME Settles
  PROVE  Spec => []QuietWhileClientsRun
  <1>1. EpochInv => QuietWhileClientsRun
    BY DEF EpochInv, AcksOK, QuietWhileClientsRun
  <1>. QED
    BY EpochInvariance, <1>1, PTL

(* The manager's test of epoch_processed suffices: when it asks, no listener *)
(* has seen an ASK of this epoch.                                            *)
THEOREM AskedOnce ==
  ASSUME Settles
  PROVE  Spec => OneAskPerEpoch
  <1>1. ASSUME EpochInv, mPc = "ask"
        PROVE  \A s \in Servers : needed[s] < epoch
    <2>1. epoch = Target /\ Target > 0 /\ epoch_processed = 0 /\ epoch \in Nat
      BY <1>1, Types DEF EpochInv, ManagerOK, Epochs
    <2>2. ~Sent
      BY <1>1, <2>1 DEF Sent
    <2>3. \A s \in Servers : needed[s] <= epoch /\ needed[s] # epoch
      <3>1. mPc # "gather" /\ Target # 0
        BY <1>1, <2>1
      <3>2. \A s \in Servers : needed[s] <= epoch /\ needed[s] # Target
        BY <1>1, <2>2, <3>1 DEF EpochInv, ListenersOK
      <3>. QED
        BY <2>1, <3>2
    <2>4. \A s \in Servers : needed[s] \in Nat
      BY <1>1, Types
    <2>. QED
      BY <2>1, <2>3, <2>4
  <1>2. EpochInv /\ [Next]_vars =>
          [mPc = "ask" /\ mPc' = "gather" => \A s \in Servers : needed[s] < epoch]_vars
    BY <1>1
  <1>. QED
    BY EpochInvariance, <1>2, PTL DEF Spec, OneAskPerEpoch

(* A listener answers every ASK: the epoch it compares is never past the one *)
(* asked for, so the manager's count is reached.                             *)
THEOREM AsksAreAnswered ==
  ASSUME Settles
  PROVE  Spec => NoAskIgnored
  <1>1. ASSUME EpochInv, [Next]_vars, NEW s \in Servers,
               Len(sub'[s]) < Len(sub[s]), Head(sub[s]).type = "ASK"
        PROVE  lPc'[s] = "answer"
    <2>1. sub \in [Servers -> Seq(ToServers)]
      BY <1>1 DEF EpochInv, TypeOK
    <2>2. CASE ReceiveAsk(s)
      <3>1. lPc' = [lPc EXCEPT ![s] = "answer"]
        BY <1>1, <2>2, AskHead DEF ReceiveAsk
      <3>. QED
        BY <1>1, <3>1 DEF EpochInv, TypeOK
    <2>3. CASE sub'[s] = sub[s]
      <3>1. Len(sub[s]) \in Nat
        BY <2>1
      <3>. QED
        BY <1>1, <2>3, <3>1
    <2>4. ASSUME NEW m, sub' = [t \in Servers |-> Append(sub[t], m)]
          PROVE  FALSE
      <3>1. Len(sub'[s]) = Len(sub[s]) + 1 /\ Len(sub[s]) \in Nat
        BY <2>1, <2>4
      <3>. QED
        BY <1>1, <3>1
    <2>5. ASSUME NEW t \in Servers, ServerStep(t), ~ReceiveAsk(s), sub'[s] # sub[s]
          PROVE  FALSE
      <3>1. sub'[s] # sub[s] => ReceiveMlt(t) /\ t = s
        BY <2>1, <2>5 DEF ServerStep, distribution_signal1_action, Measure, PublishEpoch, NoNeed,
             AskForHelp, ReceiveAsk, Answer, ReceiveMlt, Transferred
      <3>. QED
        BY <1>1, <2>5, <3>1 DEF ReceiveMlt
    <2>6. ASSUME ManagerStep, sub' # sub
          PROVE  FALSE
      <3>1. MgrAsk \/ MgrSend
        BY <2>6 DEF ManagerStep, usrHandler2, MgrReceive, MgrGather, MgrCompare, MgrTest, MgrMark
      <3>. QED
        BY <2>4, <3>1 DEF MgrAsk, MgrSend, Publish
    <2>7. \/ sub' = sub \/ ManagerStep \/ \E t \in Servers : ServerStep(t)
      BY <1>1 DEF Next, Synchro, LaunchSignal, LaunchManager, SynchroAny, wait_1, LaunchRemove,
           Stopped, vars
    <2>. QED
      BY <2>2, <2>3, <2>5, <2>6, <2>7
  <1>2. EpochInv /\ [Next]_vars =>
          [\A s \in Servers :
             Len(sub'[s]) < Len(sub[s]) /\ Head(sub[s]).type = "ASK" => lPc'[s] = "answer"]_vars
    BY <1>1
  <1>. QED
    BY EpochInvariance, <1>2, PTL DEF Spec, NoAskIgnored

-----------------------------------------------------------------------------
-----------------------------------------------------------------------------
(* The transfers refine the exchange of IndepEpoch. *)

(* Every step with the transfers is a step of the exchange. *)
LEMMA StepOfExchange ==
  ASSUME [TxNext]_allVars
  PROVE  [Next]_vars
  <1>1. ASSUME NEW s \in Servers, HandlerStep(s) PROVE Next
    BY <1>1 DEF HandlerStep, Next, ServerStep
  <1>2. ASSUME NEW s \in Servers, ListenerStep(s) PROVE [Next]_vars
    BY <1>2 DEF ListenerStep, ReceiveTable, Compare, Join, Next, ServerStep
  <1>3. ASSUME NEW s \in Servers, SenderStep(s) \/ ReceiverStep(s) PROVE UNCHANGED vars
    BY <1>3 DEF SenderStep, SendEntry, SendAcked, ReceiverStep, ReceiveEntry
  <1>4. CASE ManagerLoop
    BY <1>4 DEF ManagerLoop, SendMlt, Next, ManagerStep
  <1>5. CASE usrHandler2 \/ (\E sig \in Signals : LaunchSignal(sig)) \/ Synchro \/ Stopped
    BY <1>5 DEF Next, ManagerStep
  <1>6. CASE UNCHANGED allVars
    BY <1>6 DEF allVars
  <1>. QED
    BY <1>1, <1>2, <1>3, <1>4, <1>5, <1>6 DEF TxNext

(* The windowed build keeps the invariant of the exchange: no step of a     *)
(* transfer thread (distribution_windowed_s.c) disturbs it.                *)
THEOREM ExchangeInvariance ==
  ASSUME Settles
  PROVE  TxSpec => []EpochInv
  <1>1. TxInit => EpochInv
    BY InitInv DEF TxInit
  <1>2. EpochInv /\ [TxNext]_allVars => EpochInv'
    BY StepOfExchange, NextInv
  <1>. QED
    BY <1>1, <1>2, PTL DEF TxSpec

-----------------------------------------------------------------------------
(* What the invariants say of one server and one entry. *)

(* A listener that transfers, or answers, has no table waiting.            *)
LEMMA Waiting ==
  ASSUME EpochInv, NEW s \in Servers
  PROVE  HasTable(s) => lPc[s] = "recv" /\ sub[s] = <<[type |-> "MLT"]>>
  <1>1. ListenersOK
    BY DEF EpochInv
  <1>2. Head(<<[type |-> "ASK", epoch |-> epoch]>>).type = "ASK"
    OBVIOUS
  <1>. QED
    BY <1>1, <1>2 DEF ListenersOK, HasTable

(* The types of the tables and of the entries that move. *)
LEMMA Tables ==
  ASSUME TxTypeOK
  PROVE  /\ Last \in Nat \ {0} /\ Last \in DOMAIN mlts /\ DOMAIN mlts = 1 .. Last
         /\ mlts[Last] \in [Entries -> Assignment]
         /\ Last > 1 => mlts[Last - 1] \in [Entries -> Assignment]
         /\ \A e \in Entries : /\ New(e) \in Servers
                               /\ mlts[Last][e].id_srv \in Servers /\ mlts[Last][e].n_ver \in Nat
                               /\ Moves(e) => Old(e) \in Servers
  <1>. DEFINE T == [Entries -> Assignment]
  <1>1. mlts \in Seq(T) /\ mlts # <<>>
    BY DEF TxTypeOK
  <1>. HIDE DEF T
  <1>2. Last \in Nat \ {0} /\ Last \in DOMAIN mlts /\ DOMAIN mlts = 1 .. Last
    BY <1>1 DEF Last
  <1>3. mlts[Last] \in T /\ (Last > 1 => mlts[Last - 1] \in T)
    BY <1>1, <1>2
  <1>. USE DEF T
  <1>4. \A e \in Entries : mlts[Last][e].id_srv \in Servers /\ mlts[Last][e].n_ver \in Nat
    BY <1>3 DEF Assignment
  <1>5. \A e \in Entries : Last > 1 => mlts[Last - 1][e].id_srv \in Servers
    BY <1>3 DEF Assignment
  <1>. QED
    BY <1>2, <1>3, <1>4, <1>5 DEF New, Old, Moves

(* The types of what a server and its threads have. *)
LEMMA Lines ==
  ASSUME TxTypeOK, NEW s \in Servers
  PROVE  /\ seen[s] \in Nat /\ scan[s] \in 0 .. NEntry /\ scan[s] \in Nat
         /\ table[s] \in [Entries -> MltLine]
         /\ \A e \in Entries : /\ table[s][e] \in MltLine /\ table[s][e].id_srv \in Servers
                               /\ table[s][e].n_ver \in Nat /\ table[s][e].state \in {0, 1}
         /\ to_send[s] \subseteq Entries /\ to_receive[s] \in Nat
         /\ in_charge[s] \subseteq Entries
         /\ xfer[s] # None => xfer[s] \in Packet /\ xfer[s].to \in Servers
                              /\ xfer[s].entry \in Entries /\ xfer[s].status \in {"sent", "done"}
  <1>1. seen[s] \in Nat
    BY Tables DEF TxTypeOK
  <1>2. scan[s] \in 0 .. NEntry /\ scan[s] \in Nat
    BY SizesAssumption DEF TxTypeOK
  <1>3. table[s] \in [Entries -> MltLine]
    BY DEF TxTypeOK
  <1>4. \A e \in Entries : table[s][e] \in MltLine
    BY <1>3
  <1>5. to_send[s] \subseteq Entries /\ in_charge[s] \subseteq Entries
    BY DEF TxTypeOK
  <1>6. to_receive[s] \in Nat
    BY SizesAssumption DEF TxTypeOK
  <1>7. xfer[s] # None => xfer[s] \in Packet
    BY DEF TxTypeOK
  <1>. QED
    BY <1>1, <1>2, <1>3, <1>4, <1>5, <1>6, <1>7 DEF MltLine, Packet

(* A server is at the last table or at the one before it, line by line. *)
LEMMA Behind ==
  ASSUME EpochInv, TransferInv, NEW s \in Servers
  PROVE  /\ lPc[s] = "transfer" => seen[s] = Last /\ Last > 1
         /\ \A e \in Entries : At(s, e) \in {Last - 1, Last} /\ At(s, e) \in DOMAIN mlts
         /\ \A e \in Entries : table[s][e].id_srv = mlts[At(s, e)][e].id_srv
         /\ \A e \in Entries : At(s, e) = Last =>
              table[s][e].id_srv = New(e) /\ table[s][e].n_ver = mlts[Last][e].n_ver
         /\ \A e \in Entries : Moves(e) /\ At(s, e) = Last - 1 => table[s][e].id_srv = Old(e)
  <1>0. TxTypeOK /\ TablesOK
    BY DEF TransferInv
  <1>1. Last \in Nat \ {0} /\ seen[s] \in DOMAIN mlts /\ DOMAIN mlts = 1 .. Last
    BY <1>0, Tables DEF TxTypeOK
  <1>2. lPc[s] = "transfer" => seen[s] = Last /\ Last > 1
    BY <1>0, Waiting DEF TablesOK
  <1>3. seen[s] \in {Last - 1, Last}
    BY <1>0 DEF TablesOK
  <1>4. \A e \in Entries : At(s, e) \in {Last - 1, Last} /\ At(s, e) \in DOMAIN mlts
    BY <1>1, <1>2, <1>3 DEF At
  <1>5. \A e \in Entries : AssignmentOf(table[s][e]) = mlts[At(s, e)][e]
    BY <1>0 DEF TablesOK
  <1>6. ASSUME NEW e \in Entries
        PROVE  /\ table[s][e].id_srv = mlts[At(s, e)][e].id_srv
               /\ table[s][e].n_ver = mlts[At(s, e)][e].n_ver
    <2>1. AssignmentOf(table[s][e]) = mlts[At(s, e)][e]
      BY <1>5
    <2>. QED
      BY <2>1 DEF AssignmentOf
  <1>. QED
    BY <1>2, <1>4, <1>6 DEF New, Old

(* What the threads hold is of the last redistribution. *)
LEMMA Sender ==
  ASSUME EpochInv, TransferInv, NEW s \in Servers, NEW e \in to_send[s]
  PROVE  /\ e \in Entries /\ Moves(e) /\ Old(e) = s /\ At(s, e) = Last
         /\ New(e) \in Servers /\ New(e) # s /\ table[s][e].id_srv = New(e)
  <1>0. TxTypeOK /\ SendersOK /\ TablesOK
    BY DEF TransferInv
  <1>1. e \in Entries
    BY <1>0, Lines
  <1>2. Moves(e) /\ Old(e) = s /\ At(s, e) = Last
    BY <1>0 DEF SendersOK
  <1>. QED
    BY <1>0, <1>1, <1>2, Behind, Tables DEF TablesOK

(* A packet carries an entry that its sender loses to its receiver. *)
LEMMA Letter ==
  ASSUME EpochInv, TransferInv, NEW s \in Servers, xfer[s] # None
  PROVE  /\ xfer[s].entry \in to_send[s] /\ xfer[s].entry \in Entries
         /\ Moves(xfer[s].entry) /\ Old(xfer[s].entry) = s /\ At(s, xfer[s].entry) = Last
         /\ xfer[s].to = New(xfer[s].entry) /\ xfer[s].status \in {"sent", "done"}
  <1>0. TxTypeOK /\ SendersOK
    BY DEF TransferInv
  <1>1. xfer[s].entry \in to_send[s] /\ xfer[s].to = New(xfer[s].entry)
    BY <1>0 DEF SendersOK
  <1>. QED
    BY <1>0, <1>1, Lines, Sender

-----------------------------------------------------------------------------
(* What a step leaves alone. *)

(* While no table is sent, the same entries move. *)
LEMMA SameMoves ==
  ASSUME UNCHANGED mlts
  PROVE  /\ Last' = Last
         /\ \A e \in Entries : (Moves(e)' <=> Moves(e)) /\ Old(e)' = Old(e) /\ New(e)' = New(e)
  BY DEF Last, Moves, Old, New

(* While no line and no packet changes, the same servers keep them. *)
LEMMA SameKeepers ==
  ASSUME TxTypeOK, UNCHANGED <<mlts, xfer>>,
         \A t \in Servers, f \in Entries : At(t, f)' = At(t, f),
         \A t \in Servers, f \in Entries : f \in to_send'[t] <=> f \in to_send[t]
  PROVE  \A f \in Entries : Moves(f) => /\ Delivered(f)' <=> Delivered(f)
                                        /\ Out(f, "sent")' <=> Out(f, "sent")
                                        /\ Keeper(f)' = Keeper(f)
  <1>. SUFFICES ASSUME NEW f \in Entries, Moves(f)
                PROVE  /\ Delivered(f)' <=> Delivered(f)
                       /\ Out(f, "sent")' <=> Out(f, "sent")
                       /\ Keeper(f)' = Keeper(f)
    OBVIOUS
  <1>1. PICK o \in Servers : o = Old(f)
    BY Tables
  <1>2. Old(f)' = o /\ Last' = Last /\ Moves(f)' /\ New(f)' = New(f)
    BY <1>1, SameMoves
  <1>3. (Out(f, "sent")' <=> Out(f, "sent")) /\ (Out(f, "done")' <=> Out(f, "done"))
    BY <1>1, <1>2 DEF Out
  <1>4. At(Old(f), f)' = At(o, f)' /\ At(o, f)' = At(o, f)
    BY <1>2 DEF At
  <1>5. Delivered(f)' <=> Delivered(f)
    BY <1>1, <1>2, <1>3, <1>4 DEF Delivered
  <1>. QED
    BY <1>1, <1>2, <1>3, <1>5 DEF Keeper

(* A step of the exchange that no thread of a transfer takes part in.      *)
LEMMA QuietInv ==
  ASSUME EpochInv, TransferInv, UNCHANGED txVars,
         \A s \in Servers : lPc'[s] = "transfer" <=> lPc[s] = "transfer",
         \A s \in Servers : HasTable(s)' <=> HasTable(s)
  PROVE  TransferInv'
  <1>0. TxTypeOK /\ TablesOK /\ SendersOK /\ KeepersOK /\ StatesOK /\ ReceiversOK
    BY DEF TransferInv
  <1>1. /\ UNCHANGED <<mlts, seen, table, scan, to_send, to_receive, failed, xfer, in_charge>>
    BY DEF txVars
  <1>2. \A s \in Servers, e \in Entries : At(s, e)' = At(s, e)
    BY <1>1 DEF At
  <1>3. /\ Last' = Last
        /\ \A e \in Entries : (Moves(e)' <=> Moves(e)) /\ Old(e)' = Old(e) /\ New(e)' = New(e)
    BY <1>1, SameMoves
  <1>4. \A e \in Entries : Moves(e) => (Delivered(e)' <=> Delivered(e)) /\ Keeper(e)' = Keeper(e)
    BY <1>0, <1>1, <1>2, SameKeepers
  <1>5. \A e \in Entries : Keeper(e)' = Keeper(e)
    BY <1>3, <1>4 DEF Keeper
  <1>6. TxTypeOK'
    BY <1>0, <1>1 DEF TxTypeOK
  <1>7. TablesOK'
    <2>1. \A e \in Entries : Moves(e)' => /\ mlts'[Last' - 1][e].n_ver # mlts'[Last'][e].n_ver
                                          /\ Old(e)' # New(e)'
      BY <1>0, <1>1, <1>3 DEF TablesOK
    <2>2. ASSUME NEW s \in Servers
          PROVE  /\ seen'[s] = IF HasTable(s)' THEN Last' - 1 ELSE Last'
                 /\ lPc'[s] = "transfer" => Last' > 1
                 /\ \A e \in Entries : AssignmentOf(table'[s][e]) = mlts'[At(s, e)'][e]
      BY <1>0, <1>1, <1>2, <1>3 DEF TablesOK
    <2>. QED
      BY <2>1, <2>2 DEF TablesOK
  <1>8. SendersOK'
    BY <1>0, <1>1, <1>2, <1>3, Lines DEF SendersOK
  <1>9. KeepersOK'
    BY <1>0, <1>1, <1>5 DEF KeepersOK
  <1>10. StatesOK'
    BY <1>0, <1>1, <1>2, <1>3, <1>4 DEF StatesOK
  <1>11. ReceiversOK'
    <2>1. \A s \in Servers : Awaited(s)' = Awaited(s)
      BY <1>2, <1>3, <1>4 DEF Awaited
    <2>2. \A e \in Entries : Moves(e) /\ Delivered(e) => At(New(e), e)' = At(New(e), e)
      BY <1>0, <1>2, <1>3, Tables
    <2>. QED
      BY <1>0, <1>1, <1>3, <1>4, <2>1, <2>2 DEF ReceiversOK
  <1>. QED
    BY <1>6, <1>7, <1>8, <1>9, <1>10, <1>11 DEF TransferInv

(* The handlers transfer nothing, ... *)
LEMMA HandlerQuiet ==
  ASSUME EpochInv, TransferInv, NEW s \in Servers, HandlerStep(s)
  PROVE  TransferInv'
  <1>1. HandlerStep1(s)
    BY DEF HandlerStep, HandlerStep1
  <1>2. UNCHANGED <<lPc, sub, txVars>>
    BY <1>1, HandlerRuns DEF HandlerStep, lst
  <1>. QED
    BY <1>2, QuietInv DEF HasTable

(* ... nor does the listener while it receives and answers ASK, ... *)
LEMMA AnswerQuiet ==
  ASSUME EpochInv, TransferInv, NEW s \in Servers, ReceiveAsk(s) \/ Answer(s), UNCHANGED txVars
  PROVE  TransferInv'
  <1>0. TypeOK
    BY DEF EpochInv
  <1>1. \A t \in Servers : lPc'[t] = "transfer" <=> lPc[t] = "transfer"
    BY <1>0, AskHead DEF TypeOK, ReceiveAsk, Answer, lst
  <1>2. \A t \in Servers : HasTable(t)' <=> HasTable(t)
    <2>1. CASE ReceiveAsk(s)
      <3>1. ~HasTable(s)
        BY <2>1 DEF ReceiveAsk, HasTable
      <3>2. sub'[s] = <<>> /\ \A t \in Servers \ {s} : sub'[t] = sub[t]
        BY <1>0, <2>1, AskHead DEF ReceiveAsk, TypeOK
      <3>. QED
        BY <3>1, <3>2 DEF HasTable
    <2>2. CASE Answer(s)
      BY <2>2 DEF Answer, HasTable
    <2>. QED
      BY <2>1, <2>2
  <1>. QED
    BY <1>1, <1>2, QuietInv

(* ... nor do the manager and the launcher. *)
LEMMA ManagerQuietSteps ==
  ASSUME EpochInv, TransferInv, UNCHANGED txVars, ~MgrSend,
         ManagerStep \/ Launch \/ Stopped \/ UNCHANGED vars
  PROVE  TransferInv'
  <1>1. CASE MgrAsk
    <2>1. UNCHANGED lPc
      BY <1>1 DEF MgrAsk, lst
    <2>2. \A t \in Servers : ~HasTable(t)
      <3>1. mPc = "ask" /\ epoch = Target /\ epoch_processed = 0
        BY <1>1 DEF EpochInv, ManagerOK, MgrAsk
      <3>2. ~Sent
        BY <3>1 DEF Sent
      <3>. QED
        BY <3>1, <3>2 DEF EpochInv, ListenersOK, HasTable
    <2>3. \A t \in Servers : ~HasTable(t)'
      <3>. DEFINE ask == [type |-> "ASK", epoch |-> epoch]
      <3>1. mPc = "ask" /\ epoch = Target /\ epoch_processed = 0
        BY <1>1 DEF EpochInv, ManagerOK, MgrAsk
      <3>2. ~Sent
        BY <3>1 DEF Sent
      <3>3. \A t \in Servers : sub[t] = <<>>
        BY <3>1, <3>2 DEF EpochInv, ListenersOK
      <3>4. sub' = [t \in Servers |-> Append(sub[t], ask)]
        BY <1>1 DEF MgrAsk, Publish
      <3>5. Append(<<>>, ask) = <<ask>> /\ Head(<<ask>>) = ask
        BY OneMessage
      <3>6. ask.type # "MLT"
        OBVIOUS
      <3>. HIDE DEF ask
      <3>7. \A t \in Servers : sub'[t] = <<ask>>
        BY <3>3, <3>4, <3>5
      <3>. QED
        BY <3>5, <3>6, <3>7 DEF HasTable
    <2>. QED
      BY <2>1, <2>2, <2>3, QuietInv
  <1>2. CASE ~MgrAsk
    <2>1. UNCHANGED <<lPc, sub>>
      BY <1>2 DEF ManagerStep, Launch, usrHandler2, MgrReceive, MgrGather, MgrCompare, MgrTest,
                  MgrMark, Synchro, LaunchSignal, LaunchManager, SynchroAny, wait_1, LaunchRemove,
                  Stopped, vars, lst
    <2>. QED
      BY <2>1, QuietInv DEF HasTable
  <1>. QED
    BY <1>1, <1>2

-----------------------------------------------------------------------------
(* manager_send_mlt: every server has answered, so every server is through *)
(* with the table before, and nothing of it is under way.                  *)

(* A redistribution is over: all have the table, no list, packet or state. *)
LEMMA Rest ==
  ASSUME EpochInv, TransferInv, \A s \in Servers : sub[s] = <<>> /\ lPc[s] = "recv"
  PROVE  /\ \A s \in Servers : /\ seen[s] = Last /\ to_send[s] = {} /\ xfer[s] = None
                               /\ to_receive[s] = 0
         /\ \A s \in Servers, e \in Entries : /\ At(s, e) = Last /\ table[s][e].state = 0
                                              /\ e \in in_charge[s] <=> s = New(e)
         /\ \A e \in Entries : (Moves(e) => Delivered(e)) /\ Keeper(e) = New(e)
  <1>0. TxTypeOK /\ TablesOK /\ SendersOK /\ KeepersOK /\ StatesOK /\ ReceiversOK
    BY DEF TransferInv
  <1>1. \A s \in Servers : seen[s] = Last
    BY <1>0 DEF TablesOK, HasTable
  <1>2. \A s \in Servers : to_send[s] = {} /\ to_receive[s] = 0
    BY <1>0 DEF SendersOK, ReceiversOK
  <1>3. \A s \in Servers : xfer[s] = None
    BY <1>0, <1>2 DEF SendersOK
  <1>4. \A s \in Servers, e \in Entries : At(s, e) = Last
    BY <1>1 DEF At
  <1>5. \A e \in Entries : Moves(e) => Old(e) \in Servers /\ Old(e) # New(e)
    BY <1>0, Tables DEF TablesOK
  <1>6. \A e \in Entries : Moves(e) => Delivered(e)
    BY <1>2, <1>4, <1>5 DEF Delivered
  <1>7. \A e \in Entries : Keeper(e) = New(e)
    BY <1>6 DEF Keeper
  <1>8. \A s \in Servers, e \in Entries : table[s][e].state # 1
    BY <1>0, <1>5, <1>6, <1>7 DEF StatesOK
  <1>9. \A s \in Servers, e \in Entries : table[s][e].state = 0
    BY <1>0, <1>8, Lines
  <1>. QED
    BY <1>0, <1>1, <1>2, <1>3, <1>4, <1>6, <1>7, <1>9 DEF KeepersOK

(* When the manager sends a table, no server is in a transfer. *)
LEMMA AllAtRest ==
  ASSUME EpochInv, MgrSend
  PROVE  \A s \in Servers : sub[s] = <<>> /\ lPc[s] = "recv"
  BY AllCounted DEF EpochInv, GatherOK, MgrSend

(* What a new table does to the entries that move. *)
LEMMA NewTable ==
  ASSUME TxTypeOK, NEW new \in RelabMany(mlts[Last]),
         mlts' = Append(mlts, [e \in Entries |-> Reassign(mlts[Last][e], new[e])])
  PROVE  /\ mlts' \in Seq([Entries -> Assignment]) /\ mlts' # <<>>
         /\ Last' = Last + 1 /\ mlts'[Last' - 1] = mlts[Last]
         /\ mlts'[Last'] = [e \in Entries |-> Reassign(mlts[Last][e], new[e])]
         /\ DOMAIN mlts \subseteq DOMAIN mlts' /\ \A i \in DOMAIN mlts : mlts'[i] = mlts[i]
         /\ \A e \in Entries : Moves(e)' => /\ mlts'[Last' - 1][e].n_ver # mlts'[Last'][e].n_ver
                                            /\ Old(e)' # New(e)'
  <1>. DEFINE T == [Entries -> Assignment]
              t == [e \in Entries |-> Reassign(mlts[Last][e], new[e])]
  <1>0. \A e \in Entries : mlts[Last][e] \in Assignment /\ new[e] \in Servers
    BY Tables DEF RelabMany
  <1>1. \A e \in Entries : Reassign(mlts[Last][e], new[e]) \in Assignment
    BY <1>0 DEF Reassign, Assignment
  <1>2. t \in T
    BY <1>1
  <1>3. mlts \in Seq(T) /\ mlts # <<>>
    BY DEF TxTypeOK
  <1>. HIDE DEF T, t
  <1>4. mlts' = Append(mlts, t)
    BY DEF t
  <1>5. /\ mlts' \in Seq(T) /\ mlts' # <<>> /\ Len(mlts') = Len(mlts) + 1 /\ Len(mlts) \in Nat
        /\ mlts'[Len(mlts')] = t
        /\ DOMAIN mlts \subseteq DOMAIN mlts' /\ \A i \in DOMAIN mlts : mlts'[i] = mlts[i]
    BY <1>2, <1>3, <1>4
  <1>6. Last' = Last + 1 /\ Last \in Nat /\ Last \in DOMAIN mlts /\ Last' - 1 = Last
    BY <1>5, Tables DEF Last
  <1>7. mlts'[Last' - 1] = mlts[Last] /\ mlts'[Last'] = t
    BY <1>5, <1>6 DEF Last
  <1>8. ASSUME NEW e \in Entries, Moves(e)'
        PROVE  mlts'[Last' - 1][e].n_ver # mlts'[Last'][e].n_ver /\ Old(e)' # New(e)'
    <2>. DEFINE a == mlts[Last][e]
                b == Reassign(a, new[e])
    <2>1. mlts'[Last' - 1][e] = a /\ mlts'[Last'][e] = b
      BY <1>7 DEF t
    <2>2. a # b
      BY <1>8, <2>1 DEF Moves
    <2>3. a \in Assignment
      BY <1>0
    <2>. HIDE DEF a
    <2>4. a.n_ver # b.n_ver /\ a.id_srv # b.id_srv
      BY <2>2, <2>3 DEF Reassign, Assignment
    <2>. QED
      BY <2>1, <2>4 DEF Old, New
  <1>. QED
    BY <1>5, <1>6, <1>7, <1>8 DEF T, t

(* A new table is sent when the entries of the last one are in place. *)
LEMMA SendMltKeeps ==
  ASSUME EpochInv, TransferInv, SendMlt
  PROVE  TransferInv'
  <1>0. TxTypeOK /\ ReceiversOK
    BY DEF TransferInv
  <1>1. \A s \in Servers : sub[s] = <<>> /\ lPc[s] = "recv"
    BY AllAtRest DEF SendMlt
  <1>2. PICK new \in RelabMany(mlts[Last]) :
          mlts' = Append(mlts, [e \in Entries |-> Reassign(mlts[Last][e], new[e])])
    BY DEF SendMlt, Last
  <1>3. UNCHANGED <<lPc, seen, table, scan, to_send, to_receive, failed, xfer, in_charge>>
    BY DEF SendMlt, MgrSend, lst
  <1>4. \A s \in Servers : HasTable(s)'
    <2>. DEFINE mlt == [type |-> "MLT"]
    <2>1. sub' = [t \in Servers |-> Append(sub[t], mlt)]
      BY DEF SendMlt, MgrSend, Publish
    <2>2. Append(<<>>, mlt) = <<mlt>> /\ <<mlt>> # <<>> /\ Head(<<mlt>>) = mlt /\ mlt.type = "MLT"
      BY OneMessage
    <2>. HIDE DEF mlt
    <2>3. \A t \in Servers : sub'[t] = <<mlt>>
      BY <1>1, <2>1, <2>2
    <2>. QED
      BY <2>2, <2>3 DEF HasTable
  <1>5. /\ Last' = Last + 1 /\ mlts'[Last' - 1] = mlts[Last] /\ Last \in Nat \ {0}
        /\ Last' - 1 = Last /\ Last \in DOMAIN mlts
        /\ DOMAIN mlts \subseteq DOMAIN mlts' /\ \A i \in DOMAIN mlts : mlts'[i] = mlts[i]
    BY <1>0, <1>2, NewTable, Tables
  <1>6. \A s \in Servers, e \in Entries : At(s, e)' = Last /\ At(s, e) = Last
    BY <1>1, <1>3, Rest DEF At
  <1>7. \A s \in Servers : to_send'[s] = {} /\ xfer'[s] = None /\ to_receive'[s] = 0
                           /\ lPc'[s] # "transfer" /\ seen'[s] = Last
    BY <1>1, <1>3, Rest
  <1>8. \A e \in Entries : Old(e)' = New(e) /\ New(e) \in Servers
    BY <1>0, <1>5, Tables DEF Old, New
  <1>9. \A e \in Entries : ~Delivered(e)' /\ ~Out(e, "sent")'
    <2>1. ASSUME NEW e \in Entries PROVE ~Delivered(e)' /\ ~Out(e, "sent")'
      <3>1. PICK o \in Servers : o = Old(e)'
        BY <1>8
      <3>2. At(o, e)' = Last /\ xfer'[o] = None
        BY <1>6, <1>7
      <3>3. At(Old(e), e)' = At(o, e)'
        BY <3>1 DEF At
      <3>. QED
        BY <1>5, <3>1, <3>2, <3>3 DEF Delivered, Out
    <2>. QED
      BY <2>1
  <1>10. \A e \in Entries : Keeper(e)' = New(e)
    <2>1. \A e \in Entries : ~Moves(e)' => New(e)' = Old(e)'
      BY <1>5 DEF Moves, New, Old
    <2>. QED
      BY <1>8, <1>9, <2>1 DEF Keeper
  <1>11. TxTypeOK'
    <2>1. mlts' \in Seq([Entries -> Assignment]) /\ mlts' # <<>>
      BY <1>0, <1>2, NewTable
    <2>2. seen' \in [Servers -> DOMAIN mlts']
      BY <1>0, <1>3, <1>5 DEF TxTypeOK
    <2>. QED
      BY <1>0, <1>3, <2>1, <2>2 DEF TxTypeOK
  <1>12. TablesOK'
    <2>1. \A e \in Entries : Moves(e)' => /\ mlts'[Last' - 1][e].n_ver # mlts'[Last'][e].n_ver
                                          /\ Old(e)' # New(e)'
      BY <1>0, <1>2, NewTable
    <2>2. ASSUME NEW s \in Servers
          PROVE  /\ seen'[s] = IF HasTable(s)' THEN Last' - 1 ELSE Last'
                 /\ lPc'[s] = "transfer" => Last' > 1
                 /\ \A e \in Entries : AssignmentOf(table'[s][e]) = mlts'[At(s, e)'][e]
      <3>1. \A e \in Entries : AssignmentOf(table[s][e]) = mlts[Last][e]
        BY <1>6 DEF TransferInv, TablesOK
      <3>. QED
        BY <1>3, <1>4, <1>5, <1>6, <1>7, <3>1
    <2>. QED
      BY <2>1, <2>2 DEF TablesOK
  <1>13. SendersOK'
    BY <1>7 DEF SendersOK
  <1>14. KeepersOK'
    BY <1>1, <1>3, <1>10, Rest DEF KeepersOK
  <1>15. StatesOK'
    <2>1. \A s \in Servers, e \in Entries : At(s, e)' # Last'
      BY <1>5, <1>6
    <2>2. \A s \in Servers, e \in Entries : table'[s][e].state = 0
      BY <1>1, <1>3, Rest
    <2>. QED
      BY <2>1, <2>2 DEF StatesOK
  <1>16. ReceiversOK'
    <2>1. \A s \in Servers : Awaited(s)' = {}
      BY <1>5, <1>6 DEF Awaited
    <2>. QED
      BY <1>0, <1>3, <1>7, <1>9, <2>1, FS_EmptySet DEF ReceiversOK
  <1>. QED
    BY <1>11, <1>12, <1>13, <1>14, <1>15, <1>16 DEF TransferInv

-----------------------------------------------------------------------------
(* The listener receives the table, and returns to recv when the threads   *)
(* are joined: no line is at another table than before.                    *)

(* The listener receives the table ... *)
LEMMA ReceiveTableKeeps ==
  ASSUME EpochInv, TransferInv, NEW s \in Servers, ReceiveTable(s)
  PROVE  TransferInv'
  <1>0. TxTypeOK /\ TablesOK /\ SendersOK /\ KeepersOK /\ StatesOK /\ ReceiversOK /\ TypeOK
    BY DEF TransferInv, EpochInv
  <1>1. HasTable(s) /\ lPc[s] = "recv" /\ lPc' = [lPc EXCEPT ![s] = "transfer"]
    BY DEF ReceiveTable, ReceiveMlt, HasTable
  <1>2. sub'[s] = <<>> /\ \A t \in Servers \ {s} : sub'[t] = sub[t]
    BY <1>0, <1>1, MltHead DEF ReceiveTable, ReceiveMlt, TypeOK
  <1>3. /\ seen' = [seen EXCEPT ![s] = @ + 1] /\ scan' = [scan EXCEPT ![s] = 0]
        /\ UNCHANGED <<mlts, table, xfer, in_charge>>
    BY DEF ReceiveTable
  <1>4. UNCHANGED <<to_send, to_receive, failed>>
    <2>1. to_send[s] = {} /\ to_receive[s] = 0 /\ failed = {}
      BY <1>0, <1>1 DEF SendersOK, ReceiversOK
    <2>. QED
      BY <1>0, <2>1 DEF ReceiveTable, TxTypeOK
  <1>5. seen[s] = Last - 1 /\ Last \in Nat \ {0} /\ seen[s] \in DOMAIN mlts /\ DOMAIN mlts = 1 .. Last
    BY <1>0, <1>1, Tables DEF TablesOK, TxTypeOK
  <1>6. seen'[s] = Last /\ Last > 1 /\ Last \in DOMAIN mlts
    BY <1>0, <1>3, <1>5 DEF TxTypeOK
  <1>7. \A t \in Servers, e \in Entries : At(t, e)' = At(t, e)
    <2>1. ASSUME NEW e \in Entries PROVE At(s, e)' = At(s, e)
      <3>1. At(s, e) = Last - 1
        BY <1>1, <1>5 DEF At
      <3>2. scan'[s] = 0 /\ e >= 0 /\ lPc'[s] = "transfer"
        BY <1>0, <1>1, <1>3 DEF TxTypeOK, TypeOK, Entries
      <3>. QED
        BY <1>6, <3>1, <3>2 DEF At
    <2>2. ASSUME NEW t \in Servers, t # s, NEW e \in Entries PROVE At(t, e)' = At(t, e)
      BY <1>0, <1>1, <1>3, <2>2 DEF At, TxTypeOK, TypeOK
    <2>. QED
      BY <2>1, <2>2
  <1>8. /\ Last' = Last
        /\ \A e \in Entries : (Moves(e)' <=> Moves(e)) /\ Old(e)' = Old(e) /\ New(e)' = New(e)
    BY <1>3, SameMoves
  <1>9. \A e \in Entries : Moves(e) => (Delivered(e)' <=> Delivered(e)) /\ Keeper(e)' = Keeper(e)
    BY <1>0, <1>3, <1>4, <1>7, SameKeepers
  <1>10. \A e \in Entries : Keeper(e)' = Keeper(e)
    BY <1>8, <1>9 DEF Keeper
  <1>11. TxTypeOK'
    <2>1. seen' \in [Servers -> DOMAIN mlts] /\ scan' \in [Servers -> 0 .. NEntry]
      BY <1>0, <1>3, <1>6, SizesAssumption DEF TxTypeOK
    <2>. QED
      BY <1>0, <1>3, <1>4, <2>1 DEF TxTypeOK
  <1>12. TablesOK'
    <2>1. \A e \in Entries : Moves(e)' => /\ mlts'[Last' - 1][e].n_ver # mlts'[Last'][e].n_ver
                                          /\ Old(e)' # New(e)'
      BY <1>0, <1>3, <1>8 DEF TablesOK
    <2>2. ASSUME NEW t \in Servers
          PROVE  seen'[t] = (IF HasTable(t)' THEN Last' - 1 ELSE Last')
                 /\ (lPc'[t] = "transfer" => Last' > 1)
      <3>1. CASE t = s
        <4>1. ~HasTable(s)'
          BY <1>2 DEF HasTable
        <4>. QED
          BY <1>6, <1>8, <3>1, <4>1
      <3>2. CASE t # s
        <4>1. HasTable(t)' <=> HasTable(t)
          BY <1>2, <3>2 DEF HasTable
        <4>2. seen'[t] = seen[t] /\ lPc'[t] = lPc[t]
          BY <1>0, <1>1, <1>3, <3>2 DEF TxTypeOK, TypeOK
        <4>. QED
          BY <1>0, <1>8, <4>1, <4>2 DEF TablesOK
      <3>. QED
        BY <3>1, <3>2
    <2>3. \A t \in Servers, e \in Entries : AssignmentOf(table'[t][e]) = mlts'[At(t, e)'][e]
      BY <1>0, <1>3, <1>7 DEF TablesOK
    <2>. QED
      BY <2>1, <2>2, <2>3 DEF TablesOK
  <1>13. SendersOK'
    <2>1. \A t \in Servers : to_send[t] # {} => lPc'[t] = "transfer"
      BY <1>0, <1>1 DEF SendersOK, TypeOK
    <2>. QED
      BY <1>0, <1>3, <1>4, <1>7, <1>8, <2>1, Lines DEF SendersOK
  <1>14. KeepersOK'
    BY <1>0, <1>3, <1>10 DEF KeepersOK
  <1>15. StatesOK'
    BY <1>0, <1>3, <1>7, <1>8, <1>9 DEF StatesOK
  <1>16. ReceiversOK'
    <2>1. \A t \in Servers : Awaited(t)' = Awaited(t)
      BY <1>7, <1>8, <1>9 DEF Awaited
    <2>2. \A t \in Servers : lPc'[t] # "transfer" => lPc[t] # "transfer"
      BY <1>0, <1>1 DEF TypeOK
    <2>3. \A e \in Entries : At(New(e), e)' = At(New(e), e)
      BY <1>0, <1>7, <1>8, Tables
    <2>. QED
      BY <1>0, <1>4, <1>8, <1>9, <2>1, <2>2, <2>3 DEF ReceiversOK
  <1>. QED
    BY <1>11, <1>12, <1>13, <1>14, <1>15, <1>16 DEF TransferInv

(* ... and returns to recv when its threads are joined. *)
LEMMA JoinKeeps ==
  ASSUME EpochInv, TransferInv, NEW s \in Servers, Join(s)
  PROVE  TransferInv'
  <1>0. TxTypeOK /\ TablesOK /\ SendersOK /\ KeepersOK /\ StatesOK /\ ReceiversOK /\ TypeOK
    BY DEF TransferInv, EpochInv
  <1>1. /\ lPc' = [lPc EXCEPT ![s] = "recv"] /\ lPc[s] = "transfer"
        /\ scan[s] = NEntry /\ to_send[s] = {} /\ to_receive[s] = 0
    BY <1>0 DEF Join, Transferred, Running, ReceiversOK
  <1>2. /\ UNCHANGED <<sub, mlts, seen, table, scan, to_send, to_receive, failed, xfer, in_charge>>
    BY DEF Join, Transferred, txVars
  <1>3. \A t \in Servers, e \in Entries : At(t, e)' = At(t, e)
    <2>1. ASSUME NEW e \in Entries PROVE At(s, e)' = At(s, e)
      <3>1. ~(scan[s] <= e)
        BY <1>1, SizesAssumption DEF Entries
      <3>. QED
        BY <1>2, <3>1 DEF At
    <2>2. ASSUME NEW t \in Servers, t # s, NEW e \in Entries PROVE At(t, e)' = At(t, e)
      BY <1>0, <1>1, <1>2, <2>2 DEF At, TypeOK
    <2>. QED
      BY <2>1, <2>2
  <1>4. /\ Last' = Last
        /\ \A e \in Entries : (Moves(e)' <=> Moves(e)) /\ Old(e)' = Old(e) /\ New(e)' = New(e)
    BY <1>2, SameMoves
  <1>5. \A e \in Entries : Moves(e) => (Delivered(e)' <=> Delivered(e)) /\ Keeper(e)' = Keeper(e)
    BY <1>0, <1>2, <1>3, SameKeepers
  <1>6. \A e \in Entries : Keeper(e)' = Keeper(e)
    BY <1>4, <1>5 DEF Keeper
  <1>7. TxTypeOK'
    BY <1>0, <1>2 DEF TxTypeOK
  <1>8. \A t \in Servers : (lPc'[t] = "transfer" <=> lPc[t] = "transfer" /\ t # s)
                           /\ (HasTable(t)' <=> HasTable(t))
    BY <1>0, <1>1, <1>2 DEF TypeOK, HasTable
  <1>9. TablesOK'
    <2>1. \A e \in Entries : Moves(e)' => /\ mlts'[Last' - 1][e].n_ver # mlts'[Last'][e].n_ver
                                          /\ Old(e)' # New(e)'
      BY <1>0, <1>2, <1>4 DEF TablesOK
    <2>2. ASSUME NEW t \in Servers
          PROVE  /\ seen'[t] = IF HasTable(t)' THEN Last' - 1 ELSE Last'
                 /\ lPc'[t] = "transfer" => Last' > 1
                 /\ \A e \in Entries : AssignmentOf(table'[t][e]) = mlts'[At(t, e)'][e]
      BY <1>0, <1>2, <1>3, <1>4, <1>8 DEF TablesOK
    <2>. QED
      BY <2>1, <2>2 DEF TablesOK
  <1>10. SendersOK'
    BY <1>0, <1>1, <1>2, <1>3, <1>4, <1>8, Lines DEF SendersOK
  <1>11. KeepersOK'
    BY <1>0, <1>2, <1>6 DEF KeepersOK
  <1>12. StatesOK'
    BY <1>0, <1>2, <1>3, <1>4, <1>5 DEF StatesOK
  <1>13. ReceiversOK'
    <2>1. \A t \in Servers : Awaited(t)' = Awaited(t)
      BY <1>3, <1>4, <1>5 DEF Awaited
    <2>2. \A e \in Entries : At(New(e), e)' = At(New(e), e)
      BY <1>0, <1>3, <1>4, Tables
    <2>. QED
      BY <1>0, <1>1, <1>2, <1>4, <1>5, <1>8, <2>1, <2>2 DEF ReceiversOK
  <1>. QED
    BY <1>7, <1>9, <1>10, <1>11, <1>12, <1>13 DEF TransferInv

-----------------------------------------------------------------------------
(* The comparison of one entry: line i of s comes to the last table, and   *)
(* nobody but its old server can have waited for it.                       *)

(* The comparison takes a line from the table before to the last one. *)
LEMMA Comparison ==
  ASSUME EpochInv, TransferInv, NEW s \in Servers, NEW i \in Entries, scan[s] = i, Compare(s)
  PROVE  /\ At(s, i) = Last - 1 /\ At(s, i) # Last /\ At(s, i)' = Last
         /\ \A t \in Servers, e \in Entries : t # s \/ e # i => At(t, e)' = At(t, e)
         /\ table[s][i].n_ver # mlts[seen[s]][i].n_ver <=> Moves(i)
         /\ Loses(s, table[s][i], mlts[seen[s]][i]) <=> Moves(i) /\ Old(i) = s
         /\ Gains(s, table[s][i], mlts[seen[s]][i]) <=> Moves(i) /\ New(i) = s
         /\ Moves(i) => Old(i) # New(i) /\ Old(i) \in Servers
  <1>. DEFINE old == table[s][i]
              new == mlts[seen[s]][i]
  <1>0. TxTypeOK /\ TablesOK
    BY DEF TransferInv
  <1>1. lPc[s] = "transfer" /\ seen[s] = Last /\ Last \in Nat \ {0} /\ Last > 1
    BY <1>0, Behind, Tables DEF Compare
  <1>2. At(s, i) = Last - 1 /\ At(s, i) # Last
    BY <1>1 DEF At, Entries
  <1>3. UNCHANGED <<lPc, mlts, seen>> /\ scan' = [scan EXCEPT ![s] = @ + 1] /\ Last' = Last
    BY SameMoves DEF Compare, vars, lst
  <1>4. At(s, i)' = Last
    <2>1. scan'[s] = i + 1 /\ ~(i + 1 <= i)
      BY <1>0, <1>3 DEF TxTypeOK, Entries
    <2>. QED
      BY <1>1, <1>3, <2>1 DEF At
  <1>5. ASSUME NEW t \in Servers, NEW e \in Entries, t # s \/ e # i
        PROVE  At(t, e)' = At(t, e)
    <2>1. CASE t # s
      BY <1>0, <1>3, <2>1 DEF At, TxTypeOK
    <2>2. CASE t = s /\ e # i
      <3>1. scan'[s] = i + 1
        BY <1>0, <1>3 DEF TxTypeOK
      <3>2. i \in Int /\ e \in Int
        BY DEF Entries
      <3>3. scan'[s] <= e <=> scan[s] <= e
        BY <2>2, <3>1, <3>2
      <3>. QED
        BY <1>3, <2>2, <3>3 DEF At
    <2>. QED
      BY <1>5, <2>1, <2>2
  <1>6. old \in MltLine /\ new = mlts[Last][i] /\ AssignmentOf(old) = mlts[Last - 1][i]
    BY <1>0, <1>1, <1>2, Lines DEF TablesOK
  <1>7. old.id_srv = Old(i) /\ old.n_ver = mlts[Last - 1][i].n_ver /\ new.id_srv = New(i)
    BY <1>6 DEF AssignmentOf, Old, New
  <1>8. old.n_ver # new.n_ver <=> Moves(i)
    <2>1. Moves(i) => old.n_ver # new.n_ver
      BY <1>0, <1>6, <1>7 DEF TablesOK
    <2>2. ~Moves(i) => old.n_ver = new.n_ver
      BY <1>1, <1>6, <1>7 DEF Moves
    <2>. QED
      BY <2>1, <2>2
  <1>9. Moves(i) => Old(i) # New(i) /\ Old(i) \in Servers
    BY <1>0, Tables DEF TablesOK
  <1>10. Loses(s, old, new) <=> Moves(i) /\ Old(i) = s
    BY <1>7, <1>8 DEF Loses
  <1>11. Gains(s, old, new) <=> Moves(i) /\ New(i) = s
    BY <1>7, <1>8, <1>9 DEF Gains
  <1>. QED
    BY <1>2, <1>4, <1>5, <1>8, <1>9, <1>10, <1>11

(* The comparison of a line keeps the invariant. *)
LEMMA CompareKeeps ==
  ASSUME EpochInv, TransferInv, NEW s \in Servers, NEW i \in Entries, scan[s] = i, Compare(s)
  PROVE  TransferInv'
  <1>. DEFINE old   == table[s][i]
              new   == mlts[seen[s]][i]
              line  == IF Moves(i)
                       THEN [id_srv |-> New(i), n_ver |-> mlts[Last][i].n_ver,
                             state |-> IF s \in {Old(i), New(i)} THEN 1 ELSE 0]
                       ELSE old
  <1>0. /\ TxTypeOK /\ TablesOK /\ SendersOK /\ KeepersOK /\ StatesOK /\ ReceiversOK
        /\ Last \in Nat \ {0}
    BY Tables DEF TransferInv
  <1>1. lPc[s] = "transfer" /\ seen[s] = Last /\ new = mlts[Last][i] /\ new.id_srv = New(i)
    BY Behind DEF Compare, New
  <1>2. /\ At(s, i) = Last - 1 /\ At(s, i) # Last /\ At(s, i)' = Last
        /\ \A t \in Servers, e \in Entries : t # s \/ e # i => At(t, e)' = At(t, e)
        /\ old.n_ver # new.n_ver <=> Moves(i)
        /\ Loses(s, old, new) <=> Moves(i) /\ Old(i) = s
        /\ Gains(s, old, new) <=> Moves(i) /\ New(i) = s
        /\ Moves(i) => Old(i) # New(i) /\ Old(i) \in Servers
    BY Comparison
  <1>3. /\ UNCHANGED <<lPc, sub, mlts, seen, failed, xfer, in_charge>>
        /\ scan' = [scan EXCEPT ![s] = @ + 1] /\ scan[s] < NEntry
    BY DEF Compare, vars, lst
  <1>4. /\ Last' = Last
        /\ \A e \in Entries : (Moves(e)' <=> Moves(e)) /\ Old(e)' = Old(e) /\ New(e)' = New(e)
    BY <1>3, SameMoves
  <1>5. /\ table'[s][i] = line
        /\ \A t \in Servers, e \in Entries : t # s \/ e # i => table'[t][e] = table[t][e]
        /\ table' \in [Servers -> [Entries -> MltLine]]
    <2>1. table' = [table EXCEPT ![s] =
                      IF old.n_ver = new.n_ver THEN @
                      ELSE mlt_update_entry(@, i, new.id_srv, new.n_ver, StateAfter(s, old, new))]
      BY DEF Compare
    <2>2. StateAfter(s, old, new) = IF Moves(i) /\ s \in {Old(i), New(i)} THEN 1 ELSE 0
      BY <1>2 DEF StateAfter
    <2>. HIDE DEF old
    <2>3. table' = [table EXCEPT ![s] =
                      IF Moves(i)
                      THEN [@ EXCEPT ![i] = [id_srv |-> New(i), n_ver |-> mlts[Last][i].n_ver,
                                             state |-> IF s \in {Old(i), New(i)} THEN 1 ELSE 0]]
                      ELSE @]
      BY <1>1, <1>2, <2>1, <2>2 DEF mlt_update_entry
    <2>. USE DEF old
    <2>4. line \in MltLine
      BY <1>0, Lines, Tables DEF MltLine
    <2>5. table'[s] = [table[s] EXCEPT ![i] = line] /\ \A t \in Servers \ {s} : table'[t] = table[t]
      <3>1. table \in [Servers -> [Entries -> MltLine]]
        BY <1>0 DEF TxTypeOK
      <3>2. CASE Moves(i)
        BY <2>3, <3>1, <3>2
      <3>3. CASE ~Moves(i)
        BY <2>3, <3>1, <3>3
      <3>. QED
        BY <3>2, <3>3
    <2>. HIDE DEF line
    <2>6. \A t \in Servers : table'[t] \in [Entries -> MltLine]
      <3>1. \A t \in Servers : table[t] \in [Entries -> MltLine]
        BY <1>0, Lines
      <3>2. [table[s] EXCEPT ![i] = line] \in [Entries -> MltLine]
        BY <2>4, <3>1
      <3>. QED
        BY <2>5, <3>1, <3>2
    <2>7. table' \in [Servers -> [Entries -> MltLine]]
      BY <1>0, <2>1, <2>6 DEF TxTypeOK
    <2>. QED
      BY <1>0, <2>5, <2>7 DEF TxTypeOK
  <1>6. /\ to_send' = [to_send EXCEPT ![s] = IF Moves(i) /\ Old(i) = s THEN @ \cup {i} ELSE @]
        /\ to_receive' = [to_receive EXCEPT ![s] = IF Moves(i) /\ New(i) = s THEN @ + 1 ELSE @]
    BY <1>2, Zenon DEF Compare
  <1>. HIDE DEF old, new
  <1>7. /\ \A t \in Servers, e \in Entries :
             e \in to_send'[t] <=> e \in to_send[t] \/ (Moves(i) /\ Old(i) = t /\ t = s /\ e = i)
        /\ to_send' \in [Servers -> SUBSET Entries]
    BY <1>0, <1>6 DEF TxTypeOK
  <1>8. Moves(i) /\ Old(i) = s => i \notin to_send[s] /\ ~Out(i, "done") /\ ~Out(i, "sent")
    <2>1. i \notin to_send[s]
      BY <1>2, Sender
    <2>2. xfer[s] # None => xfer[s].entry # i
      BY <2>1, Letter
    <2>. QED
      BY <2>1, <2>2 DEF Out
  <1>9. \A e \in Entries : Moves(e) => /\ Delivered(e)' <=> Delivered(e)
                                       /\ Out(e, "sent")' <=> Out(e, "sent")
                                       /\ Keeper(e)' = Keeper(e)
    <2>1. ASSUME NEW e \in Entries, Moves(e)
          PROVE  /\ Delivered(e)' <=> Delivered(e)
                 /\ Out(e, "sent")' <=> Out(e, "sent")
                 /\ Keeper(e)' = Keeper(e)
      <3>1. PICK o \in Servers : o = Old(e)
        BY <1>0, <2>1, Tables
      <3>2. Old(e)' = o /\ Moves(e)' /\ New(e)' = New(e) /\ Last' = Last
        BY <1>4, <2>1, <3>1
      <3>3. (Out(e, "sent")' <=> Out(e, "sent")) /\ (Out(e, "done")' <=> Out(e, "done"))
        BY <1>3, <3>1, <3>2 DEF Out
      <3>4. At(Old(e), e)' = At(o, e)'
        BY <3>2 DEF At
      <3>5. Delivered(e)' <=> Delivered(e)
        <4>1. CASE o # s \/ e # i
          <5>1. At(o, e)' = At(o, e) /\ (e \in to_send'[o] <=> e \in to_send[o])
            BY <1>2, <1>7, <3>1, <4>1
          <5>. QED
            BY <3>1, <3>2, <3>3, <3>4, <5>1 DEF Delivered
        <4>2. CASE o = s /\ e = i
          <5>1. ~Delivered(e)
            BY <1>2, <3>1, <4>2 DEF Delivered
          <5>2. e \in to_send'[o] /\ ~Out(e, "done")'
            BY <1>7, <1>8, <2>1, <3>1, <3>3, <4>2
          <5>. QED
            BY <3>2, <5>1, <5>2 DEF Delivered
        <4>. QED
          BY <4>1, <4>2
      <3>. QED
        BY <2>1, <3>1, <3>2, <3>3, <3>5 DEF Keeper
    <2>. QED
      BY <2>1
  <1>10. \A e \in Entries : Keeper(e)' = Keeper(e)
    BY <1>4, <1>9 DEF Keeper
  <1>11. Moves(i) /\ New(i) = s => ~Delivered(i)
    BY <1>0, <1>2 DEF ReceiversOK
  <1>12. \A t \in Servers : /\ Awaited(t)' = IF Moves(i) /\ New(i) = s /\ t = s
                                             THEN Awaited(t) \cup {i} ELSE Awaited(t)
                            /\ i \notin Awaited(s)
                            /\ IsFiniteSet(Awaited(t))
    <2>1. i \notin Awaited(s)
      BY <1>2 DEF Awaited
    <2>2. ASSUME NEW t \in Servers, NEW e \in Entries
          PROVE  e \in Awaited(t)' <=> e \in Awaited(t) \/ (Moves(i) /\ New(i) = s /\ t = s /\ e = i)
      <3>1. e \in Awaited(t)' <=> Moves(e) /\ New(e) = t /\ At(t, e)' = Last /\ ~Delivered(e)
        BY <1>4, <1>9 DEF Awaited
      <3>2. CASE t # s \/ e # i
        BY <1>2, <3>1, <3>2 DEF Awaited
      <3>3. CASE t = s /\ e = i
        BY <1>2, <1>11, <3>1, <3>3 DEF Awaited
      <3>. QED
        BY <3>2, <3>3
    <2>3. \A t \in Servers : Awaited(t) \subseteq Entries /\ Awaited(t)' \subseteq Entries
      BY DEF Awaited
    <2>4. IsFiniteSet(Entries)
      BY FS_Interval, SizesAssumption DEF Entries
    <2>5. \A t \in Servers : IsFiniteSet(Awaited(t))
      BY <2>3, <2>4, FS_Subset
    <2>. HIDE DEF Awaited
    <2>. QED
      BY <2>1, <2>2, <2>3, <2>5
  <1>13. ReceiversOK'
    <2>1. ASSUME NEW t \in Servers
          PROVE  to_receive'[t] = Cardinality(Awaited(t)')
      <3>1. to_receive[t] = Cardinality(Awaited(t)) /\ to_receive \in [Servers -> 0 .. NEntry]
        BY <1>0 DEF ReceiversOK, TxTypeOK
      <3>2. CASE Moves(i) /\ New(i) = s /\ t = s
        <4>1. Cardinality(Awaited(t) \cup {i}) = Cardinality(Awaited(t)) + 1
          BY <1>12, <3>2, FS_AddElement
        <4>. QED
          BY <1>6, <1>12, <3>1, <3>2, <4>1
      <3>3. CASE ~(Moves(i) /\ New(i) = s /\ t = s)
        BY <1>6, <1>12, <3>1, <3>3
      <3>. QED
        BY <3>2, <3>3
    <2>2. \A t \in Servers : lPc'[t] # "transfer" => to_receive'[t] = 0
      BY <1>0, <1>1, <1>3, <1>6 DEF ReceiversOK, TxTypeOK
    <2>3. \A e \in Entries : Moves(e) /\ Delivered(e) => At(New(e), e)' = Last
      <3>1. ASSUME NEW e \in Entries, Moves(e), Delivered(e) PROVE At(New(e), e)' = Last
        <4>1. PICK n \in Servers : n = New(e)
          BY <1>0, Tables
        <4>2. At(New(e), e)' = At(n, e)' /\ At(n, e) = Last
          BY <1>0, <1>4, <3>1, <4>1 DEF ReceiversOK, At
        <4>3. n # s \/ e # i
          BY <1>2, <4>2
        <4>. QED
          BY <1>2, <4>1, <4>2, <4>3
      <3>. QED
        BY <3>1
    <2>. QED
      BY <1>0, <1>3, <1>4, <1>9, <2>1, <2>2, <2>3 DEF ReceiversOK
  <1>14. TxTypeOK'
    <2>1. scan' \in [Servers -> 0 .. NEntry]
      <3>1. scan[s] + 1 \in 0 .. NEntry
        BY <1>0, <1>3, SizesAssumption DEF TxTypeOK
      <3>. QED
        BY <1>0, <1>3, <3>1 DEF TxTypeOK
    <2>2. to_receive' \in [Servers -> 0 .. NEntry]
      <3>1. ASSUME NEW t \in Servers PROVE to_receive'[t] \in 0 .. NEntry
        <4>1. Awaited(t)' \subseteq 0 .. NEntry - 1
          BY DEF Awaited, Entries
        <4>2. IsFiniteSet(0 .. NEntry - 1) /\ Cardinality(0 .. NEntry - 1) = NEntry
          BY FS_Interval, SizesAssumption
        <4>3. Cardinality(Awaited(t)') \in Nat /\ Cardinality(Awaited(t)') <= NEntry
          BY <4>1, <4>2, FS_Subset, FS_CardinalityType
        <4>. QED
          BY <1>13, <4>3, SizesAssumption DEF ReceiversOK
      <3>. QED
        BY <1>0, <1>6, <3>1 DEF TxTypeOK
    <2>. QED
      BY <1>0, <1>3, <1>5, <1>7, <2>1, <2>2 DEF TxTypeOK
  <1>15. TablesOK'
    <2>1. \A e \in Entries : Moves(e)' => /\ mlts'[Last' - 1][e].n_ver # mlts'[Last'][e].n_ver
                                          /\ Old(e)' # New(e)'
      BY <1>0, <1>3, <1>4 DEF TablesOK
    <2>2. ASSUME NEW t \in Servers
          PROVE  seen'[t] = (IF HasTable(t)' THEN Last' - 1 ELSE Last')
                 /\ (lPc'[t] = "transfer" => Last' > 1)
      BY <1>0, <1>3, <1>4 DEF TablesOK, HasTable
    <2>3. ASSUME NEW t \in Servers, NEW e \in Entries
          PROVE  AssignmentOf(table'[t][e]) = mlts'[At(t, e)'][e]
      <3>1. CASE t # s \/ e # i
        BY <1>0, <1>2, <1>3, <1>5, <3>1 DEF TablesOK
      <3>2. CASE t = s /\ e = i
        <4>1. mlts[Last][i] \in Assignment
          BY <1>0, Tables
        <4>2. CASE Moves(i)
          <5>1. AssignmentOf(line) = [id_srv |-> New(i), n_ver |-> mlts[Last][i].n_ver]
            BY <4>2 DEF AssignmentOf
          <5>2. AssignmentOf(line) = mlts[Last][i]
            BY <4>1, <5>1 DEF Assignment, New
          <5>. QED
            BY <1>2, <1>3, <1>5, <3>2, <5>2
        <4>3. CASE ~Moves(i)
          <5>1. AssignmentOf(table[s][i]) = mlts[Last - 1][i]
            BY <1>0, <1>2 DEF TablesOK
          <5>2. mlts[Last - 1][i] = mlts[Last][i]
            BY <1>0, <1>1, <4>3 DEF Moves, TablesOK
          <5>3. table'[s][i] = table[s][i]
            BY <1>5, <4>3 DEF old
          <5>. QED
            BY <1>2, <1>3, <3>2, <5>1, <5>2, <5>3
        <4>. QED
          BY <4>2, <4>3
      <3>. QED
        BY <3>1, <3>2
    <2>. QED
      BY <2>1, <2>2, <2>3 DEF TablesOK
  <1>16. SendersOK'
    <2>1. \A t \in Servers : to_send'[t] # {} => lPc'[t] = "transfer"
      BY <1>0, <1>1, <1>3, <1>6 DEF SendersOK, TxTypeOK
    <2>2. ASSUME NEW t \in Servers, NEW e \in to_send'[t]
          PROVE  Moves(e)' /\ Old(e)' = t /\ At(t, e)' = Last'
      <3>1. e \in Entries
        BY <1>7
      <3>2. CASE e \in to_send[t]
        <4>1. Moves(e) /\ Old(e) = t /\ At(t, e) = Last
          BY <3>2, Sender
        <4>. QED
          BY <1>2, <1>4, <3>1, <4>1
      <3>3. CASE Moves(i) /\ Old(i) = t /\ t = s /\ e = i
        BY <1>2, <1>4, <3>3
      <3>. QED
        BY <1>7, <3>1, <3>2, <3>3
    <2>3. ASSUME NEW t \in Servers, xfer'[t] # None
          PROVE  xfer'[t].entry \in to_send'[t] /\ xfer'[t].to = New(xfer[t].entry)'
      <3>1. /\ xfer[t].entry \in to_send[t] /\ xfer[t].to = New(xfer[t].entry)
            /\ xfer[t].entry \in Entries
        BY <1>3, <2>3, Letter
      <3>. QED
        BY <1>3, <1>4, <1>7, <3>1 DEF New
    <2>. QED
      BY <2>1, <2>2, <2>3 DEF SendersOK
  <1>17. KeepersOK'
    BY <1>0, <1>3, <1>10 DEF KeepersOK
  <1>18. StatesOK'
    <2>1. ASSUME NEW t \in Servers, NEW e \in Entries, t # s \/ e # i
          PROVE  table'[t][e].state = 1
                   <=> /\ Moves(e)' /\ At(t, e)' = Last'
                       /\ \/ t = Old(e)' /\ Keeper(e)' = t
                          \/ t = New(e)' /\ ~Delivered(e)'
      BY <1>0, <1>2, <1>4, <1>5, <1>9, <2>1 DEF StatesOK
    <2>2. table'[s][i].state = 1
             <=> /\ Moves(i)' /\ At(s, i)' = Last'
                 /\ \/ s = Old(i)' /\ Keeper(i)' = s
                    \/ s = New(i)' /\ ~Delivered(i)'
      <3>1. CASE ~Moves(i)
        <4>1. table'[s][i] = table[s][i]
          BY <1>5, <3>1 DEF old
        <4>. QED
          BY <1>0, <1>4, <3>1, <4>1 DEF StatesOK
      <3>2. CASE Moves(i)
        <4>1. table'[s][i].state = 1 <=> s \in {Old(i), New(i)}
          BY <1>5, <3>2
        <4>2. s = Old(i) => Keeper(i) = s
          BY <1>2, <1>8, <3>2 DEF Keeper, Delivered
        <4>. QED
          BY <1>2, <1>4, <1>9, <1>11, <3>2, <4>1, <4>2
      <3>. QED
        BY <3>1, <3>2
    <2>. QED
      BY <2>1, <2>2 DEF StatesOK
  <1>. QED
    BY <1>13, <1>14, <1>15, <1>16, <1>17, <1>18 DEF TransferInv

-----------------------------------------------------------------------------
(* The transfer threads: no line changes its server or version.            *)

(* What the steps of the transfer threads leave alone. *)
LEMMA ThreadStep ==
  ASSUME EpochInv, TransferInv, UNCHANGED <<vars, mlts, seen, scan>>,
         \A t \in Servers, e \in Entries : AssignmentOf(table'[t][e]) = AssignmentOf(table[t][e])
  PROVE  /\ TablesOK' /\ Last' = Last /\ UNCHANGED lPc
         /\ \A t \in Servers, e \in Entries : At(t, e)' = At(t, e)
         /\ \A e \in Entries : (Moves(e)' <=> Moves(e)) /\ Old(e)' = Old(e) /\ New(e)' = New(e)
  <1>0. TablesOK
    BY DEF TransferInv
  <1>1. UNCHANGED <<lPc, sub>>
    BY DEF vars, lst
  <1>2. \A t \in Servers, e \in Entries : At(t, e)' = At(t, e)
    BY <1>1 DEF At
  <1>3. /\ Last' = Last
        /\ \A e \in Entries : (Moves(e)' <=> Moves(e)) /\ Old(e)' = Old(e) /\ New(e)' = New(e)
    BY SameMoves
  <1>4. \A e \in Entries : Moves(e)' => /\ mlts'[Last' - 1][e].n_ver # mlts'[Last'][e].n_ver
                                        /\ Old(e)' # New(e)'
    BY <1>0, <1>3 DEF TablesOK
  <1>5. ASSUME NEW t \in Servers
        PROVE  /\ seen'[t] = IF HasTable(t)' THEN Last' - 1 ELSE Last'
               /\ lPc'[t] = "transfer" => Last' > 1
               /\ \A e \in Entries : AssignmentOf(table'[t][e]) = mlts'[At(t, e)'][e]
    BY <1>0, <1>1, <1>2, <1>3 DEF TablesOK, HasTable
  <1>6. TablesOK'
    BY <1>4, <1>5 DEF TablesOK
  <1>. QED
    BY <1>1, <1>2, <1>3, <1>6

(* A line whose state is cleared. *)
Clears(s, e) == table' = [table EXCEPT ![s] = mlt_update_state(@, e, 0)]

(* The tables after the state of one line is cleared. *)
LEMMA Cleared ==
  ASSUME TxTypeOK, NEW s \in Servers, NEW e \in Entries,
         Clears(s, e)
  PROVE  /\ table' \in [Servers -> [Entries -> MltLine]]
         /\ \A t \in Servers, f \in Entries :
              /\ AssignmentOf(table'[t][f]) = AssignmentOf(table[t][f])
              /\ table'[t][f].id_srv = table[t][f].id_srv
              /\ table'[t][f].state = IF t = s /\ f = e THEN 0 ELSE table[t][f].state
  <1>. DEFINE line == [table[s][e] EXCEPT !.state = 0]
  <1>0. table \in [Servers -> [Entries -> MltLine]] /\ table[s] \in [Entries -> MltLine]
    BY DEF TxTypeOK
  <1>1. table[s][e] \in MltLine
    BY <1>0
  <1>2. line \in MltLine /\ line.state = 0 /\ line.id_srv = table[s][e].id_srv
        /\ line.n_ver = table[s][e].n_ver
    BY <1>1 DEF MltLine
  <1>3. mlt_update_state(table[s], e, 0) = [table[s] EXCEPT ![e] = line]
    BY <1>0 DEF mlt_update_state
  <1>4. table'[s] = [table[s] EXCEPT ![e] = line] /\ \A t \in Servers \ {s} : table'[t] = table[t]
    BY <1>0, <1>3 DEF Clears
  <1>. HIDE DEF line
  <1>5. /\ table'[s][e] = line
        /\ \A t \in Servers, f \in Entries : t # s \/ f # e => table'[t][f] = table[t][f]
    BY <1>0, <1>4
  <1>6. table' \in [Servers -> [Entries -> MltLine]]
    <2>1. [table[s] EXCEPT ![e] = line] \in [Entries -> MltLine]
      BY <1>0, <1>2
    <2>2. \A t \in Servers : table[t] \in [Entries -> MltLine]
      BY <1>0
    <2>3. \A t \in Servers : table'[t] \in [Entries -> MltLine]
      BY <1>4, <2>1, <2>2
    <2>4. table' = [t \in Servers |-> table'[t]]
      BY <1>0 DEF Clears
    <2>. QED
      BY <2>3, <2>4
  <1>7. AssignmentOf(line) = AssignmentOf(table[s][e])
    BY <1>2 DEF AssignmentOf
  <1>. QED
    BY <1>2, <1>5, <1>6, <1>7

(* The sender sends an entry ... *)
LEMMA SendEntryKeeps ==
  ASSUME EpochInv, TransferInv, NEW s \in Servers, NEW e \in Entries, SendEntry(s, e)
  PROVE  TransferInv'
  <1>. DEFINE letter == [to |-> table[s][e].id_srv, entry |-> e, status |-> "sent"]
  <1>0. TxTypeOK /\ TablesOK /\ SendersOK /\ KeepersOK /\ StatesOK /\ ReceiversOK
    BY DEF TransferInv
  <1>1. /\ e \in to_send[s] /\ xfer[s] = None
        /\ in_charge' = [in_charge EXCEPT ![s] = @ \ {e}]
        /\ xfer' = [xfer EXCEPT ![s] = letter]
        /\ table' = [table EXCEPT ![s] = mlt_update_state(@, e, 0)]
        /\ UNCHANGED <<vars, mlts, seen, scan, to_send, to_receive, failed>>
    BY DEF SendEntry, NextToSend
  <1>2. /\ Moves(e) /\ Old(e) = s /\ At(s, e) = Last
        /\ New(e) \in Servers /\ New(e) # s /\ table[s][e].id_srv = New(e)
    BY <1>1, Sender
  <1>3. /\ table' \in [Servers -> [Entries -> MltLine]]
        /\ \A t \in Servers, f \in Entries :
             /\ AssignmentOf(table'[t][f]) = AssignmentOf(table[t][f])
             /\ table'[t][f].state = IF t = s /\ f = e THEN 0 ELSE table[t][f].state
    <2>1. Clears(s, e)
      BY <1>1 DEF Clears
    <2>. QED
      BY <1>0, <2>1, Cleared
  <1>4. /\ TablesOK' /\ Last' = Last /\ UNCHANGED lPc
        /\ \A t \in Servers, f \in Entries : At(t, f)' = At(t, f)
        /\ \A f \in Entries : (Moves(f)' <=> Moves(f)) /\ Old(f)' = Old(f) /\ New(f)' = New(f)
    BY <1>1, <1>3, ThreadStep
  <1>5. /\ letter \in Packet /\ letter.to = New(e) /\ letter.entry = e /\ letter.status = "sent"
        /\ letter # None
    BY <1>2, NoneAssumption DEF Packet
  <1>. HIDE DEF letter
  <1>6. xfer'[s] = letter /\ \A t \in Servers \ {s} : xfer'[t] = xfer[t]
    BY <1>0, <1>1 DEF TxTypeOK
  <1>7. /\ ~Delivered(e) /\ ~Delivered(e)' /\ Out(e, "sent")' /\ ~Out(e, "sent")
    <2>1. ~Out(e, "done") /\ ~Out(e, "sent")
      BY <1>1, <1>2 DEF Out
    <2>2. Out(e, "sent")' /\ ~Out(e, "done")'
      BY <1>2, <1>4, <1>5, <1>6 DEF Out
    <2>. QED
      BY <1>1, <1>2, <1>4, <2>1, <2>2 DEF Delivered
  <1>8. ASSUME NEW f \in Entries, f # e, Moves(f)
        PROVE  (Delivered(f)' <=> Delivered(f)) /\ Keeper(f)' = Keeper(f)
    <2>1. PICK o \in Servers : o = Old(f)
      BY <1>0, <1>8, Tables
    <2>2. Old(f)' = o /\ Moves(f)' /\ New(f)' = New(f) /\ Last' = Last
      BY <1>4, <1>8, <2>1
    <2>3. (Out(f, "sent")' <=> Out(f, "sent")) /\ (Out(f, "done")' <=> Out(f, "done"))
      BY <1>1, <1>5, <1>6, <1>8, <2>1, <2>2 DEF Out
    <2>4. At(Old(f), f)' = At(o, f)' /\ At(o, f)' = At(o, f)
      BY <1>4, <2>2 DEF At
    <2>5. Delivered(f)' <=> Delivered(f)
      BY <1>1, <2>1, <2>2, <2>3, <2>4 DEF Delivered
    <2>. QED
      BY <1>8, <2>1, <2>2, <2>3, <2>5 DEF Keeper
  <1>9. \A f \in Entries : Moves(f) => (Delivered(f)' <=> Delivered(f))
    BY <1>7, <1>8
  <1>10. \A f \in Entries : Keeper(f)' = IF f = e THEN None ELSE Keeper(f)
    BY <1>2, <1>4, <1>7, <1>8 DEF Keeper
  <1>11. Keeper(e) = s
    BY <1>2, <1>7 DEF Keeper
  <1>12. TxTypeOK'
    <2>1. xfer' \in [Servers -> Packet \cup {None}]
      BY <1>0, <1>1, <1>5 DEF TxTypeOK
    <2>2. in_charge' \in [Servers -> SUBSET Entries]
      BY <1>0, <1>1 DEF TxTypeOK
    <2>. QED
      BY <1>0, <1>1, <1>3, <2>1, <2>2 DEF TxTypeOK
  <1>13. SendersOK'
    <2>1. ASSUME NEW t \in Servers, xfer'[t] # None
          PROVE  xfer'[t].entry \in to_send'[t] /\ xfer'[t].to = New(xfer[t].entry)'
      <3>1. CASE t = s
        BY <1>1, <1>4, <1>5, <1>6, <3>1
      <3>2. CASE t # s
        <4>1. /\ xfer[t].entry \in to_send[t] /\ xfer[t].to = New(xfer[t].entry)
              /\ xfer[t].entry \in Entries
          BY <1>6, <2>1, <3>2, Letter
        <4>. QED
          BY <1>1, <1>4, <1>6, <3>2, <4>1
      <3>. QED
        BY <3>1, <3>2
    <2>2. \A t \in Servers : to_send[t] \subseteq Entries
      BY <1>0, Lines
    <2>. QED
      BY <1>0, <1>1, <1>4, <2>1, <2>2 DEF SendersOK
  <1>14. KeepersOK'
    <2>1. ASSUME NEW t \in Servers, NEW f \in Entries
          PROVE  f \in in_charge'[t] <=> t = Keeper(f)'
      <3>1. f \in in_charge'[t] <=> f \in in_charge[t] /\ ~(t = s /\ f = e)
        BY <1>0, <1>1 DEF TxTypeOK
      <3>2. f \in in_charge[t] <=> t = Keeper(f)
        BY <1>0 DEF KeepersOK
      <3>. QED
        BY <1>10, <1>11, <3>1, <3>2, NoneAssumption
    <2>. QED
      BY <2>1 DEF KeepersOK
  <1>15. StatesOK'
    <2>1. ASSUME NEW t \in Servers, NEW f \in Entries
          PROVE  table'[t][f].state = 1
                   <=> /\ Moves(f)' /\ At(t, f)' = Last'
                       /\ \/ t = Old(f)' /\ Keeper(f)' = t
                          \/ t = New(f)' /\ ~Delivered(f)'
      <3>1. CASE f # e
        BY <1>0, <1>3, <1>4, <1>9, <1>10, <3>1 DEF StatesOK
      <3>2. CASE f = e /\ t = s
        BY <1>2, <1>3, <1>4, <1>10, <3>2, NoneAssumption
      <3>3. CASE f = e /\ t # s
        BY <1>0, <1>2, <1>3, <1>4, <1>7, <3>3 DEF StatesOK
      <3>. QED
        BY <3>1, <3>2, <3>3
    <2>. QED
      BY <2>1 DEF StatesOK
  <1>16. ReceiversOK'
    <2>1. \A t \in Servers : Awaited(t)' = Awaited(t)
      BY <1>4, <1>9 DEF Awaited
    <2>2. \A f \in Entries : At(New(f), f)' = At(New(f), f)
      BY <1>0, <1>4, Tables
    <2>. QED
      BY <1>0, <1>1, <1>4, <1>9, <2>1, <2>2 DEF ReceiversOK
  <1>. QED
    BY <1>4, <1>12, <1>13, <1>14, <1>15, <1>16 DEF TransferInv

(* ... and goes on when it is acknowledged. *)
LEMMA SendAckedKeeps ==
  ASSUME EpochInv, TransferInv, NEW s \in Servers, SendAcked(s)
  PROVE  TransferInv'
  <1>0. TxTypeOK /\ TablesOK /\ SendersOK /\ KeepersOK /\ StatesOK /\ ReceiversOK
    BY DEF TransferInv
  <1>1. PICK e \in Entries : e = xfer[s].entry
    BY Letter DEF SendAcked
  <1>2. /\ xfer[s] # None /\ xfer[s].status = "done"
        /\ to_send' = [to_send EXCEPT ![s] = @ \ {e}]
        /\ xfer' = [xfer EXCEPT ![s] = None]
        /\ UNCHANGED <<vars, mlts, seen, table, scan, to_receive, failed, in_charge>>
    BY <1>1 DEF SendAcked
  <1>3. Moves(e) /\ Old(e) = s /\ At(s, e) = Last /\ e \in to_send[s]
    BY <1>1, <1>2, Letter
  <1>4. /\ TablesOK' /\ Last' = Last /\ UNCHANGED lPc
        /\ \A t \in Servers, f \in Entries : At(t, f)' = At(t, f)
        /\ \A f \in Entries : (Moves(f)' <=> Moves(f)) /\ Old(f)' = Old(f) /\ New(f)' = New(f)
    BY <1>2, ThreadStep
  <1>5. xfer'[s] = None /\ \A t \in Servers \ {s} : xfer'[t] = xfer[t]
    BY <1>0, <1>2 DEF TxTypeOK
  <1>6. \A t \in Servers, f \in Entries :
          f \in to_send'[t] <=> f \in to_send[t] /\ ~(t = s /\ f = e)
    BY <1>0, <1>2 DEF TxTypeOK
  <1>7. Delivered(e) /\ Delivered(e)'
    <2>1. Out(e, "done")
      BY <1>1, <1>2, <1>3 DEF Out
    <2>. QED
      BY <1>3, <1>4, <1>6, <2>1 DEF Delivered
  <1>8. ASSUME NEW f \in Entries, Moves(f)
        PROVE  (Delivered(f)' <=> Delivered(f)) /\ Keeper(f)' = Keeper(f)
    <2>0. CASE f = e
      BY <1>4, <1>7, <1>8, <2>0 DEF Keeper
    <2>1. CASE f # e
      <3>1. PICK o \in Servers : o = Old(f)
        BY <1>0, <1>8, Tables
      <3>2. Old(f)' = o /\ Moves(f)' /\ New(f)' = New(f) /\ Last' = Last
        BY <1>4, <1>8, <3>1
      <3>3. (Out(f, "sent")' <=> Out(f, "sent")) /\ (Out(f, "done")' <=> Out(f, "done"))
        BY <1>1, <1>5, <2>1, <3>1, <3>2 DEF Out
      <3>4. At(Old(f), f)' = At(o, f)' /\ At(o, f)' = At(o, f)
        BY <1>4, <3>2 DEF At
      <3>5. Delivered(f)' <=> Delivered(f)
        BY <1>6, <2>1, <3>1, <3>2, <3>3, <3>4 DEF Delivered
      <3>. QED
        BY <1>8, <3>1, <3>2, <3>3, <3>5 DEF Keeper
    <2>. QED
      BY <2>0, <2>1
  <1>9. \A f \in Entries : Keeper(f)' = Keeper(f)
    BY <1>4, <1>8 DEF Keeper
  <1>10. TxTypeOK'
    BY <1>0, <1>2 DEF TxTypeOK
  <1>11. SendersOK'
    <2>1. ASSUME NEW t \in Servers, xfer'[t] # None
          PROVE  xfer'[t].entry \in to_send'[t] /\ xfer'[t].to = New(xfer[t].entry)'
      <3>1. t # s /\ xfer'[t] = xfer[t]
        BY <1>5, <2>1
      <3>2. /\ xfer[t].entry \in to_send[t] /\ xfer[t].to = New(xfer[t].entry)
            /\ xfer[t].entry \in Entries
        BY <2>1, <3>1, Letter
      <3>. QED
        BY <1>4, <1>6, <3>1, <3>2
    <2>2. \A t \in Servers : to_send'[t] \subseteq to_send[t] /\ to_send[t] \subseteq Entries
      BY <1>0, <1>2 DEF TxTypeOK
    <2>. QED
      BY <1>0, <1>4, <2>1, <2>2 DEF SendersOK
  <1>12. KeepersOK'
    BY <1>0, <1>2, <1>9 DEF KeepersOK
  <1>13. StatesOK'
    BY <1>0, <1>2, <1>4, <1>8 DEF StatesOK
  <1>14. ReceiversOK'
    <2>1. \A t \in Servers : Awaited(t)' = Awaited(t)
      BY <1>4, <1>8 DEF Awaited
    <2>2. \A f \in Entries : At(New(f), f)' = At(New(f), f)
      BY <1>0, <1>4, Tables
    <2>. QED
      BY <1>0, <1>2, <1>4, <1>8, <2>1, <2>2 DEF ReceiversOK
  <1>. QED
    BY <1>4, <1>10, <1>11, <1>12, <1>13, <1>14 DEF TransferInv


(* The receiver takes an entry and acknowledges it. *)
LEMMA ReceiveEntryKeeps ==
  ASSUME EpochInv, TransferInv, NEW s \in Servers, NEW from \in Servers, ReceiveEntry(s, from)
  PROVE  TransferInv'
  <1>0. TxTypeOK /\ TablesOK /\ SendersOK /\ KeepersOK /\ StatesOK /\ ReceiversOK
    BY DEF TransferInv
  <1>1. /\ lPc[s] = "transfer" /\ scan[s] = NEntry /\ to_receive[s] > 0
        /\ xfer[from] # None /\ xfer[from].to = s /\ xfer[from].status = "sent"
    BY DEF ReceiveEntry, Arrived, Running
  <1>2. PICK e \in Entries : e = xfer[from].entry
    BY <1>1, Letter
  <1>3. /\ Moves(e) /\ Old(e) = from /\ At(from, e) = Last /\ New(e) = s /\ e \in to_send[from]
        /\ from # s
    BY <1>0, <1>1, <1>2, Letter DEF TablesOK
  <1>4. At(s, e) = Last
    <2>1. ~(scan[s] <= e)
      BY <1>1, SizesAssumption DEF Entries
    <2>. QED
      BY <1>1, <2>1, Behind DEF At
  <1>5. ~Delivered(e) /\ Keeper(e) = None
    <2>1. Out(e, "sent") /\ ~Out(e, "done")
      BY <1>1, <1>2, <1>3 DEF Out
    <2>. QED
      BY <1>3, <2>1 DEF Delivered, Keeper
  <1>6. e \notin in_charge[s]
    BY <1>0, <1>5, NoneAssumption DEF KeepersOK
  <1>7. /\ in_charge' = [in_charge EXCEPT ![s] = @ \cup {e}]
        /\ table' = [table EXCEPT ![s] = mlt_update_state(@, e, 0)]
        /\ xfer' = [xfer EXCEPT ![from].status = "done"]
        /\ to_receive' = [to_receive EXCEPT ![s] = @ - 1]
        /\ UNCHANGED <<failed, vars, mlts, seen, scan, to_send>>
    BY <1>2, <1>6 DEF ReceiveEntry
  <1>8. /\ table' \in [Servers -> [Entries -> MltLine]]
        /\ \A t \in Servers, f \in Entries :
             /\ AssignmentOf(table'[t][f]) = AssignmentOf(table[t][f])
             /\ table'[t][f].state = IF t = s /\ f = e THEN 0 ELSE table[t][f].state
    <2>1. Clears(s, e)
      BY <1>7 DEF Clears
    <2>. QED
      BY <1>0, <2>1, Cleared
  <1>9. /\ TablesOK' /\ Last' = Last /\ UNCHANGED lPc
        /\ \A t \in Servers, f \in Entries : At(t, f)' = At(t, f)
        /\ \A f \in Entries : (Moves(f)' <=> Moves(f)) /\ Old(f)' = Old(f) /\ New(f)' = New(f)
    BY <1>7, <1>8, ThreadStep
  <1>10. /\ xfer'[from] # None /\ xfer'[from] \in Packet
         /\ xfer'[from].entry = e /\ xfer'[from].to = s /\ xfer'[from].status = "done"
         /\ \A t \in Servers \ {from} : xfer'[t] = xfer[t]
    <2>1. xfer \in [Servers -> Packet \cup {None}] /\ xfer[from] \in Packet
      BY <1>0, <1>1 DEF TxTypeOK
    <2>2. /\ xfer'[from] = [xfer[from] EXCEPT !.status = "done"]
          /\ \A t \in Servers \ {from} : xfer'[t] = xfer[t]
      BY <1>7, <2>1
    <2>3. [xfer[from] EXCEPT !.status = "done"] \in Packet
      BY <2>1 DEF Packet
    <2>4. xfer'[from] \in Packet
      BY <2>2, <2>3
    <2>5. xfer'[from].entry = e /\ xfer'[from].to = s /\ xfer'[from].status = "done"
      BY <1>1, <1>2, <2>1, <2>2 DEF Packet
    <2>. QED
      BY <2>2, <2>4, <2>5, NoneAssumption
  <1>11. Delivered(e)' /\ Keeper(e)' = s
    <2>1. Out(e, "done")'
      BY <1>3, <1>9, <1>10 DEF Out
    <2>2. Delivered(e)'
      BY <1>3, <1>9, <2>1 DEF Delivered
    <2>. QED
      BY <1>3, <1>9, <2>2 DEF Keeper
  <1>12. ASSUME NEW f \in Entries, f # e, Moves(f)
         PROVE  (Delivered(f)' <=> Delivered(f)) /\ Keeper(f)' = Keeper(f)
    <2>1. PICK o \in Servers : o = Old(f)
      BY <1>0, <1>12, Tables
    <2>2. Old(f)' = o /\ Moves(f)' /\ New(f)' = New(f) /\ Last' = Last
      BY <1>9, <1>12, <2>1
    <2>3. (Out(f, "sent")' <=> Out(f, "sent")) /\ (Out(f, "done")' <=> Out(f, "done"))
      BY <1>2, <1>10, <1>12, <2>1, <2>2 DEF Out
    <2>4. At(Old(f), f)' = At(o, f)' /\ At(o, f)' = At(o, f)
      BY <1>9, <2>2 DEF At
    <2>5. Delivered(f)' <=> Delivered(f)
      BY <1>7, <2>1, <2>2, <2>3, <2>4 DEF Delivered
    <2>. QED
      BY <1>12, <2>1, <2>2, <2>3, <2>5 DEF Keeper
  <1>13. \A f \in Entries : Keeper(f)' = IF f = e THEN s ELSE Keeper(f)
    BY <1>9, <1>11, <1>12 DEF Keeper
  <1>14. \A t \in Servers : /\ Awaited(t)' = IF t = s THEN Awaited(t) \ {e} ELSE Awaited(t)
                            /\ IsFiniteSet(Awaited(t))
                            /\ e \in Awaited(s)
    <2>1. e \in Awaited(s)
      BY <1>3, <1>4, <1>5 DEF Awaited
    <2>2. ASSUME NEW t \in Servers, NEW f \in Entries
          PROVE  f \in Awaited(t)' <=> f \in Awaited(t) /\ ~(t = s /\ f = e)
      <3>1. f \in Awaited(t)' <=> Moves(f) /\ New(f) = t /\ At(t, f) = Last /\ ~Delivered(f)'
        BY <1>9 DEF Awaited
      <3>2. CASE f # e
        BY <1>12, <3>1, <3>2 DEF Awaited
      <3>3. CASE f = e
        BY <1>3, <1>11, <3>1, <3>3 DEF Awaited
      <3>. QED
        BY <3>2, <3>3
    <2>3. \A t \in Servers : Awaited(t) \subseteq Entries /\ Awaited(t)' \subseteq Entries
      BY DEF Awaited
    <2>4. IsFiniteSet(Entries)
      BY FS_Interval, SizesAssumption DEF Entries
    <2>5. \A t \in Servers : IsFiniteSet(Awaited(t))
      BY <2>3, <2>4, FS_Subset
    <2>. HIDE DEF Awaited
    <2>. QED
      BY <2>1, <2>2, <2>3, <2>5
  <1>15. /\ to_receive \in [Servers -> 0 .. NEntry]
         /\ to_receive'[s] = to_receive[s] - 1 /\ to_receive[s] - 1 \in 0 .. NEntry
         /\ \A t \in Servers \ {s} : to_receive'[t] = to_receive[t]
    <2>1. to_receive \in [Servers -> 0 .. NEntry] /\ NEntry \in Nat
      BY <1>0, SizesAssumption DEF TxTypeOK
    <2>2. to_receive[s] - 1 \in 0 .. NEntry
      BY <1>1, <2>1
    <2>. QED
      BY <1>7, <2>1, <2>2
  <1>16. TxTypeOK'
    <2>1. xfer' \in [Servers -> Packet \cup {None}]
      BY <1>0, <1>7, <1>10 DEF TxTypeOK
    <2>2. in_charge' \in [Servers -> SUBSET Entries]
      BY <1>0, <1>7 DEF TxTypeOK
    <2>3. to_receive' \in [Servers -> 0 .. NEntry]
      BY <1>7, <1>15
    <2>. QED
      BY <1>0, <1>7, <1>8, <2>1, <2>2, <2>3 DEF TxTypeOK
  <1>17. SendersOK'
    <2>1. ASSUME NEW t \in Servers, xfer'[t] # None
          PROVE  xfer'[t].entry \in to_send'[t] /\ xfer'[t].to = New(xfer[t].entry)'
      <3>1. CASE t = from
        BY <1>2, <1>3, <1>7, <1>9, <1>10, <3>1
      <3>2. CASE t # from
        <4>1. /\ xfer[t].entry \in to_send[t] /\ xfer[t].to = New(xfer[t].entry)
              /\ xfer[t].entry \in Entries
          BY <1>10, <2>1, <3>2, Letter
        <4>. QED
          BY <1>7, <1>9, <1>10, <3>2, <4>1
      <3>. QED
        BY <3>1, <3>2
    <2>2. \A t \in Servers : xfer'[t] # None => xfer'[t].entry = xfer[t].entry
      BY <1>2, <1>10
    <2>3. \A t \in Servers : to_send[t] \subseteq Entries
      BY <1>0, Lines
    <2>. QED
      BY <1>0, <1>7, <1>9, <2>1, <2>2, <2>3 DEF SendersOK
  <1>18. KeepersOK'
    <2>1. ASSUME NEW t \in Servers, NEW f \in Entries
          PROVE  f \in in_charge'[t] <=> t = Keeper(f)'
      <3>1. f \in in_charge'[t] <=> f \in in_charge[t] \/ (t = s /\ f = e)
        BY <1>0, <1>7 DEF TxTypeOK
      <3>2. f \in in_charge[t] <=> t = Keeper(f)
        BY <1>0 DEF KeepersOK
      <3>. QED
        BY <1>5, <1>13, <3>1, <3>2, NoneAssumption
    <2>. QED
      BY <2>1 DEF KeepersOK
  <1>19. StatesOK'
    <2>1. ASSUME NEW t \in Servers, NEW f \in Entries
          PROVE  table'[t][f].state = 1
                   <=> /\ Moves(f)' /\ At(t, f)' = Last'
                       /\ \/ t = Old(f)' /\ Keeper(f)' = t
                          \/ t = New(f)' /\ ~Delivered(f)'
      <3>1. CASE f # e
        BY <1>0, <1>8, <1>9, <1>12, <1>13, <3>1 DEF StatesOK
      <3>2. CASE f = e /\ t = s
        BY <1>3, <1>8, <1>9, <1>11, <3>2
      <3>3. CASE f = e /\ t # s
        <4>1. table'[t][f].state = 1 <=> table[t][f].state = 1
          BY <1>8, <3>3
        <4>2. table[t][f].state # 1
          BY <1>0, <1>3, <1>5, <3>3, NoneAssumption DEF StatesOK
        <4>. QED
          BY <1>3, <1>9, <1>11, <3>3, <4>1, <4>2
      <3>. QED
        BY <3>1, <3>2, <3>3
    <2>. QED
      BY <2>1 DEF StatesOK
  <1>20. ReceiversOK'
    <2>1. ASSUME NEW t \in Servers
          PROVE  to_receive'[t] = Cardinality(Awaited(t)')
      <3>1. to_receive[t] = Cardinality(Awaited(t))
        BY <1>0 DEF ReceiversOK
      <3>2. CASE t = s
        <4>1. Cardinality(Awaited(t) \ {e}) = Cardinality(Awaited(t)) - 1
          BY <1>14, <3>2, FS_RemoveElement
        <4>. QED
          BY <1>14, <1>15, <3>1, <3>2, <4>1
      <3>3. CASE t # s
        BY <1>14, <1>15, <3>1, <3>3
      <3>. QED
        BY <3>2, <3>3
    <2>2. \A t \in Servers : lPc'[t] # "transfer" => to_receive'[t] = 0
      BY <1>0, <1>1, <1>9, <1>15 DEF ReceiversOK
    <2>3. \A f \in Entries : At(New(f), f)' = At(New(f), f)
      BY <1>0, <1>9, Tables
    <2>4. \A f \in Entries : Moves(f)' /\ Delivered(f)' => At(New(f), f)' = Last'
      BY <1>0, <1>3, <1>4, <1>9, <1>12, <2>3 DEF ReceiversOK
    <2>. QED
      BY <1>0, <1>7, <2>1, <2>2, <2>4 DEF ReceiversOK
  <1>. QED
    BY <1>9, <1>16, <1>17, <1>18, <1>19, <1>20 DEF TransferInv

-----------------------------------------------------------------------------

(* The invariant holds at the start. *)
LEMMA InitTransfer ==
  ASSUME TxInit
  PROVE  TransferInv
  <1>. USE SizesAssumption
  <1>1. /\ mlts = <<InitialAssignments>> /\ \A s \in Servers : sub[s] = <<>> /\ lPc[s] = "recv"
        /\ seen = [s \in Servers |-> 1] /\ table = [s \in Servers |-> mlt_init]
        /\ scan = [s \in Servers |-> 0] /\ to_send = [s \in Servers |-> {}]
        /\ to_receive = [s \in Servers |-> 0] /\ failed = {} /\ xfer = [s \in Servers |-> None]
        /\ in_charge = [s \in Servers |-> {e \in Entries : mlt_init[e].id_srv = s}]
    BY DEF TxInit, Init
  <1>2. \A e \in Entries : e % NbSrv \in Servers
    BY DEF Entries, Servers
  <1>3. mlt_init \in [Entries -> MltLine]
    BY <1>2 DEF mlt_init, MltLine
  <1>4. InitialAssignments \in [Entries -> Assignment]
    BY <1>2 DEF InitialAssignments, AssignmentOf, mlt_init, Assignment
  <1>5. Last = 1 /\ mlts[1] = InitialAssignments /\ \A e \in Entries : ~Moves(e)
    BY <1>1 DEF Last, Moves
  <1>6. TxTypeOK
    <2>1. mlts \in Seq([Entries -> Assignment]) /\ mlts # <<>> /\ DOMAIN mlts = {1}
      BY <1>1, <1>4
    <2>. QED
      BY <1>1, <1>3, <2>1 DEF TxTypeOK
  <1>7. \A s \in Servers, e \in Entries : At(s, e) = 1
    BY <1>1 DEF At
  <1>8. \A e \in Entries : New(e) = mlt_init[e].id_srv /\ Keeper(e) = New(e)
    BY <1>5 DEF New, Keeper, InitialAssignments, AssignmentOf
  <1>9. TablesOK
    <2>1. \A s \in Servers : ~HasTable(s)
      BY <1>1 DEF HasTable
    <2>2. \A s \in Servers, e \in Entries : AssignmentOf(table[s][e]) = mlts[1][e]
      BY <1>1, <1>5 DEF InitialAssignments
    <2>. QED
      BY <1>1, <1>5, <1>7, <2>1, <2>2 DEF TablesOK
  <1>10. SendersOK
    BY <1>1 DEF SendersOK
  <1>11. KeepersOK
    BY <1>1, <1>8 DEF KeepersOK
  <1>12. StatesOK
    <2>1. \A s \in Servers, e \in Entries : table[s][e].state = 0
      BY <1>1 DEF mlt_init
    <2>. QED
      BY <1>5, <2>1 DEF StatesOK
  <1>13. ReceiversOK
    <2>1. \A s \in Servers : Awaited(s) = {}
      BY <1>5 DEF Awaited
    <2>. QED
      BY <1>1, <1>5, <2>1, FS_EmptySet DEF ReceiversOK
  <1>. QED
    BY <1>6, <1>9, <1>10, <1>11, <1>12, <1>13 DEF TransferInv

(* Every step keeps the invariant of the transfers. *)
LEMMA NextTransfer ==
  ASSUME EpochInv, TransferInv, [TxNext]_allVars
  PROVE  TransferInv'
  <1>0. TxTypeOK
    BY DEF TransferInv
  <1>1. ASSUME NEW s \in Servers, HandlerStep(s) PROVE TransferInv'
    BY <1>1, HandlerQuiet
  <1>2. ASSUME NEW s \in Servers, ListenerStep(s) PROVE TransferInv'
    <2>1. CASE Compare(s)
      <3>1. PICK i \in Entries : scan[s] = i
        BY <1>0, <2>1, Lines, SizesAssumption DEF Compare, Entries
      <3>. QED
        BY <2>1, <3>1, CompareKeeps
    <2>. QED
      BY <1>2, <2>1, AnswerQuiet, ReceiveTableKeeps, JoinKeeps DEF ListenerStep
  <1>3. ASSUME NEW s \in Servers, SenderStep(s) PROVE TransferInv'
    BY <1>3, SendEntryKeeps, SendAckedKeeps DEF SenderStep
  <1>4. ASSUME NEW s \in Servers, ReceiverStep(s) PROVE TransferInv'
    BY <1>4, ReceiveEntryKeeps DEF ReceiverStep
  <1>5. CASE ManagerLoop
    <2>1. CASE SendMlt
      BY <2>1, SendMltKeeps
    <2>2. CASE /\ (\E s \in Servers : MgrReceive(s) \/ MgrGather(s))
                  \/ MgrCompare \/ MgrTest \/ MgrAsk \/ MgrMark
               /\ UNCHANGED txVars
      <3>1. ManagerStep
        BY <2>2 DEF ManagerStep
      <3>2. ~MgrSend
        <4>1. MgrSend => mPc = "gather" /\ Len(gathered) = Cardinality(Servers)
                         /\ push' = push /\ mPc' = "mark"
          BY DEF MgrSend
        <4>2. ASSUME NEW s \in Servers, MgrGather(s) PROVE mPc' = "gather"
          BY <4>2 DEF MgrGather
        <4>3. (\E s \in Servers : MgrReceive(s)) \/ MgrCompare \/ MgrTest \/ MgrAsk \/ MgrMark
                => mPc # "gather"
          BY DEF MgrReceive, MgrCompare, MgrTest, MgrAsk, MgrMark
        <4>. QED
          BY <2>2, <4>1, <4>2, <4>3
      <3>. QED
        BY <2>2, <3>1, <3>2, ManagerQuietSteps
    <2>. QED
      BY <1>5, <2>1, <2>2 DEF ManagerLoop
  <1>6. CASE \/ (usrHandler2 \/ (\E sig \in Signals : LaunchSignal(sig)) \/ Synchro) /\ UNCHANGED txVars
             \/ Stopped /\ UNCHANGED txVars
             \/ UNCHANGED allVars
    <2>1. ManagerStep \/ Launch \/ Stopped \/ UNCHANGED vars
      BY <1>6 DEF ManagerStep, Launch, allVars
    <2>2. ~MgrSend
      <3>1. MgrSend => mPc = "gather" /\ mPc' = "mark"
        BY DEF MgrSend
      <3>2. mPc' = mPc
        BY <1>6 DEF usrHandler2, LaunchSignal, Synchro, LaunchManager, SynchroAny, wait_1,
                    LaunchRemove, Stopped, allVars, vars, mgr
      <3>. QED
        BY <3>1, <3>2
    <2>3. UNCHANGED txVars
      BY <1>6 DEF allVars
    <2>. QED
      BY <2>1, <2>2, <2>3, ManagerQuietSteps
  <1>. QED
    BY <1>1, <1>2, <1>3, <1>4, <1>5, <1>6 DEF TxNext

(* The invariant of the transfers: whatever the number of servers and      *)
(* entries, if all settles between two steps, every line is at the last    *)
(* table or one behind, an entry has one keeper or is in one packet, and a *)
(* receiver waits for exactly what has yet to come, so none gives up.      *)
THEOREM TransferInvariance ==
  ASSUME Settles
  PROVE  TxSpec => []TransferInv
  <1>1. TxInit => TransferInv
    BY InitTransfer
  <1>2. EpochInv /\ TransferInv /\ [TxNext]_allVars => TransferInv'
    BY NextTransfer
  <1>. QED
    BY <1>1, <1>2, ExchangeInvariance, PTL DEF TxSpec

(* EntriesInPlace: when the clients run, distribution_windowed_s.c has put *)
(* every entry where the last table says.                                  *)
THEOREM PlacedWhileClientsRun ==
  ASSUME Settles
  PROVE  TxSpec => []EntriesInPlace
  <1>1. EpochInv /\ TransferInv => EntriesInPlace
    <2>. SUFFICES ASSUME EpochInv, TransferInv, phase = "clients"
                  PROVE  \A s \in Servers :
                           /\ \A e \in Entries : /\ AssignmentOf(table[s][e]) = mlts[Last][e]
                                                 /\ table[s][e].state = 0
                           /\ in_charge[s] = {e \in Entries : mlts[Last][e].id_srv = s}
      BY DEF EntriesInPlace, Last
    <2>1. \A s \in Servers : sub[s] = <<>> /\ lPc[s] = "recv"
      BY DEF EpochInv, AcksOK
    <2>2. \A s \in Servers, e \in Entries : AssignmentOf(table[s][e]) = mlts[Last][e]
      BY <2>1, Rest DEF TransferInv, TablesOK
    <2>3. \A s \in Servers : in_charge[s] \subseteq Entries
      BY Lines DEF TransferInv
    <2>4. \A s \in Servers, e \in Entries : e \in in_charge[s] <=> s = mlts[Last][e].id_srv
      BY <2>1, Rest DEF New
    <2>. QED
      BY <2>1, <2>2, <2>3, <2>4, Rest
  <1>. QED
    BY <1>1, ExchangeInvariance, TransferInvariance, PTL

-----------------------------------------------------------------------------
(* The windowed build implements EntryOwnership.  SendMlt publishes a table *)
(* when every entry is where the previous one put it; Compare releases an   *)
(* entry at its old server, ReceiveEntry takes it at its new one; no other  *)
(* step changes who is in service.                                          *)

Holder(e) ==
  IF \E s \in Servers : InService(s, e) THEN CHOOSE s \in Servers : InService(s, e) ELSE None

(* Where the redistribution has brought e. *)
Place(e) ==
  IF ~Moves(e) THEN New(e)
  ELSE IF At(Old(e), e) # Last THEN Old(e)
  ELSE IF Delivered(e) THEN New(e) ELSE None

(* The one server that serves an entry is the one at its place. *)
LEMMA WhoServes ==
  ASSUME EpochInv, TransferInv, NEW s \in Servers, NEW e \in Entries
  PROVE  InService(s, e) <=> s = Place(e)
  <1>0. TxTypeOK /\ TablesOK /\ StatesOK /\ KeepersOK /\ ReceiversOK
    BY DEF TransferInv
  <1>1. /\ At(s, e) \in {Last - 1, Last} /\ At(s, e) \in DOMAIN mlts
        /\ table[s][e].id_srv = mlts[At(s, e)][e].id_srv
        /\ At(s, e) = Last => table[s][e].id_srv = New(e)
        /\ Moves(e) /\ At(s, e) = Last - 1 => table[s][e].id_srv = Old(e)
    BY Behind
  <1>2. Last \in Nat \ {0} /\ DOMAIN mlts = 1 .. Last /\ table[s][e].state \in {0, 1}
        /\ (Moves(e) => Old(e) \in Servers /\ Old(e) # New(e)) /\ New(e) \in Servers
    BY <1>0, Tables, Lines DEF TablesOK
  <1>3. table[s][e].state = 0 <=> ~ /\ Moves(e) /\ At(s, e) = Last
                                    /\ \/ s = Old(e) /\ Keeper(e) = s
                                       \/ s = New(e) /\ ~Delivered(e)
    BY <1>0, <1>2 DEF StatesOK
  <1>4. CASE ~Moves(e)
    <2>1. table[s][e].id_srv = New(e)
      <3>1. CASE At(s, e) = Last
        BY <1>1, <3>1
      <3>2. CASE At(s, e) = Last - 1
        <4>1. Last > 1
          BY <1>1, <1>2, <3>2
        <4>2. mlts[Last - 1][e] = mlts[Last][e]
          BY <1>4, <4>1 DEF Moves
        <4>. QED
          BY <1>1, <3>2, <4>2 DEF New
      <3>. QED
        BY <1>1, <3>1, <3>2
    <2>. QED
      BY <1>3, <1>4, <2>1 DEF InService, Place
  <1>5. CASE Moves(e)
    <2>1. Delivered(e) => At(Old(e), e) = Last /\ At(New(e), e) = Last
      BY <1>0, <1>5 DEF Delivered, ReceiversOK
    <2>2. CASE At(s, e) = Last
      BY <1>1, <1>2, <1>3, <1>5, <2>1, <2>2, NoneAssumption DEF InService, Place
    <2>3. CASE At(s, e) = Last - 1
      <3>1. At(s, e) # Last
        BY <1>2, <2>3
      <3>2. InService(s, e) <=> s = Old(e)
        BY <1>1, <1>3, <1>5, <2>3, <3>1 DEF InService
      <3>3. s = Old(e) => s = Place(e)
        BY <1>5, <3>1 DEF Place
      <3>4. s # Old(e) => s # Place(e)
        BY <1>2, <1>5, <2>1, <3>1, NoneAssumption DEF Place
      <3>. QED
        BY <3>2, <3>3, <3>4
    <2>. QED
      BY <1>1, <2>2, <2>3
  <1>. QED
    BY <1>4, <1>5

(* So it is the holder in the sense of EntryOwnership. *)
LEMMA HolderPlace ==
  ASSUME EpochInv, TransferInv, NEW e \in Entries
  PROVE  Holder(e) = Place(e)
  <1>1. \A s \in Servers : InService(s, e) <=> s = Place(e)
    BY WhoServes
  <1>2. Place(e) \in Servers \/ Place(e) = None
    BY Tables DEF Place, TransferInv
  <1>. QED
    BY <1>1, <1>2, NoneAssumption DEF Holder

(* The holder depends on who is in service only. *)
LEMMA HolderSame ==
  ASSUME NEW e \in Entries, \A s \in Servers : InService(s, e)' <=> InService(s, e)
  PROVE  Holder(e)' = Holder(e)
  BY DEF Holder

(* A step after which the same servers are in service. *)
LEMMA Stutter ==
  ASSUME UNCHANGED mlts, \A e \in Entries, s \in Servers : InService(s, e)' <=> InService(s, e)
  PROVE  UNCHANGED Ownership!vars
  <1>1. \A e \in Entries : Holder(e)' = Holder(e)
    BY HolderSame
  <1>2. UNCHANGED [e \in Entries |-> Holder(e)] /\ UNCHANGED mlts[Len(mlts)]
    BY <1>1
  <1>. QED
    BY <1>2 DEF Ownership!vars, Holder

(* EntryOwnership shares the relation RelabMany ... *)
LEMMA AbstractRelabMany == \A t : Ownership!RelabMany(t) = RelabMany(t)
  BY DEF Ownership!RelabMany, Ownership!Moved, Ownership!Entries, Ownership!Servers,
         RelabMany, Moved, Entries, Servers

(* ... and the operator Reassign. *)
LEMMA AbstractReassign == \A a, s : Ownership!Reassign(a, s) = Reassign(a, s)
  BY DEF Ownership!Reassign, Reassign

(* The build starts as EntryOwnership does. *)
LEMMA InitOwnership ==
  ASSUME TxInit
  PROVE  Ownership!Init
  <1>1. mlts = <<InitialAssignments>>
    BY DEF TxInit
  <1>2. mlts[Len(mlts)] = InitialAssignments /\ Last = 1
    BY <1>1 DEF Last
  <1>3. mlts[Len(mlts)] = Ownership!InitialAssignments
    BY <1>2 DEF Ownership!InitialAssignments, Ownership!AssignmentOf, Ownership!mlt_init,
                Ownership!Entries, InitialAssignments, AssignmentOf, mlt_init, Entries
  <1>4. EpochInv /\ TransferInv
    BY InitInv, InitTransfer DEF TxInit
  <1>5. \A e \in Entries : Holder(e) = mlts[Len(mlts)][e].id_srv
    <2>1. \A e \in Entries : Place(e) = mlts[Len(mlts)][e].id_srv
      BY <1>2 DEF Place, Moves, New, Last
    <2>. QED
      BY <1>4, <2>1, HolderPlace
  <1>. QED
    BY <1>3, <1>5 DEF Ownership!Init, Ownership!Entries, Entries, Holder

(* The manager publishes a table. *)
LEMMA SendRedistributes ==
  ASSUME EpochInv, TransferInv, SendMlt
  PROVE  Ownership!Redistribute(Ownership!RelabMany(mlts[Len(mlts)]))
  <1>0. TxTypeOK
    BY DEF TransferInv
  <1>1. \A s \in Servers : sub[s] = <<>> /\ lPc[s] = "recv"
    BY AllAtRest DEF SendMlt
  <1>2. PICK new \in RelabMany(mlts[Last]) :
          mlts' = Append(mlts, [e \in Entries |-> Reassign(mlts[Last][e], new[e])])
    BY DEF SendMlt, Last
  <1>3. UNCHANGED table
    BY DEF SendMlt
  <1>4. \A e \in Entries : Holder(e) = mlts[Len(mlts)][e].id_srv
    <2>1. ASSUME NEW e \in Entries PROVE Place(e) = New(e)
      <3>1. Moves(e) => Delivered(e) /\ Old(e) \in Servers
        BY <1>0, <1>1, Rest, Tables
      <3>2. Moves(e) => At(Old(e), e) = Last
        BY <1>1, <3>1, Rest
      <3>. QED
        BY <3>1, <3>2 DEF Place
    <2>. QED
      BY <2>1, HolderPlace DEF New, Last
  <1>5. \A e \in Entries : Holder(e)' = Holder(e)
    BY <1>3, HolderSame DEF InService
  <1>6. mlts'[Len(mlts')] = [e \in Entries |-> Reassign(mlts[Len(mlts)][e], new[e])]
    BY <1>0, <1>2, NewTable DEF Last
  <1>7. new \in Ownership!RelabMany(mlts[Len(mlts)])
        /\ mlts'[Len(mlts')] = [e \in Entries |-> Ownership!Reassign(mlts[Len(mlts)][e], new[e])]
    BY <1>2, <1>6, AbstractRelabMany, AbstractReassign DEF Last
  <1>. QED
    BY <1>4, <1>5, <1>7 DEF Ownership!Redistribute, Ownership!Entries, Entries, Holder

(* The comparison of an entry that moves takes it from its old server.     *)
LEMMA CompareReleases ==
  ASSUME EpochInv, TransferInv, NEW s \in Servers, NEW i \in Entries, scan[s] = i, Compare(s)
  PROVE  Ownership!Release(i) \/ UNCHANGED Ownership!vars
  <1>. DEFINE old == table[s][i]
              new == mlts[seen[s]][i]
  <1>0. TxTypeOK /\ table \in [Servers -> [Entries -> MltLine]]
    BY DEF TransferInv, TxTypeOK
  <1>1. lPc[s] = "transfer" /\ seen[s] = Last /\ UNCHANGED mlts /\ new.id_srv = New(i)
    BY Behind DEF Compare, New
  <1>2. /\ At(s, i) = Last - 1 /\ At(s, i) # Last
        /\ old.n_ver # new.n_ver <=> Moves(i)
        /\ Loses(s, old, new) <=> Moves(i) /\ Old(i) = s
        /\ Gains(s, old, new) <=> Moves(i) /\ New(i) = s
        /\ Moves(i) => Old(i) # New(i) /\ Old(i) \in Servers
    BY Comparison
  <1>3. table' = [table EXCEPT ![s] =
                    IF old.n_ver = new.n_ver THEN @
                    ELSE mlt_update_entry(@, i, new.id_srv, new.n_ver, StateAfter(s, old, new))]
    BY DEF Compare
  <1>4. CASE ~Moves(i)
    <2>1. UNCHANGED table
      BY <1>0, <1>2, <1>3, <1>4
    <2>. QED
      BY <1>1, <2>1, Stutter DEF InService
  <1>5. CASE Moves(i)
    <2>. DEFINE state == StateAfter(s, old, new)
                line  == [id_srv |-> New(i), n_ver |-> new.n_ver, state |-> state]
    <2>1. s \in {Old(i), New(i)} => state = 1
      BY <1>2, <1>5 DEF StateAfter
    <2>2. old.n_ver # new.n_ver
      BY <1>2, <1>5
    <2>. HIDE DEF old, state
    <2>3. table' = [table EXCEPT ![s] = [@ EXCEPT ![i] = line]]
      BY <1>1, <1>3, <2>2 DEF mlt_update_entry, state
    <2>. HIDE DEF new
    <2>4. line.id_srv = New(i) /\ line.state = state
      OBVIOUS
    <2>. HIDE DEF line
    <2>5. /\ table'[s][i] = line
          /\ \A t \in Servers, e \in Entries : t # s \/ e # i => table'[t][e] = table[t][e]
      BY <1>0, <2>3
    <2>6. ~InService(s, i)'
      BY <2>1, <2>4, <2>5 DEF InService
    <2>7. \A t \in Servers, e \in Entries : t # s \/ e # i => (InService(t, e)' <=> InService(t, e))
      BY <2>5 DEF InService
    <2>8. \A e \in Entries : e # i => Holder(e)' = Holder(e)
      BY <2>7, HolderSame
    <2>9. CASE Old(i) = s
      <3>1. Place(i) = s
        BY <1>2, <1>5, <2>9 DEF Place
      <3>2. Holder(i) = s
        BY <3>1, HolderPlace
      <3>3. \A t \in Servers : ~InService(t, i)'
        BY <2>6, <2>7, <3>1, WhoServes
      <3>4. Holder(i)' = None
        BY <3>3 DEF Holder
      <3>5. Holder(i) \notin {None, mlts[Len(mlts)][i].id_srv}
        BY <1>2, <1>5, <2>9, <3>2, NoneAssumption DEF New, Last
      <3>6. mlts'[Len(mlts')] = mlts[Len(mlts)]
        BY <1>1
      <3>. QED
        BY <2>8, <3>4, <3>5, <3>6 DEF Ownership!Release, Holder
    <2>10. CASE Old(i) # s
      <3>1. ~InService(s, i)
        BY <1>2, <1>5, <2>10, Behind DEF InService
      <3>. QED
        BY <1>1, <2>6, <2>7, <3>1, Stutter
    <2>. QED
      BY <2>9, <2>10
  <1>. QED
    BY <1>4, <1>5

(* The new server takes an entry, which is in its packet. *)
LEMMA ReceiveTakes ==
  ASSUME EpochInv, TransferInv, NEW s \in Servers, NEW from \in Servers, ReceiveEntry(s, from)
  PROVE  \E e \in Entries : Ownership!Take(e)
  <1>0. TxTypeOK /\ TablesOK /\ KeepersOK /\ table \in [Servers -> [Entries -> MltLine]]
    BY DEF TransferInv, TxTypeOK
  <1>1. /\ lPc[s] = "transfer" /\ scan[s] = NEntry
        /\ xfer[from] # None /\ xfer[from].to = s /\ xfer[from].status = "sent"
    BY DEF ReceiveEntry, Arrived, Running
  <1>2. PICK e \in Entries : e = xfer[from].entry
    BY <1>1, Letter
  <1>3. Moves(e) /\ Old(e) = from /\ At(from, e) = Last /\ New(e) = s /\ e \in to_send[from]
    BY <1>1, <1>2, Letter
  <1>4. At(s, e) = Last
    <2>1. ~(scan[s] <= e)
      BY <1>1, SizesAssumption DEF Entries
    <2>. QED
      BY <1>1, <2>1, Behind DEF At
  <1>5. ~Delivered(e) /\ Keeper(e) = None
    <2>1. Out(e, "sent") /\ ~Out(e, "done")
      BY <1>1, <1>2, <1>3 DEF Out
    <2>. QED
      BY <1>3, <2>1 DEF Delivered, Keeper
  <1>6. e \notin in_charge[s]
    BY <1>0, <1>5, NoneAssumption DEF KeepersOK
  <1>7. UNCHANGED mlts /\ Clears(s, e)
    BY <1>2, <1>6 DEF ReceiveEntry, Clears
  <1>8. \A t \in Servers, f \in Entries :
          /\ table'[t][f].id_srv = table[t][f].id_srv
          /\ table'[t][f].state = IF t = s /\ f = e THEN 0 ELSE table[t][f].state
    BY <1>0, <1>7, Cleared
  <1>9. table[s][e].id_srv = s
    BY <1>3, <1>4, Behind
  <1>10. Place(e) = None
    BY <1>3, <1>5 DEF Place
  <1>11. Holder(e) = None /\ \A t \in Servers : ~InService(t, e)
    BY <1>10, HolderPlace, WhoServes, NoneAssumption
  <1>12. \A t \in Servers : InService(t, e)' <=> t = s
    BY <1>8, <1>9, <1>11 DEF InService
  <1>13. Holder(e)' = s
    BY <1>12 DEF Holder
  <1>14. \A f \in Entries : f # e => Holder(f)' = Holder(f)
    BY <1>8, HolderSame DEF InService
  <1>15. mlts[Len(mlts)][e].id_srv = s /\ mlts'[Len(mlts')] = mlts[Len(mlts)]
    BY <1>3, <1>7 DEF New, Last
  <1>16. Ownership!Take(e)
    BY <1>11, <1>13, <1>14, <1>15 DEF Ownership!Take, Holder
  <1>. QED
    BY <1>16

(* The line a sender marks names another server. *)
LEMMA SendKeepsHolders ==
  ASSUME EpochInv, TransferInv, NEW s \in Servers, NEW e \in Entries, SendEntry(s, e)
  PROVE  UNCHANGED Ownership!vars
  <1>0. TxTypeOK
    BY DEF TransferInv
  <1>1. UNCHANGED mlts /\ Clears(s, e) /\ e \in to_send[s]
    BY DEF SendEntry, NextToSend, Clears
  <1>2. \A t \in Servers, f \in Entries :
          /\ table'[t][f].id_srv = table[t][f].id_srv
          /\ table'[t][f].state = IF t = s /\ f = e THEN 0 ELSE table[t][f].state
    BY <1>0, <1>1, Cleared
  <1>3. table[s][e].id_srv # s
    BY <1>1, Sender
  <1>. QED
    BY <1>1, <1>2, <1>3, Stutter DEF InService

(* Every step is a step of EntryOwnership or changes nothing there. *)
LEMMA NextOwnership ==
  ASSUME EpochInv, TransferInv, [TxNext]_allVars
  PROVE  Ownership!NextMany \/ UNCHANGED Ownership!vars
  <1>0. TxTypeOK
    BY DEF TransferInv
  <1>1. CASE SendMlt
    BY <1>1, SendRedistributes DEF Ownership!NextMany
  <1>2. ASSUME NEW s \in Servers, Compare(s)
        PROVE  Ownership!NextMany \/ UNCHANGED Ownership!vars
    <2>1. PICK i \in Entries : scan[s] = i
      BY <1>0, <1>2, Lines, SizesAssumption DEF Compare, Entries
    <2>2. Ownership!Release(i) \/ UNCHANGED Ownership!vars
      BY <1>2, <2>1, CompareReleases
    <2>. QED
      BY <2>2 DEF Ownership!NextMany, Ownership!HandOver, Ownership!Entries, Entries
  <1>3. ASSUME NEW s \in Servers, ReceiverStep(s)
        PROVE  Ownership!NextMany
    <2>1. PICK from \in Servers : ReceiveEntry(s, from)
      BY <1>3 DEF ReceiverStep
    <2>2. \E e \in Entries : Ownership!Take(e)
      BY <2>1, ReceiveTakes
    <2>. QED
      BY <2>2 DEF Ownership!NextMany, Ownership!HandOver, Ownership!Entries, Entries
  <1>4. ASSUME NEW s \in Servers, NEW e \in Entries, SendEntry(s, e)
        PROVE  UNCHANGED Ownership!vars
    BY <1>4, SendKeepsHolders
  <1>5. CASE UNCHANGED <<mlts, table>>
    BY <1>5, Stutter DEF InService
  <1>6. \/ SendMlt
        \/ \E s \in Servers : \/ Compare(s) \/ ReceiverStep(s)
                              \/ \E e \in Entries : SendEntry(s, e)
        \/ UNCHANGED <<mlts, table>>
    <2>1. ASSUME NEW s \in Servers, HandlerStep(s) \/ ListenerStep(s) \/ SenderStep(s)
          PROVE  \/ Compare(s) \/ \E e \in Entries : SendEntry(s, e)
                 \/ UNCHANGED <<mlts, table>>
      BY <2>1 DEF HandlerStep, ListenerStep, SenderStep, ReceiveTable, Join, SendAcked, txVars
    <2>2. ManagerLoop => SendMlt \/ UNCHANGED <<mlts, table>>
      BY DEF ManagerLoop, txVars
    <2>3. UNCHANGED txVars \/ UNCHANGED allVars => UNCHANGED <<mlts, table>>
      BY DEF txVars, allVars
    <2>. QED
      BY <2>1, <2>2, <2>3 DEF TxNext
  <1>. QED
    BY <1>1, <1>2, <1>3, <1>4, <1>5, <1>6

(* HandsOver: whatever the number of servers and entries, and whatever the *)
(* order in which senders and receivers meet, an entry is released before  *)
(* it is taken, and no table is computed before all entries have arrived.  *)
THEOREM Implements ==
  ASSUME Settles
  PROVE  TxSpec => HandsOver
  <1>1. TxInit => Ownership!Init
    BY InitOwnership
  <1>2. EpochInv /\ TransferInv /\ [TxNext]_allVars => [Ownership!NextMany]_(Ownership!vars)
    BY NextOwnership
  <1>. QED
    BY <1>1, <1>2, ExchangeInvariance, TransferInvariance, PTL DEF TxSpec, HandsOver, Ownership!SpecMany
=============================================================================
